SPECIFICATION FairSpec
CONSTANTS
  Workers = {w1, w2, w3}
  First = w1
  Tasks <- TaskNames
  Programs <- AllPrograms
  Main = "main"
  NoTask = NoTask
  Proactive = TRUE
INVARIANT TypeOK
INVARIANT JoinsTheMeantTask
INVARIANT NobodyHoldsDeleted
INVARIANT RootsCovered
PROPERTY MainCompletes
CHECK_DEADLOCK FALSE
