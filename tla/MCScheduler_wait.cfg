SPECIFICATION Spec
CONSTANTS
  Workers = {w1, w2, w3}
  First = w1
  Tasks <- TaskNames
  Programs <- AllPrograms
  Main = "main"
  NoTask = NoTask
  Proactive = TRUE
INVARIANT AwaitedExists
CHECK_DEADLOCK FALSE
