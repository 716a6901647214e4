SPECIFICATION Spec
CONSTANTS
  Workers = {w1, w2}
  First = w1
  Tasks <- TaskNames
  Programs <- AllPrograms
  Main = "main"
  NoTask = NoTask
  Proactive = TRUE
INVARIANT CancelVisitsExisting
CHECK_DEADLOCK FALSE
