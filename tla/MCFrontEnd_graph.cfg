SPECIFICATION Spec
CONSTANTS
  Programs <- AllPrograms
  LongOnes = {"slow"}
  MaxWork = 60
  Fault = Fault
  Slow = "slow"
  NoResult = NoResult
  Fuel = 10
INVARIANT TypeOK
INVARIANT StacksMatchWork
INVARIANT AcceptedGenerates
INVARIANT SchemeMeansSource
INVARIANT OverflowsOnlyOnCycles
CHECK_DEADLOCK FALSE
