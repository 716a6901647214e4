SPECIFICATION FairSpec
CONSTANTS
  Programs <- AllPrograms
  Apply <- MCApply
  Undefined <- MCUndefined
  False <- MCFalse
  Fault = Fault
  SizeRange = 1024
  Fuel = 20
INVARIANT TypeOK
INVARIANT WindowsInStack
INVARIANT ControlMatches
INVARIANT EndsBalanced
INVARIANT NeededJoinsDeliver
INVARIANT ComputesMeaning
PROPERTY Terminates
CHECK_DEADLOCK FALSE
