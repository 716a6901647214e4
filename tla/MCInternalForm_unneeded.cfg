SPECIFICATION Spec
CONSTANTS
  Programs <- OneSpeculation
  Apply <- MCApply
  Undefined <- MCUndefined
  False <- MCFalse
  Fault = Fault
  SizeRange = 1024
  Fuel = 20
INVARIANT UnneededBranchHarmless
CHECK_DEADLOCK FALSE
