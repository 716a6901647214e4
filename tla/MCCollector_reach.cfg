SPECIFICATION Spec
CONSTANTS
  Objects = {o1, o2, o3}
  Arrays = {}
  MaxFields = 1
  MaxQueue = 2
  Threshold = 0
SYMMETRY ADTSymmetry
INVARIANT TraceMarksReachable
CHECK_DEADLOCK FALSE
