SPECIFICATION Spec
CONSTANTS
  Objects = {o1, o2, a1}
  Arrays = {a1}
  MaxFields = 1
  MaxQueue = 1
  Threshold = 0
SYMMETRY ADTSymmetry
INVARIANT TypeOK
INVARIANT OwnedOnce
INVARIANT DeletedMetOnlyInArrays
INVARIANT YoungCollectionsKeepReachable
CHECK_DEADLOCK FALSE
