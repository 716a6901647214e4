SPECIFICATION FairSpec
CONSTANTS
  NumCores = 3
  Kids = {k1, k2}
  Program = Program
  MaxRequests = 2
INVARIANT TypeOK
INVARIANT StuckOnlyAfterFailure
INVARIANT ResultOrError
PROPERTY RunReturns
CHECK_DEADLOCK FALSE
