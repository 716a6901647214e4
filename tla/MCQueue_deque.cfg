SPECIFICATION FairSpec
CONSTANTS
  Owner = owner
  Thieves = {t1, t2}
  InitSize = 1
  MaxJobs = 4
INVARIANT TypeOK
INVARIANT StealsInBounds
INVARIANT GrowthCountsJobs
PROPERTY ImplementsDeque
PROPERTY PushReturns
CHECK_DEADLOCK FALSE
