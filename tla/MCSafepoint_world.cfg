SPECIFICATION FairSpec
CONSTANTS
  Threads = {u1, u2, u3}
  NoThread = NoThread
INVARIANT TypeOK
INVARIANT StopTheWorld
INVARIANT StoppedIsExact
PROPERTY LeavesAfterScan
PROPERTY CollectionEnds
CHECK_DEADLOCK FALSE
