SPECIFICATION Spec
CONSTANTS
  Owner = owner
  Thieves = {t1, t2}
  InitSize = 1
  MaxJobs = 3
PROPERTY NoTakeWhileGrowing
CHECK_DEADLOCK FALSE
