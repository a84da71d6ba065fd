SPECIFICATION FairSpec
CONSTANTS
  Task = {t1, t2, t3}
  NoTask = NoTask
  Interruptible = {t2, t3}
  Timed = {t3}
  UINT_MAX = 15
  MaxPosts = 2
  MaxWaits = 4
INVARIANTS UnitsHaveTakers EntriesMatchWaiters
PROPERTIES WaitsEnd
CHECK_DEADLOCK FALSE
