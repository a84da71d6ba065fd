SPECIFICATION FairSpec
CONSTANTS
  Task = {t1, t2, t3}
  NoTask = NoTask
  Interruptible = {t2, t3}
INVARIANTS MutualExclusion NoLostWakeup
PROPERTIES InterruptedWaiterReturns EveryWaiterReturns
