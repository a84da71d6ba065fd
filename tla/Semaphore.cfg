SPECIFICATION FairSpec
CONSTANTS
  Task = {t1, t2, t3}
  NoTask = NoTask
  N = 1
  Interruptible = {t2, t3}
INVARIANTS UnitsConserved NoLostWakeup
PROPERTIES EveryWaiterReturns InterruptedWaiterReturns
