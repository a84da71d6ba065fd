SPECIFICATION FairSpec
CONSTANTS
  Task = {c1, c2}
  NoTask = NoTask
  Nr = {3, 5}
  MAX_SOFTIRQ_RESTART = 2
  TaskletStruct = {t1}
  NoTasklet = NoTasklet
  TASKLET_SOFTIRQ = 5
INVARIANTS SchedHasOneOwner TaskletSerialized DisabledNotRunning
PROPERTIES KillIsFinal PendingTaken TaskletRuns
