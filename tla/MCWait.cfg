SPECIFICATION Spec
CONSTANTS
  RcuCPU = {c1, c2}
  NoCPU = NoCPU
  RcuHead = {h1}
  BatchMod = 4
  Reader = {r1, r2}
  Updater = {u1, u2}
  NoUpdater = NoUpdater
  NR_CPUS = 2
  CompletedMod = 6
  CounterMod = 3
  cpu1 = cpu1
  cpu2 = cpu2
  task1 = task1
  task2 = task2
  Base = {cpu1, cpu2}
  NoBase = NoBase
  User = {task1, task2}
  HomeOf <- MCHomeOf
  Expiry = {1, 2}
SYMMETRY Symmetry
INVARIANTS TimerSerialized
PROPERTIES RcuImplementsGracePeriod BarrierCoversQueued SrcuImplementsGracePeriod SyncIsFinal
