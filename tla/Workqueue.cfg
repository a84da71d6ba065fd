SPECIFICATION Spec
CONSTANTS
  Task = {wk, t1, t2}
  NoTask = NoTask
  Worker = wk
  Work = {w1, r}
  Rearming = {r}
  SINGLETHREAD = TRUE
  NESTED = FALSE
  Width = 8
  MaxDepth = 1
INVARIANTS PendingHasOneOwner WorkerNotForgotten FlusherNotForgotten DestroyedEmpty CancelIsFinal
PROPERTIES FlushWaitsForQueued
