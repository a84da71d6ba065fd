SPECIFICATION FairSpec
CONSTANTS
  Task = {wk, t1}
  NoTask = NoTask
  Worker = wk
  Work = {w1, r}
  Rearming = {r}
  SINGLETHREAD = TRUE
  NESTED = TRUE
  Width = 10
  MaxDepth = 2
INVARIANTS SequencesCountWork
PROPERTIES QueuedWorkRuns FlushReturns
