SPECIFICATION Spec
CONSTANTS
  Task = {wk, t1, t2}
  NoTask = NoTask
  Worker = wk
  Work = {w1, w2}
  Rearming = {}
  SINGLETHREAD = TRUE
  NESTED = TRUE
  Width = 10
  MaxDepth = 2
PROPERTIES FlushWaitsForQueued
