SPECIFICATION Spec
CONSTANTS
  ClientKinds <- SmokeClient
  Reads <- MCReads
  Writes <- MCWrites
  Nesting <- MCNesting
  Jobs = {j1, j2}
  j1 = j1
  j2 = j2
  WorkerCounts = {1, 2, 3}
  FrameLimits = {0, 1}
  LastTick = 2
  FixedDt = 3
  MaxDt = 10
  FrameTimes = {0, 5, 20}
INVARIANTS
  PictureIsComplete
CHECK_DEADLOCK FALSE
