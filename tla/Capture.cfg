SPECIFICATION Spec
CONSTANTS
  NumFiles = 2
  Requests <- MCRequests
  MaxSize = 2
  MaxFrames = 5
  MaxJobs = 2
  ShortLens = {0, 1, 2}
  Faults = {"lost", "bad", "write", "disk", "kill"}
INVARIANTS TypeOK Answered IdleIsClean StreamAsserts TickIndex
           OkMeansCaptured StatsNotMixed
PROPERTY StreamWhole
