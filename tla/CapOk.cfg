SPECIFICATION Spec
CONSTANTS
  NumFiles = 2
  Requests <- MCRequests
  MaxSize = 2
  MaxFrames = 5
  MaxJobs = 2
  ShortLens = {}
  Faults = {"lost", "bad", "write", "disk", "kill"}
INVARIANT OkMeansWritten
