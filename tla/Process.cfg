SPECIFICATION Spec
CONSTANTS
  NumTasks = 2
  TimerTasks = {1}
  AutoTasks = {1}
  FinAsserts = {2}
  NumDsets = 2
  MaxConvs = 3
  Seconds = {1, 2}
  FileSizes = {0, 2}
  DsetReqs <- MCDsetReqs
INVARIANTS ProcessAsserts LaunchReported OrderlyStop OldDataKept
PROPERTIES Settles
