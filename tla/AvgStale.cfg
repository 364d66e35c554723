SPECIFICATION Spec
CONSTANTS
  Lens = {1, 2, 4}
  MaxStreams = 3
  HistCap = 3
  Timeouts = {0, 1, 3}
  PerSec = 2
  Width = 5
  FSeqMod = 3
  Losses = {0, 1, 3}
  EventNums = {0, 2}
  MaxSpan = 5
  NHists = 2
  MaxCh = 3
  NBins = 3
  DMax = 3
  MaxPoints = 4
  Default <- MCDefault
  Confs <- MCConfs
  Delays = {1, 2}
  FrameLens = {1, 2}
  MaxWindow = 3
  MaxTicks = 3
  MaxCount = 1
INVARIANT AvgStartsClean
