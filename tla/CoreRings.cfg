SPECIFICATION Spec
CONSTANTS
  NumTasks = 1
  SubTasks = {}
  NumRings = 2
  NumSlots = 2
  SeqMod = 4
  MaxGap = 1
  PipeHWM = 1
  MaxSubs = 0
  Outcomes = {"more", "sleep"}
VIEW LiveView
INVARIANT SyncedDispatch
