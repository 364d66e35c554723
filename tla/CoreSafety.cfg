SPECIFICATION Spec
CONSTANTS
  NumTasks = 2
  SubTasks = {2}
  NumRings = 1
  NumSlots = 3
  SeqMod = 3
  MaxGap = 0
  PipeHWM = 1
  MaxSubs = 2
  Outcomes = {"more", "sleep"}
VIEW LiveView
INVARIANTS TypeOK SyncedInRange
PROPERTIES UnreadKept ReqReadsOnce SyncedKeepsContract
