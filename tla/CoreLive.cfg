SPECIFICATION FairSpec
CONSTANTS
  NumTasks = 1
  SubTasks = {}
  NumRings = 1
  NumSlots = 3
  SeqMod = 1
  MaxGap = 0
  PipeHWM = 2
  MaxSubs = 0
  Outcomes = {"more", "error"}
PROPERTIES FrameIsRead SlotsAreReleased
