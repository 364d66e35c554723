SPECIFICATION FairSpec
CONSTANTS
  BufSize = 8
  MTU = 3
  MinSize = 4
  MaxBytes = 22
  Faults = {"short", "error", "refused"}
INVARIANTS ZoneConsistent Accounted
PROPERTIES ImplementsAppendFile LoopsEnd
