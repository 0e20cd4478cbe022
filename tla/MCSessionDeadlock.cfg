CONSTANTS
  IntBytes = 2
  ChunkSize = 2
  VarSize = 2
  Inputs <- InputCut5
  Garbage <- GarbageSome
  Capacity = 2
  Faults = {}
SPECIFICATION FairSpec
PROPERTY Terminates
CHECK_DEADLOCK FALSE
