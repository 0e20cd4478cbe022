CONSTANTS
  IntBytes = 3
  ChunkSize = 2
  VarSize = 1
  Inputs <- InputPipe
  Garbage <- GarbageSome
  Capacity = 4
  Faults = {}
SPECIFICATION Spec
INVARIANT SendsEveryByteCode
