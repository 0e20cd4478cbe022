CONSTANTS
  W = 9
  MemoryFails = TRUE
  Junk <- JunkSome
  Programs <- AllPrograms
  VectorSizes <- SizesSome
  CHUNK_SIZE = 3
SPECIFICATION FairSpec
INVARIANTS TypeOK NothingSkipped TraceIsWhatRan
PROPERTIES ImplementsMachine Terminates
CHECK_DEADLOCK FALSE
