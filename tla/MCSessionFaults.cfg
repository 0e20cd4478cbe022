CONSTANTS
  IntBytes = 3
  ChunkSize = 2
  VarSize = 2
  Inputs <- InputsAll
  Garbage <- GarbageSome
  Capacity = 4
  Faults = {"memory", "calls", "network", "crash"}
SPECIFICATION FairSpec
INVARIANTS TypeOK Released AnswersAfterTheEnd RunsWhatWasSent PrintsTheVariables NothingLeftUnread
PROPERTY Terminates
