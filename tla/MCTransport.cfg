CONSTANTS
  Sizes = {1, 3}
  Wants = {2, 4}
  Capacity = 3
  MaxBytes = 5
SPECIFICATION FairSpec
INVARIANTS TypeOK InOrder AtMostHalfLost EofIsTheEnd SentOnce
PROPERTIES ImplementsStream SendWaitsForTheReaderOnly ReaderLearnsTheEnd
CHECK_DEADLOCK FALSE
