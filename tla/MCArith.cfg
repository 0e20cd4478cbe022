CONSTANTS
  W = 8
  MemoryFails = FALSE
  Junk = {}
SPECIFICATION Spec
INVARIANTS DivisionIsTruncated ArithmeticWraps TopIsTheLast
