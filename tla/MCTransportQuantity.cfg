CONSTANTS
  Sizes = {3}
  Wants = {4}
  Capacity = 3
  MaxBytes = 5
SPECIFICATION Spec
INVARIANT ReturnsQuantityReceived
CHECK_DEADLOCK FALSE
