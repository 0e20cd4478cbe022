CONSTANTS
  W = 8
  MemoryFails = TRUE
  Junk = {}
  Values = {5, 7}
  NodeBlocks = {n1, n2, n3, n4}
  DataBlocks = {d1, d2, d3}
  NULL = NULL
SPECIFICATION Spec
INVARIANT HeapIsTheStack
PROPERTY ImplementsLifo
CHECK_DEADLOCK FALSE
