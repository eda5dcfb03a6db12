CONSTANTS
  b1 = b1
  b2 = b2
  b3 = b3
  QueueSize = 4
  Buffers = {b1, b2, b3}
  NoBuffer = NoBuffer
  MaxChain = 2
  Forgeries = 1
SPECIFICATION Spec
SYMMETRY Symmetry
INVARIANTS
  FreeListIntact
  RecycleNeverFails
PROPERTY
  ImplementsChains
CHECK_DEADLOCK FALSE
