CONSTANTS
  b1 = b1
  b2 = b2
  b3 = b3
  QueueSize = 2
  Buffers = {b1, b2, b3}
  NoBuffer = NoBuffer
  MaxChain = 2
  Forgeries = 0
SPECIFICATION Spec
INVARIANTS
  TypeOK
  EveryBufferAccounted
  Mirrored
PROPERTY
  EveryBufferReturns
