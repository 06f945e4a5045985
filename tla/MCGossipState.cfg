SPECIFICATION Spec
CONSTANTS
  p1 = p1
  p2 = p2
  Peer = {p1, p2}
  First <- AllBlocks
  MaxBlock = 6
  Heights <- MCHeights
  StateBlockBufferSize = 2
  StateBatchSize = 2
  StateMaxRetries = 1
  StateChannelSize = 1
  StateEnabled = TRUE
  BlockingMode = TRUE
  MaxFaults = 1
INVARIANTS
  CommitsInOrder
  NoLostWakeup
  FullBufferDrains
  BufferBounded
PROPERTY
  CatchesUp
CHECK_DEADLOCK FALSE
