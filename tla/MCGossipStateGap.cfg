SPECIFICATION FairSpec
CONSTANTS
  p1 = p1
  p2 = p2
  Peer = {p1, p2}
  First <- OneFromSnapshot
  MaxBlock = 5
  Heights <- SameHeights
  StateBlockBufferSize = 1
  StateBatchSize = 1
  StateMaxRetries = 1
  StateChannelSize = 1
  StateEnabled = TRUE
  BlockingMode = TRUE
  MaxFaults = 0
PROPERTY
  CatchesUp
CHECK_DEADLOCK FALSE
