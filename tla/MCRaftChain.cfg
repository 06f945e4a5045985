SPECIFICATION Spec
CONSTANTS
  MaxMessageCount = 2
  PreferredMaxBytes = 2
  UintSize = 8
  Node = {n1, n2, n3}
  MaxInflight = 2
  Size = {1, 3}
  MaxTerm = 2
  MaxBlock = 2
  MaxFaults = 1
SYMMETRY Symmetry
\* All nodes may have panicked on a block that was proposed late.
CHECK_DEADLOCK FALSE
INVARIANTS
  LedgersAgree
  CommittedBlocksWritten
  ConfigBarrier
  TimerIffPending
