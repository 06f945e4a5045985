CONSTANTS
  MaxBlock = 4
  FirstBlock = 0
  BlockSize <- MCBlockSize
  MaxFileSize = 2
  BatchLimit = 3
SPECIFICATION Spec
INVARIANTS
  OpenNeverFails
  BlocksReadable
  ItrInSequence
  EndorsesOnlyRebuilt
PROPERTY ImplementsBlockLog
