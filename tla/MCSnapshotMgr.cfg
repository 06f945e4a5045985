SPECIFICATION FairSpec
CONSTANTS
  Client = {c1, c2}
  MaxBlock = 2
  MaxCrashes = 1
INVARIANTS
  CommitPausedForSnapshot
  SnapshotsConsistent
  DoneForTheRightRequest
  SmallestIsCurrent
PROPERTIES
  CommitNotBlockedForever
  RequestsProcessed
