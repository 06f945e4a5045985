SPECIFICATION Spec
CONSTANTS
  k1 = k1
  k2 = k2
  Keys = {k1, k2}
  Chains <- MCChains
  MaxBlock = 3
  BTL = 1
  PurgeInterval = 1
  ReconcileBatchSize = 2
  MaxCrashes = 1
INVARIANTS
  MissingAccounted
  PurgedNotServed
  StateComplete
  ExpiredGone
  PurgedGone
  ElgEventsHandled
PROPERTY
  PvtNeverOlder
