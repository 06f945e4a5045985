SPECIFICATION Spec
CONSTANTS
  k1 = k1
  k2 = k2
  Keys = {k1, k2}
  Chains <- PurgeChains
  MaxBlock = 2
  BTL = 1
  PurgeInterval = 1
  ReconcileBatchSize = 1
  MaxCrashes = 1
INVARIANT
  PurgedGoneFromState
