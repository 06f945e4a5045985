SPECIFICATION FairSpec
CONSTANTS
  Client = {c1}
  MaxBlock = 2
  MaxCrashes = 1
PROPERTIES
  RequestStoredUntilGenerated
