\* LevelDB state DB, first blocks committed by a release without commit hashes.
SPECIFICATION FairSpec
CONSTANTS
  Outcome = {o1, o2}
  MaxHeight = 3
  BootHeight = 0
  LegacyHeight = 2
  StateInLevelDB = TRUE
INVARIANTS
  NeverRefused
  PvtDataBeforeBlock
  DBsReplayBlockStore
  ConfigHistoryCoversState
  CommitHashChained
PROPERTIES
  StepsTerminate
  ImplementsAPI
