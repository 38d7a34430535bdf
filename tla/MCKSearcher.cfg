SPECIFICATION FairSpec
CONSTANTS
  INITIAL_K = 6
  K_PARTITIONS = 3
  MAX_TRIALS = 2
  Performances <- MCPerformances
  MaxKills = 1
  MaxFailures = 1
  Template = Template
  Empty = Empty
  NoFile = NoFile
  NoResult = NoResult
CHECK_DEADLOCK FALSE
INVARIANTS
  RestoredUnlessKilled
  RecoverableAfterOneKill
  BestIsHighest
  MeasuredWithItsK
PROPERTIES
  RangeShrinks
  Terminates
