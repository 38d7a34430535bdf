SPECIFICATION Spec
CONSTANTS
  INITIAL_K = 6
  K_PARTITIONS = 3
  MAX_TRIALS = 1
  Performances <- MCPerformances
  MaxKills = 1
  MaxFailures = 0
  Template = Template
  Empty = Empty
  NoFile = NoFile
  NoResult = NoResult
CHECK_DEADLOCK FALSE
INVARIANT
  OriginalShapeAtEnd
