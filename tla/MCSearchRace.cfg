SPECIFICATION Spec
CONSTANTS
  INITIAL_K = 6
  K_PARTITIONS = 3
  MAX_TRIALS = 2
  Performances = {0, 1}
CHECK_DEADLOCK FALSE
INVARIANTS
  AverageExact
  StaleOnlyWhileProfiling
  RaisedOnlyWhileProfiling
