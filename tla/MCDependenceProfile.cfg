SPECIFICATION Spec
CONSTANTS
  LoopIds <- MCLoopIds
  Values <- MCValues
  MaxLoopDepth = 3
  MaxDepDist = 2
  DepthModulus = 8
  IdModulus = 2
  MaxTime = 2
  MaxLoopEvents = 5
  Loads = {l1}
  Stores = {s1, s2}
  MaxTrackedDistance = 2
  MAX_VALUES = 2
  MaxRecorded = 3
SYMMETRY StoreSymmetry
CHECK_DEADLOCK FALSE
INVARIANTS
  InnermostLoopFound
  DistanceExact
  ValuesExact
  NoUnexpectedTimeStamp
