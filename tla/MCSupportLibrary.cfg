SPECIFICATION Spec
CONSTANTS
  MemorySize = 7
  MaxSize = 3
  Size = 2
  Files = 1
  Items = {1, 2}
  DefaultCapacity = 2
  MaxCapacity = 3
  NumVersions = 3
  NumPages = 2
  PageSize = 2
  Byte = {0, 1}
  AccessSizes = {1, 2}
  MaxOperations = 3
CHECK_DEADLOCK FALSE
INVARIANTS
  BlocksAccounted
  ProfilerTold
  MemoryDependencesSeen
  StreamDependencesSeen
  BuffersSound
  NeverBoth
  ReadsLastWrite
  CommittedInOrder
  FreedNotCommitted
PROPERTY
  IsBoundedQueue
