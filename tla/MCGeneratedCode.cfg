SPECIFICATION MCSpec
CONSTANTS
  Addresses <- MCAddresses
  TOPCOUNT = 2
  MaxStrides = 12
  MaxZeroStrides = 12
  ExecCount = 20
  ChunkSize = 1
  Width = 3
  MaxExecutions = 12
  LoadAddresses <- MCLoadAddresses
  DominantStrides <- MCStrides
  Distances <- MCDistances
  Classes = {"SSST", "PMST", "WSST"}
  IntWidth = 9
  AddressWidth = 9
CHECK_DEADLOCK FALSE
INVARIANTS
  StridesAreConsecutive
  SamplesAccounted
  TargetsAhead
