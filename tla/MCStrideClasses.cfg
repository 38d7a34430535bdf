SPECIFICATION Spec
CONSTANTS
  Addresses <- MCAddresses
  TOPCOUNT = 2
  MaxStrides = 5
  MaxZeroStrides = 1
  NUM_TOP_FREQ = 2
  IntWidth = 8
INVARIANTS
  TypeOK
  HistogramExact
  TopIsTop
  DominantIsMode
  ZeroDifferencesExact
  ClassIsDeserved
  StrongAlongDominant
PROPERTIES
  ImplementsTopStrides
