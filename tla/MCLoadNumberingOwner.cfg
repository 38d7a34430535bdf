SPECIFICATION Spec
CONSTANTS
  NumFunctions = 3
  MaxLoads = 2
  Radix = 2
  EarlierIds = {0, 2}
INVARIANTS
  AttributedToOwner
