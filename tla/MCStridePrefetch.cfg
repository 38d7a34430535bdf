SPECIFICATION Spec
CONSTANTS
  LoopShapes <- MCLoopShapes
  LoadShapes <- MCLoadShapes
  MaxDepth = 2
  MaxLoads = 2
  NumFunctions = 2
  Places = {p1, p2}
  UIntRange = 1048576
SYMMETRY PlaceSymmetry
INVARIANTS
  PrefetchesExact
  
