SPECIFICATION Spec
CONSTANTS
  LoopShapes <- DistanceLoopShapes
  LoadShapes <- DistanceLoadShapes
  MaxDepth = 1
  MaxLoads = 2
  NumFunctions = 2
  Places = {p1, p2}
  UIntRange = 1048576
INVARIANTS
  DistanceFromBody
