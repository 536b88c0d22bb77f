SPECIFICATION Spec
CONSTANTS
  Leaf = {x, y}
  MaxLeaves = 11
CHECK_DEADLOCK FALSE
INVARIANTS
  ElementsAreMountains
  BitmapCountsLeaves
  ProofsVerify
  CircuitAgrees
