SPECIFICATION Spec
CONSTANTS
  Key <- Keys
  Value = {v, w}
  Missing = Missing
  NoPath = NoPath
  MaxWrites = 24
  MaxDepth = 10
  Datum <- Everything
  AnyDelete = FALSE
  MaxCalls = 4
  MaxFailures = 1
SYMMETRY ValueSymmetry
CHECK_DEADLOCK FALSE
INVARIANTS
  TypeOK
  HashesResolve
  FullNodesBranch
PROPERTY ImplementsMap
