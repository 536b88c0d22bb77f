SPECIFICATION Spec
CONSTANTS
  Key <- Keys
  Value = {v, w}
  Missing = Missing
  NoPath = NoPath
  MaxWrites = 32
  MaxDepth = 10
  Datum <- Everything
  AnyDelete = TRUE
  MaxCalls = 4
  MaxFailures = 0
SYMMETRY ValueSymmetry
CHECK_DEADLOCK FALSE
INVARIANT DeletedIsGone
