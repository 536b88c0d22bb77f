SPECIFICATION Spec
CONSTANTS
  Addr = {a1, a2}
  MaxNonce = 4
SYMMETRY Symmetry
CHECK_DEADLOCK FALSE
INVARIANTS
  TypeOK
  AccountBehind
  QueueGapped
  HeadIsNext
PROPERTY NoncesInOrder
