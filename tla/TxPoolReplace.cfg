SPECIFICATION Spec
CONSTANTS
  Addr = {a1, a2}
  Payload = {p}
  NoTx = NoTx
  MaxNonce = 2
  MaxPrice = 2
  MaxBoxes = 6
  MaxIndex = 9
  Resubmits = {a1}
  Refuses = {a1}
CHECK_DEADLOCK FALSE
INVARIANTS
  BoxesInOrder
  IndexCoversPending
