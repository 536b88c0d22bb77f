SPECIFICATION Spec
CONSTANTS
  Addr = {a1, a2}
  Payload = {p}
  NoTx = NoTx
  MaxNonce = 2
  MaxPrice = 2
  MaxBoxes = 3
  MaxIndex = 4
  Resubmits = {}
  Refuses = {}
CHECK_DEADLOCK FALSE
INVARIANTS
  NilMeansEmpty
