SPECIFICATION Spec
CONSTANTS
  Addr = {a1}
  Payload = {p}
  NoTx = NoTx
  MaxNonce = 3
  MaxPrice = 2
  MaxBoxes = 6
  MaxIndex = 7
  Resubmits = {a1}
  Refuses = {}
CHECK_DEADLOCK FALSE
INVARIANT ReplacementTakesEffect
