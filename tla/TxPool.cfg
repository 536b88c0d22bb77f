SPECIFICATION FairSpec
CONSTANTS
  Addr = {a1, a2}
  Payload = {p}
  NoTx = NoTx
  MaxNonce = 3
  MaxPrice = 2
  MaxBoxes = 3
  MaxIndex = 4
  Resubmits = {}
  Refuses = {a1}
CHECK_DEADLOCK FALSE
INVARIANTS
  TypeOK
  PendingContiguous
  BoxesByPrice
  IndexCoversPending
  NilMeansFrontEmpty
PROPERTIES
  ImplementsLanes
  PendingExecutes
