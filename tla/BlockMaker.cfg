SPECIFICATION FairSpec
CONSTANTS
  u1 = u1
  u2 = u2
  User <- Users
  Zero = Zero
  Nil = Nil
  Missing = Missing
  Word = 16
  NonceByte = 2
  MintAmount = 4
  MintLimit = 5
  Payload <- Payloads
  NoTx = NoTx
  MaxNonce = 2
  MaxPrice = 2
  MaxBoxes = 1
  MaxIndex = 2
  Rounds = 3
  MaxBlocks = 3
  MaxWaiting = 1
  MaxFailures = 1
CHECK_DEADLOCK FALSE
INVARIANTS
  TypeOK
  BlocksExplainState
  BlocksInNonceOrder
  ReceiptsFollowBlocks
PROPERTY MiningReturns
