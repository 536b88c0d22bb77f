SPECIFICATION Spec
CONSTANTS
  User = {u1, u2}
  Zero = Zero
  Nil = Nil
  Missing = Missing
  Word = 8
  NonceByte = 2
  MintAmount = 3
  MintLimit = 2
  MaxMinted = 9
  MaxNonce = 2
  MaxLost = 2
SYMMETRY Symmetry
CHECK_DEADLOCK FALSE
INVARIANTS
  LedgerTypeOK
  Conservation
PROPERTIES
  AccountsPersist
  OnlySendersPay
