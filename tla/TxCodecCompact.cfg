SPECIFICATION Spec
CONSTANTS
  Body = {b, c, n}
  Negative = {n}
  Receiver = {a}
  Chain <- Chains
  Key = {k1, k2}
  Nil = Nil
  Stranger = Stranger
  Error = Error
  Word = 128
  MaxPath = 5
CHECK_DEADLOCK FALSE
INVARIANT CompactRoundTrip
