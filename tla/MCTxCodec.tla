----------------------------- MODULE MCTxCodec -----------------------------
(* Transactions with every kind of chain identifier: none, a negative one,  *)
(* 0, one that fits and one that makes V overflow; and beside them a short  *)
(* path.                                                                    *)
EXTENDS TxCodec, Nibbles

CONSTANT MaxPath  \* bound on the length of the path

VARIABLE path     \* the path somebody encodes

vars == <<codecVars, path>>

Chains == {-1, 0, 1, 33}

Init == CodecInit /\ path = <<>>

Grow ==
  /\ Len(path) < MaxPath
  /\ \E n \in {0, 3, 15} : path' = Append(path, n)
  /\ UNCHANGED codecVars

Next ==
  \/ CodecNext /\ UNCHANGED path
  \/ Grow

Spec == Init /\ [][Next]_vars

\* Keys become paths and paths keys again without a loss, so two keys never
\* share a path.
KeysRoundTrip == Len(path) % 2 = 0 => IsKeyPath(path)

\* The compact encoding, whose flag tells odd lengths from even ones, takes any
\* path that is not empty, and decoding gives the path back ("CompactDecode
\* decodes bytes back to nibbles", Nibble.go:77).
CompactRoundTrip == path # <<>> => CompactReturns(path)

=============================================================================
