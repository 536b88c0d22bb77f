------------------------------- MODULE KvMap -------------------------------
(***************************************************************************)
(* What a key-value store promises its callers: a map.  A call that fails  *)
(* because the disk failed has taken effect entirely or not at all, and on *)
(* its own key only.  The trie of module Mpt implements it, and the writes *)
(* of module Ledger rely on it.                                            *)
(***************************************************************************)
CONSTANTS
  Key,          \* the keys
  Value,        \* the values
  Missing       \* what Get answers for a key without a value

VARIABLES
  kv,           \* the map
  call          \* the last call: its kind, key, value and success

kvVars == <<kv, call>>

Call(op, k, v, ok) == [op |-> op, key |-> k, value |-> v, ok |-> ok]

NoCall == Call("none", Missing, Missing, TRUE)

KvInit == kv = [k \in Key |-> Missing] /\ call = NoCall

Effect(op, k, v, ok) ==
  /\ call' = Call(op, k, v, ok)
  /\ \/ kv' = [kv EXCEPT ![k] = v]
     \/ ~ok /\ UNCHANGED kv

KvPut(k, v, ok) == Effect("put", k, v, ok)

KvDelete(k, ok) == Effect("delete", k, Missing, ok)

\* The store is opened again: it remembers nothing.
KvReopen == kv' = [k \in Key |-> Missing] /\ call' = NoCall

KvNext ==
  \/ \E k \in Key, v \in Value, ok \in BOOLEAN : KvPut(k, v, ok)
  \/ \E k \in Key, ok \in BOOLEAN : KvDelete(k, ok)
  \/ KvReopen

KvSpec == KvInit /\ [][KvNext]_kvVars

=============================================================================
