------------------------------- MODULE MCMpt -------------------------------
(* Six keys of two bytes: the first nibbles give a full node at the root,   *)
(* the second ones a full node in memory below it and one behind an         *)
(* extension.  Two values, and one failing write in a behaviour.            *)
EXTENDS Mpt

CONSTANTS
  MaxCalls,     \* bound on the calls of a behaviour
  MaxFailures   \* bound on those that fail

VARIABLES calls, failures

vars == <<mptVars, calls, failures>>

Keys == {<<0, 0>>, <<1, 3>>, <<16, 4>>, <<16, 21>>, <<16, 38>>, <<32, 7>>}

\* So no two leaves have the same content, and none is overwritten through
\* another's old hash.
ASSUME KeysPartAfterThree == KeysPart(3)

Init == MptInit /\ calls = 0 /\ failures = 0

Next ==
  /\ calls < MaxCalls
  /\ calls' = calls + 1
  /\ MptNext(IF failures < MaxFailures THEN -1..MaxWrites - 1 ELSE {-1})
  /\ failures' = failures + IF call'.ok THEN 0 ELSE 1

Spec == Init /\ [][Next]_vars

\* Nothing is out of bounds for want of an argument.
Everything == Any

ValueSymmetry == Permutations(Value)

=============================================================================
