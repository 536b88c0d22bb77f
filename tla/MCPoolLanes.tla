---------------------------- MODULE MCPoolLanes ----------------------------
(* Two accounts, nonces up to 4: room for a queue with a gap inside it.    *)
EXTENDS PoolLanes, TLC

Symmetry == Permutations(Addr)

=============================================================================
