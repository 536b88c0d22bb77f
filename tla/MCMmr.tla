------------------------------- MODULE MCMmr -------------------------------
(* Every sequence of two leaf values up to a few mountains of each height. *)
EXTENDS Mmr

=============================================================================
