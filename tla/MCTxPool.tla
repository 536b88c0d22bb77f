----------------------------- MODULE MCTxPool ------------------------------
(* The pool on small sets of accounts, nonces and prices.                  *)
EXTENDS TxPool

=============================================================================
