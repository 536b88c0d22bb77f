------------------------------ MODULE MCLedger ------------------------------
(* Two users, balances up to 7, contract addresses that collide after two   *)
(* nonces, and transactions at the edges of what the VM accepts.            *)
EXTENDS Ledger, TLC

CONSTANTS
  MaxMinted,    \* bound on what is minted; above Word, so balances wrap
  MaxNonce,     \* bound on an account's nonce
  MaxLost       \* bound on what transactions that are cut off lose

vars == ledgerVars

Txs ==
  [nonce : 1..2, price : 0..1, limit : 0..1, value : {-1, 0, 2},
   to : User \cup {Zero, Nil}, data : BOOLEAN]
  \cup
  [nonce : {1}, price : {1}, limit : {1}, value : {1},
   to : User \X (0..NonceByte - 1), data : {FALSE}]

Next ==
  /\ LedgerNext(Txs)
  /\ minted' <= MaxMinted /\ lost' <= MaxLost
  /\ \A u \in User : GetAccount(accounts', u).nonce <= MaxNonce

Symmetry == Permutations(User)

Spec == LedgerInit /\ [][Next]_vars

=============================================================================
