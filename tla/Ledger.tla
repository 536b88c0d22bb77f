------------------------------- MODULE Ledger -------------------------------
(***************************************************************************)
(* The virtual machine, src/vm/vm_basic_tx.go: it moves balances between   *)
(* the accounts of the state trie and raises the sender's nonce.           *)
(*                                                                         *)
(* The trie is a map from addresses to accounts here; an address without   *)
(* an account is Missing and reads as an empty account.  Balances are      *)
(* uint64 (Word = 2^64), costs are computed with big integers.             *)
(*                                                                         *)
(* A write may fail, and like every call of the trie (module KvMap) it has *)
(* then taken effect or not.  Without an effect the step is as if it had   *)
(* not been; if all writes have taken effect it is the step of a call that *)
(* succeeds.  TransactionCut and MintCut are what else is left behind.     *)
(***************************************************************************)
EXTENDS Integers, FiniteSetsExt

CONSTANTS
  User,         \* the addresses that own a key
  Zero,         \* the zero address
  Nil,          \* the nil *Address of a contract creation
  Missing,      \* no account in the trie
  Word,         \* balances wrap at this value, 2^64 in the code
  NonceByte,    \* the nonce is cut to a byte in a contract's address, 256
  MintAmount,   \* 1000000 in the code
  MintLimit     \* mints of an address by one VM, 5 in the code

ASSUME LedgerAssumption ==
  /\ IsFiniteSet(User)
  /\ Word \in Nat \ {0} /\ NonceByte \in Nat \ {0}
  /\ MintAmount \in 0..Word - 1 /\ MintLimit \in Nat
  /\ Missing \notin [nonce : Nat, balance : 0..Word - 1, code : BOOLEAN]

VARIABLES
  accounts,     \* the accounts in the state trie
  mintCount,    \* vm.mintCount of the VM in use
  minted,       \* history: what was minted in all
  burned,       \* history: what was paid for gas in all; nobody receives it
  lost          \* history: what was paid in transactions that were cut off

ledgerVars == <<accounts, mintCount, minted, burned, lost>>

\* A contract lives at the hash of its creator and one byte of the nonce.
Address == User \cup {Zero} \cup (User \X (0..NonceByte - 1))

Account == [nonce : Nat, balance : 0..Word - 1, code : BOOLEAN]

LedgerInit ==
  /\ accounts = [x \in Address |-> Missing]
  /\ mintCount = [x \in Address |-> 0]
  /\ minted = 0
  /\ burned = 0
  /\ lost = 0

GetAccount(state, x) ==
  IF state[x] = Missing THEN [nonce |-> 0, balance |-> 0, code |-> FALSE]
  ELSE state[x]

-----------------------------------------------------------------------------
(* ExecuteTransaction.  A transaction is a record with at least the fields *)
(* nonce, price, limit, value, to and data; data says whether there is any. *)

validateTransaction(t) == t.price > 0 /\ t.limit # 0 /\ t.value >= 0

totalCost(t) == t.price * t.limit + t.value

IsCreation(t) == t.to = Nil \/ (t.to = Zero /\ t.data)

operationAddr(from, t) == <<from, t.nonce % NonceByte>>

\* Fault: a contract is created over the account that is there.
Refused_overwrite(from, t) ==
  \/ ~validateTransaction(t)
  \/ totalCost(t) > GetAccount(accounts, from).balance

\* Every refusal happens before the first write.  The nonce is not looked at.
Refused(from, t) ==
  \/ ~validateTransaction(t)
  \/ totalCost(t) > GetAccount(accounts, from).balance
  \/ IsCreation(t) /\ accounts[operationAddr(from, t)] # Missing

\* The state after the sender has paid.
Charged(from, t) ==
  LET sender == GetAccount(accounts, from)
  IN  [accounts EXCEPT ![from] =
         [sender EXCEPT !.balance = (@ - totalCost(t)) % Word,
                        !.nonce = @ + 1]]

executeVMOperation(from, t) ==
  accounts' = [Charged(from, t) EXCEPT ![operationAddr(from, t)] =
                 [nonce |-> 0, balance |-> t.value % Word, code |-> t.data]]

\* Fault: the receiver is read before the sender has paid.
transfer_stale(from, t) ==
  LET receiver == GetAccount(accounts, t.to)
  IN  accounts' = [Charged(from, t) EXCEPT ![t.to] =
                     [receiver EXCEPT !.balance = (@ + t.value) % Word]]

\* Fault: the receiver's balance is set to the value.
transfer_set(from, t) ==
  LET receiver == GetAccount(Charged(from, t), t.to)
  IN  accounts' = [Charged(from, t) EXCEPT ![t.to] =
                     [receiver EXCEPT !.balance = t.value % Word]]

\* The receiver is read after the sender was written: they may be the same.
transfer(from, t) ==
  LET receiver == GetAccount(Charged(from, t), t.to)
  IN  accounts' = [Charged(from, t) EXCEPT ![t.to] =
                     [receiver EXCEPT !.balance = (@ + t.value) % Word]]

\* ExecuteTransaction without an error; a refused one changes nothing.
ExecuteTransaction(from, t) ==
  /\ ~Refused(from, t)
  /\ \/ IsCreation(t) /\ executeVMOperation(from, t)
     \/ ~IsCreation(t) /\ transfer(from, t)
  /\ burned' = burned + t.price * t.limit
  /\ UNCHANGED <<minted, lost>>

\* A write fails after the sender has paid, the sender's own or the second one:
\* there is an error, and nothing is taken back.
TransactionCut(from, t) ==
  /\ ~Refused(from, t)
  /\ accounts' = Charged(from, t)
  /\ burned' = burned + t.price * t.limit
  /\ lost' = lost + t.value
  /\ UNCHANGED minted

-----------------------------------------------------------------------------

\* A VM counts the mints it makes; a new one starts to count again.
NewVM ==
  /\ mintCount' = [x \in Address |-> 0]
  /\ UNCHANGED <<accounts, minted, burned, lost>>

\* Fault: the sum is kept wider than a balance.
Minted_wide(x) == [GetAccount(accounts, x) EXCEPT !.balance = @ + MintAmount]

\* The account of x after minting to it.
Minted(x) == [GetAccount(accounts, x) EXCEPT !.balance = (@ + MintAmount) % Word]

Mint(x) ==
  /\ mintCount[x] < MintLimit
  /\ accounts' = [accounts EXCEPT ![x] = Minted(x)]
  /\ mintCount' = [mintCount EXCEPT ![x] = @ + 1]
  /\ minted' = minted + MintAmount
  /\ UNCHANGED <<burned, lost>>

\* The write fails after all: the account has the money and the mint is not
\* counted.
MintCut(x) ==
  /\ mintCount[x] < MintLimit
  /\ accounts' = [accounts EXCEPT ![x] = Minted(x)]
  /\ minted' = minted + MintAmount
  /\ UNCHANGED <<mintCount, burned, lost>>

\* What anybody may ask of the VM.  Txs is the set of possible transactions.
LedgerNext(Txs) ==
  \/ NewVM
  \/ \E x \in Address : Mint(x)
  \/ \E x \in Address : MintCut(x)
  \/ \E from \in User, t \in Txs : ExecuteTransaction(from, t) /\ UNCHANGED mintCount
  \/ \E from \in User, t \in Txs : TransactionCut(from, t) /\ UNCHANGED mintCount

-----------------------------------------------------------------------------

\* Type invariant.
LedgerTypeOK ==
  /\ accounts \in [Address -> Account \cup {Missing}]
  /\ mintCount \in [Address -> 0..MintLimit]
  /\ minted \in Nat
  /\ burned \in Nat
  /\ lost \in Nat

Supply == SumFunction([x \in Address |-> GetAccount(accounts, x).balance])

\* No step creates money, and none loses any but a transaction that is cut off,
\* and that its own value only: what all accounts hold is what was minted less
\* the gas and these values, up to the width of a balance, and exactly as long
\* as no more than a balance can hold was minted.  A transfer to oneself, to a
\* new account, to a contract and a creation with a value are all covered.
Conservation ==
  /\ (Supply - (minted - burned - lost)) % Word = 0
  /\ minted < Word => Supply = minted - burned - lost

\* What is in the state stays, whatever collides or is cut off: no account
\* disappears, no nonce goes back, and code never changes (a contract is never
\* created over an account, say).
AccountsPersist ==
  [][\A x \in Address :
       accounts[x] # Missing =>
         /\ accounts'[x] # Missing
         /\ accounts'[x].code = accounts[x].code
         /\ accounts'[x].nonce >= accounts[x].nonce]_ledgerVars

\* Only a user's own transaction, which raises the nonce, takes money from an
\* account, unless so much was minted that a balance overflows.
OnlySendersPay ==
  [][\A x \in Address :
       /\ accounts[x] # Missing
       /\ accounts'[x].nonce = accounts[x].nonce
       /\ minted' < Word
       => accounts'[x].balance >= accounts[x].balance]_ledgerVars

=============================================================================
