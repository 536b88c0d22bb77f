---------------------------- MODULE Ledger_proof ----------------------------
(***************************************************************************)
(* Proofs about the virtual machine, for any users, any width of balances  *)
(* and any set of transactions.                                            *)
(***************************************************************************)
EXTENDS Ledger, FoldLemmas, TLAPS

\* What a transaction is made of; its fields need not be sensible.
IsTx(t) ==
  /\ t.nonce \in Nat
  /\ t.price \in Int
  /\ t.limit \in Nat
  /\ t.value \in Int
  /\ t.to \in Address \cup {Nil}
  /\ t.data \in BOOLEAN

\* A remainder fits into a balance.
LEMMA WordRemainder == \A i \in Int : i % Word \in 0..Word - 1
BY LedgerAssumption

\* A remainder fits into the byte of a nonce.
LEMMA ByteRemainder == \A i \in Int : i % NonceByte \in 0..NonceByte - 1
BY LedgerAssumption

\* Writing the balance of an account, or the nonce as well, gives an account.
LEMMA AccountWrite ==
  ASSUME NEW r \in Account, NEW b \in 0..Word - 1, NEW n \in Nat
  PROVE  /\ [r EXCEPT !.balance = b] \in Account
         /\ [r EXCEPT !.balance = b, !.nonce = n] \in Account
BY DEF Account

\* Reading an account gives one, also where there is none.
LEMMA GetAccountType ==
  ASSUME NEW state \in [Address -> Account \cup {Missing}], NEW x \in Address
  PROVE  GetAccount(state, x) \in Account
BY LedgerAssumption DEF GetAccount, Account

\* The sender's payment leaves every account well formed.
LEMMA ChargedType ==
  ASSUME LedgerTypeOK, NEW from \in User, NEW t, IsTx(t)
  PROVE  Charged(from, t) \in [Address -> Account \cup {Missing}]
<1> DEFINE sender == GetAccount(accounts, from)
           left == (sender.balance - totalCost(t)) % Word
           count == sender.nonce + 1
<1>1. sender \in Account /\ from \in Address
  BY GetAccountType DEF LedgerTypeOK, Address
<1>2. sender.balance - totalCost(t) \in Int
  <2>1. t.price * t.limit \in Int
    BY DEF IsTx
  <2>2. QED
    BY <1>1, <2>1 DEF Account, totalCost, IsTx
<1>3. left \in 0..Word - 1
  BY <1>2, WordRemainder
<1>4. count \in Nat
  BY <1>1 DEF Account
<1>5. [sender EXCEPT !.balance = left, !.nonce = count] \in Account
  <2> HIDE DEF sender, left, count
  <2>1. QED
    BY <1>1, <1>3, <1>4, AccountWrite
<1>6. Charged(from, t) =
        [accounts EXCEPT ![from] = [sender EXCEPT !.balance = left, !.nonce = count]]
  <2>1. [sender EXCEPT !.balance = (@ - totalCost(t)) % Word, !.nonce = @ + 1]
          = [sender EXCEPT !.balance = left, !.nonce = count]
    BY <1>1 DEF Account
  <2>2. QED
    BY <2>1 DEF Charged
<1>7. QED
  BY <1>1, <1>5, <1>6 DEF LedgerTypeOK

\* Minting leaves an account well formed.
LEMMA MintedType ==
  ASSUME LedgerTypeOK, NEW x \in Address
  PROVE  Minted(x) \in Account
<1>1. GetAccount(accounts, x) \in Account
  BY GetAccountType DEF LedgerTypeOK
<1>2. GetAccount(accounts, x).balance + MintAmount \in Int
  BY <1>1, LedgerAssumption DEF Account
<1>3. (GetAccount(accounts, x).balance + MintAmount) % Word \in 0..Word - 1
  BY <1>2, WordRemainder
<1>4. QED
  BY <1>1, <1>3 DEF Minted, Account

\* A contract's address is an address.
LEMMA operationAddrType ==
  ASSUME NEW from \in User, NEW t, IsTx(t)
  PROVE  operationAddr(from, t) \in Address
<1>1. t.nonce \in Int
  BY DEF IsTx
<1>2. t.nonce % NonceByte \in 0..NonceByte - 1
  BY <1>1, ByteRemainder
<1>3. QED
  BY <1>2 DEF operationAddr, Address

\* An accepted transaction leaves every account well formed.
LEMMA ExecuteTransactionType ==
  ASSUME LedgerTypeOK, NEW from \in User, NEW t, IsTx(t),
         ExecuteTransaction(from, t)
  PROVE  /\ accounts' \in [Address -> Account \cup {Missing}]
         /\ burned' \in Nat /\ minted' \in Nat /\ lost' \in Nat
<1>1. Charged(from, t) \in [Address -> Account \cup {Missing}]
  BY ChargedType
<1>2. validateTransaction(t)
  BY DEF ExecuteTransaction, Refused
<1>3. ASSUME IsCreation(t), executeVMOperation(from, t)
      PROVE  accounts' \in [Address -> Account \cup {Missing}]
  <2>1. t.value % Word \in 0..Word - 1
    BY WordRemainder DEF IsTx
  <2>2. [nonce |-> 0, balance |-> t.value % Word, code |-> t.data] \in Account
    BY <2>1 DEF Account, IsTx
  <2>3. QED
    BY <1>1, <1>3, <2>2, operationAddrType DEF executeVMOperation
<1>4. ASSUME ~IsCreation(t), transfer(from, t)
      PROVE  accounts' \in [Address -> Account \cup {Missing}]
  <2> DEFINE receiver == GetAccount(Charged(from, t), t.to)
             sum == (receiver.balance + t.value) % Word
  <2>1. t.to \in Address
    BY <1>4 DEF IsCreation, IsTx
  <2>2. receiver \in Account
    BY <1>1, <2>1, GetAccountType
  <2>3. receiver.balance + t.value \in Int
    BY <2>2 DEF Account, IsTx
  <2>4. sum \in 0..Word - 1
    BY <2>3, WordRemainder
  <2>5. [receiver EXCEPT !.balance = sum] \in Account
    <3> HIDE DEF receiver, sum
    <3>1. QED
      BY <2>2, <2>4, AccountWrite
  <2>6. accounts' = [Charged(from, t) EXCEPT ![t.to] = [receiver EXCEPT !.balance = sum]]
    BY <1>4, <2>2 DEF transfer, Account
  <2>7. QED
    BY <1>1, <2>1, <2>5, <2>6
<1>5. accounts' \in [Address -> Account \cup {Missing}]
  BY <1>3, <1>4 DEF ExecuteTransaction
<1>6. t.price * t.limit \in Nat
  BY <1>2 DEF validateTransaction, IsTx
<1>7. burned' \in Nat /\ minted' \in Nat /\ lost' \in Nat
  BY <1>6 DEF ExecuteTransaction, LedgerTypeOK
<1>8. QED
  BY <1>5, <1>7

\* So does one that is cut off.
LEMMA TransactionCutType ==
  ASSUME LedgerTypeOK, NEW from \in User, NEW t, IsTx(t), TransactionCut(from, t)
  PROVE  /\ accounts' \in [Address -> Account \cup {Missing}]
         /\ burned' \in Nat /\ minted' \in Nat /\ lost' \in Nat
<1>1. accounts' \in [Address -> Account \cup {Missing}]
  BY ChargedType DEF TransactionCut
<1>2. t.price * t.limit \in Nat /\ t.value \in Nat
  <2>1. validateTransaction(t)
    BY DEF TransactionCut, Refused
  <2>2. QED
    BY <2>1 DEF validateTransaction, IsTx
<1>3. burned' \in Nat /\ minted' \in Nat /\ lost' \in Nat
  BY <1>2 DEF TransactionCut, LedgerTypeOK
<1>4. QED
  BY <1>1, <1>3

-----------------------------------------------------------------------------

\* Whatever transactions are sent, every account in the trie stays a nonce, a
\* balance that fits its width, and maybe code.
THEOREM LedgerTypeCorrect ==
  ASSUME NEW CONSTANT Txs, \A t \in Txs : IsTx(t)
  PROVE  LedgerInit /\ [][LedgerNext(Txs)]_ledgerVars => []LedgerTypeOK
<1>1. LedgerInit => LedgerTypeOK
  BY LedgerAssumption DEF LedgerInit, LedgerTypeOK
<1>2. LedgerTypeOK /\ [LedgerNext(Txs)]_ledgerVars => LedgerTypeOK'
  <2> SUFFICES ASSUME LedgerTypeOK, [LedgerNext(Txs)]_ledgerVars
               PROVE  LedgerTypeOK'
    OBVIOUS
  <2>1. CASE NewVM
    BY <2>1, LedgerAssumption DEF NewVM, LedgerTypeOK
  <2>2. ASSUME NEW x \in Address, Mint(x) PROVE LedgerTypeOK'
    <3>1. Minted(x) \in Account
      BY MintedType
    <3>2. mintCount' \in [Address -> 0..MintLimit]
      BY <2>2, LedgerAssumption DEF Mint, LedgerTypeOK
    <3>3. QED
      BY <2>2, <3>1, <3>2, LedgerAssumption DEF Mint, LedgerTypeOK
  <2>3. ASSUME NEW from \in User, NEW t \in Txs,
               ExecuteTransaction(from, t), UNCHANGED mintCount
        PROVE  LedgerTypeOK'
    BY <2>3, ExecuteTransactionType DEF LedgerTypeOK
  <2>4. ASSUME NEW x \in Address, MintCut(x) PROVE LedgerTypeOK'
    BY <2>4, MintedType, LedgerAssumption DEF MintCut, LedgerTypeOK
  <2>5. ASSUME NEW from \in User, NEW t \in Txs,
               TransactionCut(from, t), UNCHANGED mintCount
        PROVE  LedgerTypeOK'
    BY <2>5, TransactionCutType DEF LedgerTypeOK
  <2>6. CASE UNCHANGED ledgerVars
    BY <2>6 DEF ledgerVars, LedgerTypeOK
  <2>7. QED
    BY <2>1, <2>2, <2>3, <2>4, <2>5, <2>6 DEF LedgerNext
<1>3. QED
  BY <1>1, <1>2, PTL

-----------------------------------------------------------------------------

\* What an account keeps from one state of the trie to another.
Keeps(before, after, x) ==
  before[x] # Missing =>
    /\ after[x] # Missing
    /\ after[x].code = before[x].code
    /\ after[x].nonce >= before[x].nonce

\* Writing an account's balance keeps it.
LEMMA BalanceWriteKeeps ==
  ASSUME NEW state \in [Address -> Account \cup {Missing}],
         NEW x \in Address, NEW y \in Address, NEW b \in 0..Word - 1
  PROVE  Keeps(state, [state EXCEPT ![y] = [GetAccount(state, y) EXCEPT !.balance = b]], x)
<1> DEFINE r == GetAccount(state, y)
           r2 == [r EXCEPT !.balance = b]
<1>1. r \in Account /\ (state[y] # Missing => r = state[y])
  BY GetAccountType DEF GetAccount
<1>2. r2 \in Account /\ r2.code = r.code /\ r2.nonce = r.nonce
  BY <1>1 DEF Account
<1>3. r2 # Missing
  BY <1>2, LedgerAssumption DEF Account
<1>4. state[x] # Missing => state[x].nonce \in Int
  BY DEF Account
<1> HIDE DEF r, r2
<1>5. Keeps(state, [state EXCEPT ![y] = r2], x)
  BY <1>1, <1>2, <1>3, <1>4 DEF Keeps
<1>6. QED
  BY <1>5 DEF r, r2

\* So does the sender's payment.
LEMMA ChargedKeeps ==
  ASSUME LedgerTypeOK, NEW from \in User, NEW t, IsTx(t), NEW x \in Address
  PROVE  Keeps(accounts, Charged(from, t), x)
<1> DEFINE r == GetAccount(accounts, from)
           after == Charged(from, t)
<1>1. from \in Address /\ r \in Account /\ (accounts[from] # Missing => r = accounts[from])
  BY GetAccountType DEF GetAccount, Address, LedgerTypeOK
<1>2. after[from].code = r.code /\ after[from].nonce = r.nonce + 1
  BY <1>1 DEF Charged, LedgerTypeOK, Account
<1>3. after \in [Address -> Account \cup {Missing}]
  BY ChargedType
<1>4. after[from] # Missing
  <2>1. after[from] = [r EXCEPT !.balance = (@ - totalCost(t)) % Word, !.nonce = @ + 1]
    BY <1>1 DEF Charged, LedgerTypeOK
  <2> DEFINE b == (r.balance - totalCost(t)) % Word
             n == r.nonce + 1
  <2>2. after[from] = [r EXCEPT !.balance = b, !.nonce = n]
    BY <1>1, <2>1 DEF Account
  <2>3. t.price * t.limit \in Int
    BY DEF IsTx
  <2>4. r.balance - totalCost(t) \in Int
    BY <1>1, <2>3 DEF Account, totalCost, IsTx
  <2>5. b \in 0..Word - 1 /\ n \in Nat
    BY <1>1, <2>4, WordRemainder DEF Account
  <2> HIDE DEF b, n, r
  <2>6. [r EXCEPT !.balance = b, !.nonce = n] \in Account
    BY <1>1, <2>5, AccountWrite
  <2>7. QED
    BY <2>2, <2>6, LedgerAssumption DEF Account
<1>5. \A y \in Address : y # from => after[y] = accounts[y]
  BY <1>1 DEF Charged, LedgerTypeOK
<1>6. accounts[x] # Missing => accounts[x].nonce \in Int
  BY DEF LedgerTypeOK, Account
<1> HIDE DEF r, after
<1>7. Keeps(accounts, after, x)
  BY <1>1, <1>2, <1>4, <1>5, <1>6 DEF Keeps
<1>8. QED
  BY <1>7 DEF after

\* Keeping is transitive where accounts are well formed.
LEMMA KeepsTransitive ==
  ASSUME NEW s1 \in [Address -> Account \cup {Missing}],
         NEW s2 \in [Address -> Account \cup {Missing}],
         NEW s3 \in [Address -> Account \cup {Missing}],
         NEW x \in Address, Keeps(s1, s2, x), Keeps(s2, s3, x)
  PROVE  Keeps(s1, s3, x)
<1>1. \A s \in {s1, s2, s3} : s[x] # Missing => s[x].nonce \in Int
  BY DEF Account
<1>2. QED
  BY <1>1 DEF Keeps

\* No call of the VM, whether it succeeds or is cut off, makes an account, a
\* nonce or code in the state disappear.
THEOREM AccountsKept ==
  ASSUME NEW CONSTANT Txs, \A t \in Txs : IsTx(t)
  PROVE  LedgerInit /\ [][LedgerNext(Txs)]_ledgerVars => AccountsPersist
<1>1. ASSUME LedgerTypeOK, LedgerTypeOK', LedgerNext(Txs), NEW x \in Address
      PROVE  Keeps(accounts, accounts', x)
  <2>1. CASE NewVM
    <3>1. accounts' = accounts
      BY <2>1 DEF NewVM
    <3>2. accounts[x] # Missing => accounts[x].nonce \in Int
      BY <1>1 DEF LedgerTypeOK, Account
    <3>3. QED
      BY <3>1, <3>2 DEF Keeps
  <2>2. ASSUME NEW y \in Address, Mint(y) \/ MintCut(y)
        PROVE  Keeps(accounts, accounts', x)
    <3> DEFINE b == (GetAccount(accounts, y).balance + MintAmount) % Word
    <3>1. GetAccount(accounts, y) \in Account
      BY <1>1, GetAccountType DEF LedgerTypeOK
    <3>2. b \in 0..Word - 1
      <4>1. GetAccount(accounts, y).balance + MintAmount \in Int
        BY <3>1, LedgerAssumption DEF Account
      <4>2. QED
        BY <4>1, WordRemainder
    <3>3. accounts' = [accounts EXCEPT ![y] = [GetAccount(accounts, y) EXCEPT !.balance = b]]
      BY <2>2, <3>1 DEF Mint, MintCut, Minted, Account
    <3> HIDE DEF b
    <3>4. QED
      BY <1>1, <3>2, <3>3, BalanceWriteKeeps DEF LedgerTypeOK
  <2>3. ASSUME NEW from \in User, NEW t \in Txs,
               ExecuteTransaction(from, t) \/ TransactionCut(from, t)
        PROVE  Keeps(accounts, accounts', x)
    <3>1. IsTx(t)
      OBVIOUS
    <3>2. /\ Keeps(accounts, Charged(from, t), x)
          /\ Charged(from, t) \in [Address -> Account \cup {Missing}]
      BY <1>1, <3>1, ChargedKeeps, ChargedType
    <3>3. CASE TransactionCut(from, t)
      BY <3>2, <3>3 DEF TransactionCut
    <3>4. CASE ExecuteTransaction(from, t) /\ IsCreation(t) /\ executeVMOperation(from, t)
      <4> DEFINE y == operationAddr(from, t)
      <4>1. y \in Address /\ accounts[y] = Missing
        BY <3>1, <3>4, operationAddrType DEF ExecuteTransaction, Refused
      <4>2. x # y => accounts'[x] = Charged(from, t)[x]
        BY <3>2, <3>4, <4>1 DEF executeVMOperation
      <4> HIDE DEF y
      <4>3. QED
        BY <3>2, <4>1, <4>2 DEF Keeps
    <3>5. CASE ExecuteTransaction(from, t) /\ ~IsCreation(t) /\ transfer(from, t)
      <4> DEFINE paid == Charged(from, t)
                 b == (GetAccount(paid, t.to).balance + t.value) % Word
      <4>1. t.to \in Address
        BY <3>1, <3>5 DEF IsCreation, IsTx
      <4>2. GetAccount(paid, t.to) \in Account
        BY <3>2, <4>1, GetAccountType
      <4>3. b \in 0..Word - 1
        <5>1. GetAccount(paid, t.to).balance + t.value \in Int
          BY <3>1, <4>2 DEF Account, IsTx
        <5>2. QED
          BY <5>1, WordRemainder
      <4>4. accounts' = [paid EXCEPT ![t.to] = [GetAccount(paid, t.to) EXCEPT !.balance = b]]
        BY <3>5, <4>2 DEF transfer, Account
      <4> HIDE DEF paid, b
      <4>5. Keeps(paid, accounts', x)
        BY <3>2, <4>1, <4>3, <4>4, BalanceWriteKeeps DEF paid
      <4>6. QED
        BY <1>1, <3>2, <4>5, KeepsTransitive DEF paid, LedgerTypeOK
    <3>6. QED
      BY <2>3, <3>3, <3>4, <3>5 DEF ExecuteTransaction
  <2>4. QED
    BY <1>1, <2>1, <2>2, <2>3 DEF LedgerNext
<1>2. LedgerTypeOK /\ LedgerTypeOK' /\ [LedgerNext(Txs)]_ledgerVars
        => [\A x \in Address :
              accounts[x] # Missing =>
                /\ accounts'[x] # Missing
                /\ accounts'[x].code = accounts[x].code
                /\ accounts'[x].nonce >= accounts[x].nonce]_ledgerVars
  BY <1>1 DEF Keeps
<1>3. LedgerInit /\ [][LedgerNext(Txs)]_ledgerVars => []LedgerTypeOK
  BY LedgerTypeCorrect
<1>4. QED
  BY <1>2, <1>3, PTL DEF AccountsPersist

-----------------------------------------------------------------------------

\* What every account holds.
Balances(state) == [x \in Address |-> GetAccount(state, x).balance]

\* What all of them hold.
Holdings(state) == SumFunctionOnSet(Balances(state), Address)

\* There are finitely many addresses.
LEMMA AddressFinite == IsFiniteSet(Address)
<1>1. IsFiniteSet(0..NonceByte - 1)
  BY LedgerAssumption, FS_Interval
<1>2. IsFiniteSet(User \X (0..NonceByte - 1))
  BY <1>1, LedgerAssumption, FS_Product
<1>3. IsFiniteSet(User \cup {Zero})
  BY LedgerAssumption, FS_AddElement
<1>4. QED
  BY <1>2, <1>3, FS_Union DEF Address

\* The supply is what all accounts hold.
LEMMA SupplyIsHoldings == Supply = Holdings(accounts)
BY DEF Supply, SumFunction, Holdings, Balances

\* Balances are natural numbers that fit their width.
LEMMA BalancesType ==
  ASSUME NEW state \in [Address -> Account \cup {Missing}]
  PROVE  Balances(state) \in [Address -> 0..Word - 1]
<1>1. ASSUME NEW x \in Address PROVE GetAccount(state, x).balance \in 0..Word - 1
  BY GetAccountType DEF Account
<1>2. QED
  BY <1>1 DEF Balances

\* What all accounts hold is a natural number, and no account holds more.
LEMMA HoldingsBounds ==
  ASSUME NEW state \in [Address -> Account \cup {Missing}]
  PROVE  /\ Holdings(state) \in Nat
         /\ \A x \in Address : GetAccount(state, x).balance <= Holdings(state)
<1>1. \A x \in Address : Balances(state)[x] \in Nat
  BY BalancesType, LedgerAssumption
<1>2. \A x \in Address : Balances(state)[x] = GetAccount(state, x).balance
  BY DEF Balances
<1> DEFINE bal == Balances(state)
<1>3. /\ SumFunctionOnSet(bal, Address) \in Nat
      /\ \A x \in Address : bal[x] <= SumFunctionOnSet(bal, Address)
  <2> HIDE DEF bal
  <2>1. \A x \in Address : bal[x] \in Nat
    BY <1>1 DEF bal
  <2>2. QED
    BY <2>1, AddressFinite, SumBounds
<1>4. QED
  BY <1>2, <1>3 DEF Holdings

\* When one account is written, all of them hold more by what it holds more.
LEMMA HoldingsWrite ==
  ASSUME NEW state \in [Address -> Account \cup {Missing}],
         NEW y \in Address, NEW r \in Account
  PROVE  /\ [state EXCEPT ![y] = r] \in [Address -> Account \cup {Missing}]
         /\ Holdings([state EXCEPT ![y] = r])
              = Holdings(state) + (r.balance - GetAccount(state, y).balance)
<1> DEFINE after == [state EXCEPT ![y] = r]
           f == Balances(state)
           g == Balances(after)
<1>1. after \in [Address -> Account \cup {Missing}]
  OBVIOUS
<1>2. /\ \A x \in Address : f[x] \in Int
      /\ \A x \in Address : g[x] \in Int
  <2>1. f \in [Address -> 0..Word - 1] /\ g \in [Address -> 0..Word - 1]
    <3> HIDE DEF after
    <3>1. QED
      BY <1>1, BalancesType
  <2> HIDE DEF f, g
  <2>2. QED
    BY <2>1, LedgerAssumption
<1>3. \A x \in Address : x # y => f[x] = g[x]
  BY DEF Balances, GetAccount
<1>4. f[y] = GetAccount(state, y).balance /\ g[y] = r.balance
  <2>1. r # Missing
    BY LedgerAssumption DEF Account
  <2>2. QED
    BY <2>1 DEF Balances, GetAccount
<1> HIDE DEF f, g, after
<1>5. SumFunctionOnSet(g, Address) = SumFunctionOnSet(f, Address) + (g[y] - f[y])
  BY <1>2, <1>3, AddressFinite, SumUpdate
<1>6. QED
  BY <1>1, <1>4, <1>5 DEF Holdings, f, g, after

\* A multiple of the width stays one when the width is taken off.
LEMMA MultipleLess ==
  ASSUME NEW i \in Int, i % Word = 0
  PROVE  (i - Word) % Word = 0
<1> DEFINE q == i \div Word
<1>1. i = Word * q + (i % Word) /\ q \in Int
  BY LedgerAssumption
<1> HIDE DEF q
<1>2. i - Word = (q - 1) * Word
  BY <1>1, LedgerAssumption
<1>3. ((q - 1) * Word) % Word = 0
  BY <1>1, LedgerAssumption
<1>4. QED
  BY <1>2, <1>3

\* Adding a value to a balance either does not wrap or takes the width off.
LEMMA WrapOnce ==
  ASSUME NEW b \in 0..Word - 1, NEW v \in 0..Word - 1
  PROVE  /\ (b + v) % Word \in {b + v, b + v - Word}
         /\ b + v < Word => (b + v) % Word = b + v
BY LedgerAssumption

\* The state after v was given to an account.
Credited(state, y, v) ==
  [state EXCEPT ![y] = [GetAccount(state, y) EXCEPT !.balance = (@ + v) % Word]]

\* Giving v to an account raises what all hold by v, or takes the width off as
\* well; that only happens if v and what all hold do not fit into a balance.
LEMMA HoldingsCredit ==
  ASSUME NEW state \in [Address -> Account \cup {Missing}],
         NEW y \in Address, NEW v \in 0..Word - 1
  PROVE  LET after == Credited(state, y, v) IN
         /\ after \in [Address -> Account \cup {Missing}]
         /\ \A x \in Address : x # y => after[x] = state[x]
         /\ after[y] # Missing
         /\ after[y].nonce = GetAccount(state, y).nonce
         /\ Holdings(after) \in {Holdings(state) + v, Holdings(state) + v - Word}
         /\ Holdings(state) + v < Word =>
              /\ Holdings(after) = Holdings(state) + v
              /\ after[y].balance = GetAccount(state, y).balance + v
<1> DEFINE after == Credited(state, y, v)
           r == GetAccount(state, y)
           b == (r.balance + v) % Word
           r2 == [r EXCEPT !.balance = b]
<1>1. r \in Account /\ r.balance \in 0..Word - 1
  BY GetAccountType DEF Account
<1>2. b \in 0..Word - 1
  BY <1>1, WordRemainder, LedgerAssumption
<1>3. r2 \in Account /\ r2.balance = b /\ r2.nonce = r.nonce
  <2> HIDE DEF r, b
  <2>1. QED
    BY <1>1, <1>2 DEF Account
<1>4. after = [state EXCEPT ![y] = r2]
  BY <1>1 DEF Account, Credited
<1>5. /\ after \in [Address -> Account \cup {Missing}]
      /\ Holdings(after) = Holdings(state) + (b - r.balance)
  <2> HIDE DEF r2, b, after
  <2>1. QED
    BY <1>3, <1>4, HoldingsWrite DEF r
<1>6. after[y] = r2 /\ r2 # Missing /\ \A x \in Address : x # y => after[x] = state[x]
  <2>1. r2 # Missing
    BY <1>3, LedgerAssumption DEF Account
  <2> HIDE DEF r2
  <2>2. QED
    BY <1>4, <2>1
<1>7. r.balance <= Holdings(state) /\ Holdings(state) \in Nat
  BY HoldingsBounds
<1>8. /\ b \in {r.balance + v, r.balance + v - Word}
      /\ r.balance + v < Word => b = r.balance + v
  <2> HIDE DEF r
  <2>1. QED
    BY <1>1, WrapOnce
<1> HIDE DEF r, b, r2, after
<1>9. QED
  BY <1>1, <1>2, <1>3, <1>5, <1>6, <1>7, <1>8, LedgerAssumption DEF r, after

\* A transaction that is not refused costs something, and no more than its
\* sender holds.
LEMMA AcceptedCost ==
  ASSUME LedgerTypeOK, NEW from \in User, NEW t, IsTx(t), ~Refused(from, t)
  PROVE  /\ t.price * t.limit \in Nat \ {0}
         /\ t.value \in 0..Word - 1
         /\ totalCost(t) = t.price * t.limit + t.value
         /\ totalCost(t) \in 1..GetAccount(accounts, from).balance
<1>1. validateTransaction(t) /\ totalCost(t) <= GetAccount(accounts, from).balance
  <2>1. GetAccount(accounts, from).balance \in Int
    BY GetAccountType, SMTT(30) DEF LedgerTypeOK, Address, Account
  <2>2. t.price * t.limit + t.value \in Int
    BY DEF IsTx
  <2>3. QED
    BY <2>1, <2>2 DEF Refused, totalCost
<1>2. GetAccount(accounts, from).balance \in 0..Word - 1
  BY GetAccountType DEF LedgerTypeOK, Address, Account
<1>3. t.price * t.limit \in Nat \ {0} /\ t.value \in Nat
  <2>1. t.price \in Nat \ {0} /\ t.limit \in Nat \ {0} /\ t.value \in Nat
    BY <1>1 DEF validateTransaction, IsTx
  <2>2. QED
    BY <2>1
<1> DEFINE fee == t.price * t.limit
<1>4. totalCost(t) = fee + t.value
  BY DEF totalCost
<1> HIDE DEF fee
<1>5. totalCost(t) \in 1..GetAccount(accounts, from).balance /\ t.value \in 0..Word - 1
  BY <1>1, <1>2, <1>3, <1>4, LedgerAssumption DEF fee
<1>6. QED
  BY <1>3, <1>4, <1>5 DEF fee

\* The sender's payment never wraps: all accounts together hold the cost less,
\* and no other account is touched.
LEMMA HoldingsCharged ==
  ASSUME LedgerTypeOK, NEW from \in User, NEW t, IsTx(t), ~Refused(from, t)
  PROVE  /\ Charged(from, t) \in [Address -> Account \cup {Missing}]
         /\ Holdings(Charged(from, t)) = Holdings(accounts) - totalCost(t)
         /\ accounts[from] # Missing
         /\ Charged(from, t)[from] # Missing
         /\ Charged(from, t)[from].nonce = accounts[from].nonce + 1
         /\ \A x \in Address : x # from => Charged(from, t)[x] = accounts[x]
<1> DEFINE r == GetAccount(accounts, from)
           left == (r.balance - totalCost(t)) % Word
           r2 == [r EXCEPT !.balance = left, !.nonce = r.nonce + 1]
<1>1. from \in Address /\ accounts \in [Address -> Account \cup {Missing}]
  BY DEF Address, LedgerTypeOK
<1>2. r \in Account /\ r.balance \in 0..Word - 1 /\ r.nonce \in Nat
  BY <1>1, GetAccountType DEF Account
<1>3. totalCost(t) \in 1..r.balance
  BY AcceptedCost
<1>4. left = r.balance - totalCost(t) /\ left \in 0..Word - 1
  <2> HIDE DEF r
  <2>1. r.balance - totalCost(t) \in 0..Word - 1
    BY <1>2, <1>3, LedgerAssumption
  <2>2. QED
    BY <2>1, LedgerAssumption
<1>5. r2 \in Account /\ r2.balance = left /\ r2.nonce = r.nonce + 1
  <2>1. r.nonce + 1 \in Nat
    BY <1>2
  <2> DEFINE n == r.nonce + 1
  <2> HIDE DEF r, left, n
  <2>2. [r EXCEPT !.balance = left, !.nonce = n] \in Account
    BY <1>2, <1>4, <2>1, AccountWrite DEF n
  <2>3. /\ [r EXCEPT !.balance = left, !.nonce = n].balance = left
        /\ [r EXCEPT !.balance = left, !.nonce = n].nonce = n
    BY <1>2 DEF Account
  <2>4. QED
    BY <2>2, <2>3 DEF n
<1>6. Charged(from, t) = [accounts EXCEPT ![from] = r2]
  <2>1. [r EXCEPT !.balance = (@ - totalCost(t)) % Word, !.nonce = @ + 1] = r2
    BY <1>2 DEF Account
  <2>2. QED
    BY <2>1 DEF Charged
<1>7. accounts[from] # Missing /\ r = accounts[from]
  <2>1. r.balance # 0
    BY <1>2, <1>3
  <2>2. QED
    BY <2>1 DEF GetAccount
<1>8. r2 # Missing
  BY <1>5, LedgerAssumption DEF Account
<1> HIDE DEF r2
<1>9. /\ Charged(from, t) \in [Address -> Account \cup {Missing}]
      /\ Holdings(Charged(from, t)) = Holdings(accounts) + (r2.balance - r.balance)
  <2>1. /\ [accounts EXCEPT ![from] = r2] \in [Address -> Account \cup {Missing}]
        /\ Holdings([accounts EXCEPT ![from] = r2])
             = Holdings(accounts) + (r2.balance - GetAccount(accounts, from).balance)
    BY <1>1, <1>5, HoldingsWrite
  <2>2. QED
    BY <1>6, <2>1
<1>10. Holdings(Charged(from, t)) = Holdings(accounts) - totalCost(t)
  <2>1. Holdings(accounts) \in Int
    BY <1>1, HoldingsBounds
  <2> HIDE DEF r, left
  <2>2. QED
    BY <1>2, <1>3, <1>4, <1>5, <1>9, <2>1 DEF left
<1>11. QED
  BY <1>1, <1>5, <1>6, <1>7, <1>8, <1>9, <1>10

\* Who keeps the nonce keeps the money.
Spares(before, after, x) ==
  before[x] # Missing /\ after[x].nonce = before[x].nonce =>
    after[x].balance >= before[x].balance

\* An accepted transaction takes its fee from what all hold, and the width of a
\* balance if it makes one wrap; as long as a balance could hold everything it
\* does not, and nobody but the sender has less than before.
LEMMA ExecuteTransactionHoldings ==
  ASSUME LedgerTypeOK, NEW from \in User, NEW t, IsTx(t),
         ExecuteTransaction(from, t)
  PROVE  LET fee == t.price * t.limit
         IN  /\ Holdings(accounts') \in {Holdings(accounts) - fee,
                                         Holdings(accounts) - fee - Word}
             /\ Holdings(accounts) < Word =>
                  /\ Holdings(accounts') = Holdings(accounts) - fee
                  /\ \A x \in Address : Spares(accounts, accounts', x)
<1> DEFINE fee == t.price * t.limit
           paid == Charged(from, t)
           H == Holdings(accounts)
<1>1. /\ fee \in Nat /\ t.value \in 0..Word - 1
      /\ totalCost(t) = fee + t.value /\ totalCost(t) \in Nat
  <2>1. GetAccount(accounts, from).balance \in 0..Word - 1
    BY GetAccountType DEF LedgerTypeOK, Address, Account
  <2> HIDE DEF fee
  <2>2. /\ fee \in Nat \ {0} /\ t.value \in 0..Word - 1
        /\ totalCost(t) = fee + t.value
        /\ totalCost(t) \in 1..GetAccount(accounts, from).balance
    BY AcceptedCost DEF ExecuteTransaction, fee
  <2>3. QED
    BY <2>1, <2>2, LedgerAssumption
<1>2. /\ paid \in [Address -> Account \cup {Missing}]
      /\ Holdings(paid) = H - totalCost(t)
      /\ accounts[from] # Missing
      /\ paid[from] # Missing
      /\ paid[from].nonce = accounts[from].nonce + 1
      /\ \A x \in Address : x # from => paid[x] = accounts[x]
  BY HoldingsCharged DEF ExecuteTransaction
<1>3. H \in Nat /\ from \in Address
  BY HoldingsBounds DEF LedgerTypeOK, Address
<1>4. \A x \in Address : accounts[x] # Missing =>
        accounts[x].nonce \in Nat /\ accounts[x].balance \in Nat
  BY LedgerAssumption DEF LedgerTypeOK, Account
<1>5. CASE IsCreation(t) /\ executeVMOperation(from, t)
  <2> DEFINE y == operationAddr(from, t)
             r == [nonce |-> 0, balance |-> t.value % Word, code |-> t.data]
  <2>1. y \in Address /\ accounts[y] = Missing
    BY <1>5, operationAddrType DEF ExecuteTransaction, Refused
  <2>2. y # from /\ paid[y] = Missing
    BY <1>2, <2>1
  <2>3. r \in Account /\ r.balance = t.value
    <3>1. t.value % Word = t.value
      BY <1>1, LedgerAssumption
    <3>2. QED
      BY <1>1, <3>1 DEF Account, IsTx
  <2>4. accounts' = [paid EXCEPT ![y] = r]
    BY <1>5 DEF executeVMOperation
  <2> HIDE DEF r, paid, y
  <2>5. Holdings(accounts') = Holdings(paid) + (r.balance - GetAccount(paid, y).balance)
    <3>1. Holdings([paid EXCEPT ![y] = r])
            = Holdings(paid) + (r.balance - GetAccount(paid, y).balance)
      <4>1. paid \in [Address -> Account \cup {Missing}] /\ y \in Address /\ r \in Account
        BY <1>2, <2>1, <2>3
      <4>2. QED
        BY <4>1, HoldingsWrite
    <3>2. QED
      BY <2>4, <3>1
  <2>6. GetAccount(paid, y).balance = 0
    BY <2>2 DEF GetAccount
  <2> HIDE DEF fee, H
  <2>7. Holdings(accounts') = H - fee
    BY <1>1, <1>2, <1>3, <2>3, <2>5, <2>6
  <2>8. ASSUME NEW x \in Address PROVE Spares(accounts, accounts', x)
    <3>1. x # from /\ x # y => accounts'[x] = accounts[x]
      BY <1>2, <2>1, <2>4
    <3>2. x = from => accounts'[x].nonce = accounts[x].nonce + 1
      BY <1>2, <1>3, <2>1, <2>2, <2>4
    <3>3. QED
      BY <1>4, <2>1, <3>1, <3>2 DEF Spares
  <2>9. QED
    BY <2>7, <2>8 DEF fee, H
<1>6. CASE ~IsCreation(t) /\ transfer(from, t)
  <2> DEFINE y == t.to
             v == t.value
  <2>1. y \in Address /\ v \in 0..Word - 1
    BY <1>1, <1>6 DEF IsCreation, IsTx
  <2>2. accounts' = Credited(paid, y, v)
    BY <1>6 DEF transfer, Credited
  <2> HIDE DEF paid, y, v
  <2>3. /\ accounts' \in [Address -> Account \cup {Missing}]
        /\ \A x \in Address : x # y => accounts'[x] = paid[x]
        /\ accounts'[y].nonce = GetAccount(paid, y).nonce
        /\ Holdings(accounts') \in {Holdings(paid) + v, Holdings(paid) + v - Word}
        /\ Holdings(paid) + v < Word =>
             /\ Holdings(accounts') = Holdings(paid) + v
             /\ accounts'[y].balance = GetAccount(paid, y).balance + v
    BY <1>2, <2>1, <2>2, HoldingsCredit
  <2> HIDE DEF fee, H
  <2>4. Holdings(paid) + v = H - fee /\ v \in Nat
    <3>1. totalCost(t) = fee + v
      BY <1>1 DEF v
    <3>2. QED
      BY <1>1, <1>2, <1>3, <2>1, <3>1, LedgerAssumption
  <2>5. /\ Holdings(accounts') \in {H - fee, H - fee - Word}
        /\ H < Word => Holdings(accounts') = H - fee
    <3>1. H < Word => H - fee < Word
      BY <1>1, <1>3, LedgerAssumption
    <3>2. Holdings(accounts') \in {H - fee, (H - fee) - Word}
      <4>1. Holdings(paid) \in Int
        BY <1>2, HoldingsBounds
      <4>2. H - fee \in Int
        BY <1>1, <1>3
      <4> DEFINE rest == H - fee
                 before == Holdings(paid)
                 now == Holdings(accounts')
      <4>3. now \in {before + v, before + v - Word} /\ before + v = rest
        BY <2>3, <2>4
      <4>4. before \in Int /\ rest \in Int
        BY <4>1, <4>2
      <4> HIDE DEF rest, before, now
      <4>5. now \in {rest, rest - Word}
        BY <2>4, <4>3, <4>4, LedgerAssumption
      <4>6. QED
        BY <4>5 DEF rest, now
    <3>3. H < Word => Holdings(accounts') = H - fee
      BY <2>3, <2>4, <3>1
    <3>4. QED
      BY <3>2, <3>3
  <2>6. ASSUME H < Word, NEW x \in Address PROVE Spares(accounts, accounts', x)
    <3>1. CASE x # from /\ x # y
      <4>1. accounts'[x] = accounts[x]
        BY <1>2, <2>3, <3>1
      <4>2. QED
        BY <1>4, <4>1 DEF Spares
    <3>2. CASE x = from
      <4>1. GetAccount(paid, x) = paid[x]
        BY <1>2, <3>2 DEF GetAccount
      <4>2. accounts'[x].nonce = accounts[x].nonce + 1
        BY <1>2, <2>3, <3>2, <4>1
      <4>3. QED
        BY <1>4, <4>2 DEF Spares
    <3>3. CASE x = y /\ x # from
      <4>1. Holdings(paid) + v < Word
        BY <1>1, <1>3, <2>4, <2>6, LedgerAssumption
      <4>2. accounts'[x].balance = GetAccount(paid, x).balance + v
        BY <2>3, <3>3, <4>1
      <4>3. accounts[x] # Missing => GetAccount(paid, x) = accounts[x]
        BY <1>2, <3>3 DEF GetAccount
      <4>4. QED
        BY <1>4, <2>4, <4>2, <4>3 DEF Spares
    <3>4. QED
      BY <3>1, <3>2, <3>3
  <2>7. QED
    BY <2>5, <2>6 DEF fee, H
<1>7. QED
  BY <1>5, <1>6 DEF ExecuteTransaction

\* A transaction that is cut off takes its fee and its value, and wraps nothing.
LEMMA TransactionCutHoldings ==
  ASSUME LedgerTypeOK, NEW from \in User, NEW t, IsTx(t), TransactionCut(from, t)
  PROVE  /\ Holdings(accounts') = Holdings(accounts) - (t.price * t.limit) - t.value
         /\ t.price * t.limit \in Nat /\ t.value \in Nat
         /\ \A x \in Address : Spares(accounts, accounts', x)
<1> DEFINE fee == t.price * t.limit
<1>1. /\ fee \in Nat /\ t.value \in 0..Word - 1
      /\ totalCost(t) = fee + t.value
  BY AcceptedCost DEF TransactionCut
<1>2. /\ Holdings(accounts') = Holdings(accounts) - totalCost(t)
      /\ accounts[from] # Missing
      /\ accounts'[from].nonce = accounts[from].nonce + 1
      /\ \A x \in Address : x # from => accounts'[x] = accounts[x]
  BY HoldingsCharged DEF TransactionCut
<1>3. \A x \in Address : accounts[x] # Missing =>
        accounts[x].nonce \in Nat /\ accounts[x].balance \in Nat
  BY LedgerAssumption DEF LedgerTypeOK, Account
<1>4. Holdings(accounts) \in Int /\ t.value \in Nat /\ from \in Address
  <2>1. Holdings(accounts) \in Int
    BY HoldingsBounds DEF LedgerTypeOK
  <2>2. t.value \in Nat
    BY <1>1, LedgerAssumption
  <2>3. QED
    BY <2>1, <2>2 DEF Address
<1>5. ASSUME NEW x \in Address PROVE Spares(accounts, accounts', x)
  BY <1>2, <1>3, <1>4 DEF Spares
<1> HIDE DEF fee
<1>6. Holdings(accounts') = Holdings(accounts) - fee - t.value
  BY <1>1, <1>2, <1>4
<1>7. QED
  BY <1>1, <1>4, <1>5, <1>6 DEF fee

\* A mint gives MintAmount, and takes it from nobody.
LEMMA MintHoldings ==
  ASSUME LedgerTypeOK, NEW y \in Address,
         accounts' = [accounts EXCEPT ![y] = Minted(y)]
  PROVE  /\ Holdings(accounts') \in {Holdings(accounts) + MintAmount,
                                     Holdings(accounts) + MintAmount - Word}
         /\ Holdings(accounts) + MintAmount < Word =>
              /\ Holdings(accounts') = Holdings(accounts) + MintAmount
              /\ \A x \in Address : Spares(accounts, accounts', x)
<1>1. accounts \in [Address -> Account \cup {Missing}] /\ MintAmount \in 0..Word - 1
  BY LedgerAssumption DEF LedgerTypeOK
<1>2. accounts' = Credited(accounts, y, MintAmount)
  BY DEF Minted, Credited
<1>3. /\ \A x \in Address : x # y => accounts'[x] = accounts[x]
      /\ Holdings(accounts') \in {Holdings(accounts) + MintAmount,
                                  Holdings(accounts) + MintAmount - Word}
      /\ Holdings(accounts) + MintAmount < Word =>
           /\ Holdings(accounts') = Holdings(accounts) + MintAmount
           /\ accounts'[y].balance = GetAccount(accounts, y).balance + MintAmount
  <2> DEFINE after == Credited(accounts, y, MintAmount)
  <2>1. /\ \A x \in Address : x # y => after[x] = accounts[x]
        /\ Holdings(after) \in {Holdings(accounts) + MintAmount,
                                Holdings(accounts) + MintAmount - Word}
        /\ Holdings(accounts) + MintAmount < Word =>
             /\ Holdings(after) = Holdings(accounts) + MintAmount
             /\ after[y].balance = GetAccount(accounts, y).balance + MintAmount
    BY <1>1, HoldingsCredit
  <2>2. accounts' = after
    BY <1>2
  <2> HIDE DEF after
  <2>3. QED
    BY <2>1, <2>2
<1>4. ASSUME Holdings(accounts) + MintAmount < Word, NEW x \in Address
      PROVE  Spares(accounts, accounts', x)
  <2>1. accounts[x] # Missing => accounts[x].balance \in Nat
    BY LedgerAssumption DEF LedgerTypeOK, Account
  <2>2. CASE x # y
    BY <1>3, <2>1, <2>2 DEF Spares
  <2>3. CASE x = y
    <3>1. accounts[x] # Missing => GetAccount(accounts, y) = accounts[x]
      BY <2>3 DEF GetAccount
    <3>2. MintAmount \in Nat
      BY LedgerAssumption
    <3>3. QED
      BY <1>3, <1>4, <2>1, <2>3, <3>1, <3>2 DEF Spares
  <2>4. QED
    BY <2>2, <2>3
<1>5. QED
  BY <1>3, <1>4

-----------------------------------------------------------------------------

\* What is left of what was minted, after gas and losses.
Left == minted - burned - lost

\* In a state that conserves, what all hold fits into a balance as long as what
\* was minted does.
LEMMA ConservedFits ==
  ASSUME LedgerTypeOK, Conservation
  PROVE  /\ Holdings(accounts) \in Nat
         /\ Left \in Int
         /\ (Holdings(accounts) - Left) % Word = 0
         /\ minted < Word => Holdings(accounts) = Left /\ Left <= minted
<1>1. Holdings(accounts) \in Nat
  BY HoldingsBounds DEF LedgerTypeOK
<1>2. QED
  BY <1>1, SupplyIsHoldings DEF Conservation, LedgerTypeOK, Left

\* To conserve is to hold what is left.
LEMMA HoldingsConserve ==
  ASSUME (Holdings(accounts') - Left') % Word = 0,
         minted' < Word => Holdings(accounts') = Left'
  PROVE  Conservation'
<1>1. Supply' = Holdings(accounts')
  BY DEF Supply, SumFunction, Holdings, Balances
<1>2. QED
  BY <1>1 DEF Conservation, Left

\* A mint conserves; and while what was minted fits into a balance, nobody
\* loses money.
LEMMA MintConserves ==
  ASSUME LedgerTypeOK, LedgerTypeOK', Conservation, NEW y \in Address,
         accounts' = [accounts EXCEPT ![y] = Minted(y)],
         minted' = minted + MintAmount, burned' = burned, lost' = lost
  PROVE  /\ Conservation'
         /\ minted' < Word => \A x \in Address : Spares(accounts, accounts', x)
<1> DEFINE H == Holdings(accounts)
           H2 == Holdings(accounts')
<1>1. /\ H \in Nat /\ Left \in Int /\ (H - Left) % Word = 0
      /\ minted < Word => H = Left /\ Left <= minted
  BY ConservedFits
<1>2. H2 \in Nat /\ Left' \in Int /\ minted \in Nat /\ minted' \in Nat
  <2>1. /\ accounts' \in [Address -> Account \cup {Missing}]
        /\ minted \in Nat /\ minted' \in Nat /\ burned' \in Nat /\ lost' \in Nat
    BY DEF LedgerTypeOK
  <2>2. H2 \in Nat
    BY <2>1, HoldingsBounds
  <2>3. QED
    BY <2>1, <2>2 DEF Left
<1>3. SUFFICES /\ (H2 - Left') % Word = 0
               /\ minted' < Word => H2 = Left'
               /\ minted' < Word => \A x \in Address : Spares(accounts, accounts', x)
  BY HoldingsConserve
<1>4. /\ accounts' = [accounts EXCEPT ![y] = Minted(y)]
      /\ minted' = minted + MintAmount
      /\ burned' = burned /\ lost' = lost
  OBVIOUS
<1>5. Left' = Left + MintAmount
  BY <1>4, LedgerAssumption DEF Left, LedgerTypeOK
<1>6. /\ H2 \in {H + MintAmount, H + MintAmount - Word}
      /\ H + MintAmount < Word =>
           H2 = H + MintAmount /\ \A x \in Address : Spares(accounts, accounts', x)
  BY <1>4, MintHoldings
<1>7. MintAmount \in Nat
  BY LedgerAssumption
<1> HIDE DEF H, H2
<1>8. (H2 - Left') % Word = 0
  <2> DEFINE rest == H - Left
  <2>1. rest \in Int /\ rest % Word = 0
    BY <1>1
  <2>2. H2 - Left' \in {rest, rest - Word}
    BY <1>1, <1>2, <1>5, <1>6, <1>7, LedgerAssumption
  <2> HIDE DEF rest
  <2>3. QED
    BY <2>1, <2>2, MultipleLess
<1>9. ASSUME minted' < Word
      PROVE  H2 = Left' /\ \A x \in Address : Spares(accounts, accounts', x)
  <2>1. minted < Word
    BY <1>2, <1>4, <1>7, <1>9, LedgerAssumption
  <2>2. H + MintAmount < Word
    BY <1>1, <1>2, <1>4, <1>7, <1>9, <2>1, LedgerAssumption
  <2>3. QED
    BY <1>1, <1>5, <1>6, <2>1, <2>2
<1>10. QED
  BY <1>8, <1>9

\* An accepted transaction conserves; and while what was minted fits into a
\* balance, who keeps the nonce keeps the money.
LEMMA ExecuteConserves ==
  ASSUME LedgerTypeOK, LedgerTypeOK', Conservation,
         NEW from \in User, NEW t, IsTx(t), ExecuteTransaction(from, t)
  PROVE  /\ Conservation'
         /\ minted' < Word => \A x \in Address : Spares(accounts, accounts', x)
<1> DEFINE H == Holdings(accounts)
           H2 == Holdings(accounts')
<1>1. /\ H \in Nat /\ Left \in Int /\ (H - Left) % Word = 0
      /\ minted < Word => H = Left /\ Left <= minted
  BY ConservedFits
<1>2. H2 \in Nat /\ Left' \in Int /\ minted \in Nat /\ minted' \in Nat
  BY HoldingsBounds DEF LedgerTypeOK, Left
<1>3. SUFFICES /\ (H2 - Left') % Word = 0
               /\ minted' < Word => H2 = Left'
               /\ minted' < Word => \A x \in Address : Spares(accounts, accounts', x)
  BY HoldingsConserve
<1> DEFINE fee == t.price * t.limit
<1>4. /\ H2 \in {H - fee, H - fee - Word}
      /\ H < Word => H2 = H - fee /\ \A x \in Address : Spares(accounts, accounts', x)
  BY ExecuteTransactionHoldings
<1>5. fee \in Nat
  BY AcceptedCost DEF ExecuteTransaction
<1>6. minted' = minted /\ Left' = Left - fee
  <2>1. burned' = burned + fee /\ minted' = minted /\ lost' = lost
    BY DEF ExecuteTransaction
  <2> HIDE DEF fee
  <2>2. QED
    BY <1>5, <2>1 DEF Left, LedgerTypeOK
<1> HIDE DEF fee, H, H2
<1>7. (H2 - Left') % Word = 0
  <2> DEFINE rest == H - Left
  <2>1. rest \in Int /\ rest % Word = 0
    BY <1>1
  <2>2. H2 - Left' \in {rest, rest - Word}
    BY <1>1, <1>2, <1>4, <1>5, <1>6, LedgerAssumption
  <2> HIDE DEF rest
  <2>3. QED
    BY <2>1, <2>2, MultipleLess
<1>8. QED
  BY <1>1, <1>2, <1>4, <1>6, <1>7, LedgerAssumption

\* So does one that is cut off.
LEMMA CutConserves ==
  ASSUME LedgerTypeOK, LedgerTypeOK', Conservation,
         NEW from \in User, NEW t, IsTx(t), TransactionCut(from, t)
  PROVE  /\ Conservation'
         /\ minted' < Word => \A x \in Address : Spares(accounts, accounts', x)
<1> DEFINE H == Holdings(accounts)
           H2 == Holdings(accounts')
<1>1. /\ H \in Nat /\ Left \in Int /\ (H - Left) % Word = 0
      /\ minted < Word => H = Left /\ Left <= minted
  BY ConservedFits
<1>2. H2 \in Nat /\ Left' \in Int /\ minted \in Nat /\ minted' \in Nat
  BY HoldingsBounds DEF LedgerTypeOK, Left
<1>3. SUFFICES /\ (H2 - Left') % Word = 0
               /\ minted' < Word => H2 = Left'
               /\ minted' < Word => \A x \in Address : Spares(accounts, accounts', x)
  BY HoldingsConserve
<1> DEFINE fee == t.price * t.limit
<1>4. /\ H2 = H - fee - t.value
      /\ fee \in Nat /\ t.value \in Nat
      /\ \A x \in Address : Spares(accounts, accounts', x)
  BY TransactionCutHoldings
<1>5. minted' = minted /\ Left' = Left - fee - t.value
  <2>1. burned' = burned + fee /\ minted' = minted /\ lost' = lost + t.value
    BY DEF TransactionCut
  <2> HIDE DEF fee
  <2>2. QED
    BY <1>4, <2>1 DEF Left, LedgerTypeOK
<1> HIDE DEF fee, H, H2
<1>6. H2 - Left' = H - Left
  BY <1>1, <1>2, <1>4, <1>5
<1>7. QED
  BY <1>1, <1>2, <1>4, <1>5, <1>6, LedgerAssumption

\* Every step of the VM conserves; and while what was minted fits into a
\* balance, who keeps the nonce keeps the money.
LEMMA LedgerStep ==
  ASSUME NEW CONSTANT Txs, \A t \in Txs : IsTx(t),
         LedgerTypeOK, LedgerTypeOK', Conservation, LedgerNext(Txs)
  PROVE  /\ Conservation'
         /\ minted' < Word => \A x \in Address : Spares(accounts, accounts', x)
<1> DEFINE Goal == /\ Conservation'
                   /\ minted' < Word => \A x \in Address : Spares(accounts, accounts', x)
<1>1. CASE NewVM
  <2>1. accounts' = accounts /\ minted' = minted /\ burned' = burned /\ lost' = lost
    BY <1>1 DEF NewVM
  <2>2. \A x \in Address : Spares(accounts, accounts', x)
    BY <2>1, LedgerAssumption DEF Spares, LedgerTypeOK, Account
  <2>3. Conservation'
    BY <2>1 DEF Conservation, Supply, GetAccount
  <2>4. QED
    BY <2>2, <2>3
<1>2. ASSUME NEW y \in Address, Mint(y) \/ MintCut(y) PROVE Goal
  <2>1. /\ accounts' = [accounts EXCEPT ![y] = Minted(y)]
        /\ minted' = minted + MintAmount
        /\ burned' = burned /\ lost' = lost
    BY <1>2 DEF Mint, MintCut
  <2>2. QED
    BY <2>1, MintConserves
<1>3. ASSUME NEW from \in User, NEW t \in Txs, ExecuteTransaction(from, t) PROVE Goal
  BY <1>3, ExecuteConserves
<1>4. ASSUME NEW from \in User, NEW t \in Txs, TransactionCut(from, t) PROVE Goal
  BY <1>4, CutConserves
<1>5. QED
  BY <1>1, <1>2, <1>3, <1>4 DEF LedgerNext

\* An empty ledger holds what was minted: nothing.
LEMMA ConservedAtFirst == LedgerInit => Conservation
<1> SUFFICES ASSUME LedgerInit PROVE Conservation
  OBVIOUS
<1> DEFINE f == Balances(accounts)
<1>1. \A x \in Address : f[x] = 0
  BY LedgerAssumption DEF LedgerInit, Balances, GetAccount
<1>2. SumFunctionOnSet(f, Address) = 0
  <2> HIDE DEF f
  <2>1. QED
    BY <1>1, AddressFinite, SumOfZeros
<1>3. Supply = 0
  BY <1>2, SupplyIsHoldings DEF Holdings
<1>4. QED
  BY <1>3, LedgerAssumption DEF Conservation, LedgerInit

\* Whatever transactions are sent, mined, refused or cut off: what all accounts
\* hold is what was minted less gas and losses, up to the width of a balance,
\* and exactly as long as what was minted fits into one.
THEOREM MoneyConserved ==
  ASSUME NEW CONSTANT Txs, \A t \in Txs : IsTx(t)
  PROVE  LedgerInit /\ [][LedgerNext(Txs)]_ledgerVars => []Conservation
<1>1. LedgerInit => Conservation
  BY ConservedAtFirst
<1>2. LedgerTypeOK /\ LedgerTypeOK' /\ Conservation /\ [LedgerNext(Txs)]_ledgerVars
        => Conservation'
  <2> SUFFICES ASSUME LedgerTypeOK, LedgerTypeOK', Conservation, [LedgerNext(Txs)]_ledgerVars
               PROVE  Conservation'
    OBVIOUS
  <2>1. CASE LedgerNext(Txs)
    BY <2>1, LedgerStep
  <2>2. CASE UNCHANGED ledgerVars
    BY <2>2 DEF ledgerVars, Conservation, Supply, GetAccount
  <2>3. QED
    BY <2>1, <2>2
<1>3. LedgerInit /\ [][LedgerNext(Txs)]_ledgerVars => []LedgerTypeOK
  BY LedgerTypeCorrect
<1>4. QED
  BY <1>1, <1>2, <1>3, PTL

\* No transaction of anybody and no mint takes money from an account whose
\* nonce it does not raise, as long as what was minted fits into a balance.
THEOREM NobodyRobbed ==
  ASSUME NEW CONSTANT Txs, \A t \in Txs : IsTx(t)
  PROVE  LedgerInit /\ [][LedgerNext(Txs)]_ledgerVars => OnlySendersPay
<1>1. LedgerTypeOK /\ LedgerTypeOK' /\ Conservation /\ [LedgerNext(Txs)]_ledgerVars
        => [\A x \in Address :
              /\ accounts[x] # Missing
              /\ accounts'[x].nonce = accounts[x].nonce
              /\ minted' < Word
              => accounts'[x].balance >= accounts[x].balance]_ledgerVars
  BY LedgerStep DEF Spares
<1>2. LedgerInit /\ [][LedgerNext(Txs)]_ledgerVars => []LedgerTypeOK
  BY LedgerTypeCorrect
<1>3. LedgerInit /\ [][LedgerNext(Txs)]_ledgerVars => []Conservation
  BY MoneyConserved
<1>4. QED
  BY <1>1, <1>2, <1>3, PTL DEF OnlySendersPay

=============================================================================
