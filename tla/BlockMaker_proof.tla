-------------------------- MODULE BlockMaker_proof --------------------------
(***************************************************************************)
(* Proofs about a node: what the blocks hold is what the state shows, for  *)
(* any users, transactions, reward, width of balances and length of Pack.  *)
(***************************************************************************)
EXTENDS BlockMaker, Ledger_proof

\* What is proved about the pool, of the pool of the node.
PoolP == INSTANCE TxPool_proof WITH
  Addr      <- User,
  exists    <- {u \in User : accounts[u] # Missing},
  nonce     <- [u \in User |-> GetAccount(accounts, u).nonce],
  popped    <- [u \in User |-> 0],
  failed    <- {},
  Resubmits <- {},
  Refuses   <- User

-----------------------------------------------------------------------------
(* The pool of the node.  A definition that two instances of TxPool import *)
(* is one definition, once it is expanded.                                 *)

\* The transactions.
LEMMA SameTx == PoolP!Tx = Pool!Tx
BY DEF Pool!Tx, PoolP!Tx, Pool!Nonce, PoolP!Nonce, Pool!Price, PoolP!Price

\* Pop and what it returns.
LEMMA SamePop ==
  /\ PoolP!PopAddr = Pool!PopAddr
  /\ PoolP!CanPop = Pool!CanPop
  /\ PoolP!Popped = Pool!Popped
  /\ PoolP!Pop = Pool!Pop
BY DEF Pool!PopAddr, PoolP!PopAddr, Pool!CanPop, PoolP!CanPop,
       Pool!Popped, PoolP!Popped, Pool!Pop, PoolP!Pop,
       Pool!WriteBox, PoolP!WriteBox, Pool!Dequeue, PoolP!Dequeue

\* Where a transaction is placed.
LEMMA SamePlaced ==
  ASSUME NEW u, NEW t
  PROVE  /\ PoolP!Base(u) = Pool!Base(u)
         /\ PoolP!Reached(u, t) = Pool!Reached(u, t)
         /\ PoolP!Placed(u, t) = Pool!Placed(u, t)
BY DEF Pool!Base, PoolP!Base, Pool!Placed, PoolP!Placed, Pool!Reached, PoolP!Reached,
       Pool!Reaches, PoolP!Reaches, Pool!Place, PoolP!Place, Pool!Last, PoolP!Last,
       Pool!WriteBox, PoolP!WriteBox, Pool!Enqueue, PoolP!Enqueue,
       Pool!NewTxBox, PoolP!NewTxBox, Pool!FreshId, PoolP!FreshId,
       Pool!SortIn, PoolP!SortIn, Pool!InsertAt, PoolP!InsertAt,
       Pool!Cardinality, PoolP!Cardinality, Pool!ToSet, PoolP!ToSet

\* NewTX.
LEMMA SameNewTX ==
  ASSUME NEW u, NEW t, Pool!NewTX(u, t)
  PROVE  PoolP!NewTX(u, t)
<1>1. Pool!addQueueTx(u, t) => PoolP!addQueueTx(u, t)
  BY SamePlaced DEF Pool!addQueueTx, PoolP!addQueueTx
<1>2. Pool!addPendingTx(u, t) => PoolP!addPendingTx(u, t)
  <2> DEFINE q == Pool!Placed(u, t)
             m == Pool!Reached(u, t)
  <2>1. PoolP!Placed(u, t) = q /\ PoolP!Reached(u, t) = m /\ PoolP!Base(u) = Pool!Base(u)
    BY SamePlaced
  <2> HIDE DEF q, m
  <2>2. Pool!addPendingTx(u, t) <=>
          /\ t.nonce = Pool!Base(u) + 1
          /\ Len(q.boxes) <= MaxBoxes
          /\ Len(q.index) <= MaxIndex
          /\ pending' = [pending EXCEPT ![u] = q.boxes]
          /\ Sortedboxes' = q.index
          /\ queue' = [queue EXCEPT ![u] = {v \in @ : v.nonce > m}]
          /\ UNCHANGED crashed
    BY DEF Pool!addPendingTx, q, m
  <2>3. PoolP!addPendingTx(u, t) <=>
          /\ t.nonce = Pool!Base(u) + 1
          /\ Len(q.boxes) <= MaxBoxes
          /\ Len(q.index) <= MaxIndex
          /\ pending' = [pending EXCEPT ![u] = q.boxes]
          /\ Sortedboxes' = q.index
          /\ queue' = [queue EXCEPT ![u] = {v \in @ : v.nonce > m}]
          /\ UNCHANGED crashed
    BY <2>1 DEF PoolP!addPendingTx
  <2>4. QED
    BY <2>2, <2>3
<1>3. QED
  BY <1>1, <1>2 DEF Pool!NewTX, PoolP!NewTX, Pool!stateVars, PoolP!stateVars,
                    Pool!historyVars, PoolP!historyVars

\* NewTX keeps the boxes, and changes the head of a lane only if it is empty.
LEMMA NodeNewTX ==
  ASSUME PoolP!BoxesInv, NEW u \in User, NEW t \in Pool!Tx, Pool!NewTX(u, t)
  PROVE  /\ PoolP!BoxesInv'
         /\ \A v \in User : Len(pending'[v]) # 0 =>
              pending'[v][1].firstnonce =
                IF Len(pending[v]) = 0 THEN GetAccount(accounts, v).nonce + 1
                ELSE pending[v][1].firstnonce
<1>1. PoolP!NewTX(u, t) /\ t \in PoolP!Tx
  BY SameNewTX, SameTx
<1>2. PoolP!BoxesInv'
  BY <1>1, PoolP!NewTXInv, MakerAssumption
<1>3. ASSUME NEW v \in User, Len(pending'[v]) # 0
      PROVE  pending'[v][1].firstnonce =
               IF Len(pending[v]) = 0 THEN GetAccount(accounts, v).nonce + 1
               ELSE pending[v][1].firstnonce
  BY <1>1, <1>3, PoolP!NewTXHeads, MakerAssumption
<1>4. QED
  BY <1>2, <1>3

\* Pop keeps the boxes and takes the head of a lane.
LEMMA NodePop ==
  ASSUME PoolP!BoxesInv, Pool!Pop
  PROVE  LET from == Pool!PopAddr
         IN  /\ PoolP!BoxesInv'
             /\ from \in User /\ Pool!Popped \in Pool!Tx /\ Pool!Popped # NoTx
             /\ Len(pending[from]) # 0
             /\ Pool!Popped.nonce = pending[from][1].firstnonce
             /\ \A v \in User \ {from} : pending'[v] = pending[v]
             /\ Len(pending'[from]) # 0 =>
                  pending'[from][1].firstnonce = pending[from][1].firstnonce + 1
<1>1. PoolP!Pop
  BY SamePop
<1>2. PoolP!BoxesInv'
  BY <1>1, PoolP!PopInv, MakerAssumption
<1>3. /\ PoolP!PopAddr \in User /\ PoolP!Popped \in PoolP!Tx /\ PoolP!Popped # NoTx
      /\ Len(pending[PoolP!PopAddr]) # 0
      /\ PoolP!Popped.nonce = pending[PoolP!PopAddr][1].firstnonce
      /\ \A v \in User \ {PoolP!PopAddr} : pending'[v] = pending[v]
      /\ Len(pending'[PoolP!PopAddr]) # 0 =>
           pending'[PoolP!PopAddr][1].firstnonce
             = pending[PoolP!PopAddr][1].firstnonce + 1
  BY <1>1, PoolP!PopHeads, MakerAssumption
<1>4. QED
  BY <1>2, <1>3, SamePop, SameTx

-----------------------------------------------------------------------------
(* The accounts *)

\* A transaction of the pool is one the VM can read.
LEMMA VmTxIsTx ==
  ASSUME NEW t \in Pool!Tx
  PROVE  /\ IsTx(VmTx(t))
         /\ VmTx(t).price * VmTx(t).limit = t.price * t.pay.limit
         /\ t.price * t.pay.limit \in Int
<1>1. /\ t.nonce \in Nat /\ t.price \in Int
      /\ t.pay \in [limit : Nat, value : Int, to : Address \cup {Nil}, data : BOOLEAN]
  BY MakerAssumption DEF Pool!Tx, Pool!Nonce, Pool!Price
<1>2. t.price * t.pay.limit \in Int
  <2>1. t.price \in Int /\ t.pay.limit \in Int
    BY <1>1
  <2>2. QED
    BY <2>1
<1>3. QED
  BY <1>1, <1>2 DEF IsTx, VmTx

\* The nonces of all users but one stay; that one's is the next.
Counts(state, after, from) ==
  \A u \in User :
    GetAccount(after, u).nonce =
      GetAccount(state, u).nonce + (IF u = from THEN 1 ELSE 0)

\* Paying raises the sender's nonce alone.
LEMMA ChargedCounts ==
  ASSUME LedgerTypeOK, NEW from \in User, NEW t, IsTx(t), ~Refused(from, t)
  PROVE  Counts(accounts, Charged(from, t), from)
<1>1. /\ accounts[from] # Missing
      /\ Charged(from, t)[from] # Missing
      /\ Charged(from, t)[from].nonce = accounts[from].nonce + 1
      /\ \A x \in Address : x # from => Charged(from, t)[x] = accounts[x]
  BY HoldingsCharged
<1>2. ASSUME NEW u \in User
      PROVE  GetAccount(Charged(from, t), u).nonce =
               GetAccount(accounts, u).nonce + (IF u = from THEN 1 ELSE 0)
  <2>1. u \in Address /\ GetAccount(accounts, u).nonce \in Nat
    BY GetAccountType DEF Address, LedgerTypeOK, Account
  <2>2. CASE u = from
    BY <1>1, <2>2 DEF GetAccount
  <2>3. CASE u # from
    <3>1. GetAccount(Charged(from, t), u) = GetAccount(accounts, u)
      BY <1>1, <2>1, <2>3 DEF GetAccount
    <3>2. QED
      BY <2>1, <2>3, <3>1
  <2>4. QED
    BY <2>2, <2>3
<1>3. QED
  BY <1>2 DEF Counts

\* So does a transaction the VM accepts, whoever receives it.
LEMMA ExecuteCounts ==
  ASSUME LedgerTypeOK, NEW from \in User, NEW t, IsTx(t), ExecuteTransaction(from, t)
  PROVE  Counts(accounts, accounts', from)
<1> DEFINE paid == Charged(from, t)
<1>1. /\ Counts(accounts, paid, from)
      /\ paid \in [Address -> Account \cup {Missing}]
      /\ accounts[from] # Missing
      /\ \A x \in Address : x # from => paid[x] = accounts[x]
  BY ChargedCounts, HoldingsCharged DEF ExecuteTransaction
<1> HIDE DEF paid
<1>2. SUFFICES ASSUME NEW u \in User
               PROVE  GetAccount(accounts', u).nonce = GetAccount(paid, u).nonce
  BY <1>1 DEF Counts
<1>3. u \in Address /\ from \in Address
  BY DEF Address
<1>4. CASE IsCreation(t) /\ executeVMOperation(from, t)
  <2> DEFINE y == operationAddr(from, t)
             r == [nonce |-> 0, balance |-> t.value % Word, code |-> t.data]
  <2>1. y \in Address /\ accounts[y] = Missing
    BY <1>4, operationAddrType DEF ExecuteTransaction, Refused
  <2>2. paid[y] = Missing
    BY <1>1, <2>1
  <2>3. accounts' = [paid EXCEPT ![y] = r] /\ r.nonce = 0
    BY <1>4 DEF executeVMOperation, paid
  <2>4. r # Missing
    <3>1. r \in Account
      <4>1. t.value % Word \in 0..Word - 1 /\ t.data \in BOOLEAN
        BY WordRemainder DEF IsTx
      <4>2. QED
        BY <4>1 DEF Account
    <3>2. QED
      BY <3>1, LedgerAssumption DEF Account
  <2> HIDE DEF r, y
  <2>5. CASE u = y
    BY <1>1, <1>3, <2>2, <2>3, <2>4, <2>5 DEF GetAccount
  <2>6. CASE u # y
    BY <1>1, <1>3, <2>3, <2>6 DEF GetAccount
  <2>7. QED
    BY <2>5, <2>6
<1>5. CASE ~IsCreation(t) /\ transfer(from, t)
  <2> DEFINE y == t.to
             v == t.value
  <2>1. y \in Address
    BY <1>5 DEF IsCreation, IsTx
  <2>2. v \in 0..Word - 1
    BY AcceptedCost DEF ExecuteTransaction
  <2>3. accounts' = Credited(paid, y, v)
    BY <1>5 DEF transfer, Credited, paid
  <2> HIDE DEF y, v
  <2>4. /\ \A x \in Address : x # y => accounts'[x] = paid[x]
        /\ accounts'[y] # Missing
        /\ accounts'[y].nonce = GetAccount(paid, y).nonce
    BY <1>1, <2>1, <2>2, <2>3, HoldingsCredit
  <2>5. CASE u = y
    BY <2>4, <2>5 DEF GetAccount
  <2>6. CASE u # y
    BY <1>3, <2>4, <2>6 DEF GetAccount
  <2>7. QED
    BY <2>5, <2>6
<1>6. QED
  BY <1>4, <1>5 DEF ExecuteTransaction

\* A reward raises nobody's nonce.
LEMMA MintCounts ==
  ASSUME LedgerTypeOK, NEW m \in User, accounts' = [accounts EXCEPT ![m] = Minted(m)],
         NEW u \in User
  PROVE  GetAccount(accounts', u).nonce = GetAccount(accounts, u).nonce
<1>1. m \in Address /\ u \in Address
  BY DEF Address
<1>2. /\ Minted(m) \in Account
      /\ Minted(m).nonce = GetAccount(accounts, m).nonce
  <2>1. GetAccount(accounts, m) \in Account
    BY <1>1, GetAccountType DEF LedgerTypeOK
  <2>2. QED
    BY <1>1, <2>1, MintedType DEF Minted, Account
<1>3. Minted(m) # Missing
  BY <1>2, LedgerAssumption DEF Account
<1>4. accounts'[u] = IF u = m THEN Minted(m) ELSE accounts[u]
  BY <1>1 DEF LedgerTypeOK
<1>5. CASE u = m
  BY <1>2, <1>3, <1>4, <1>5 DEF GetAccount
<1>6. CASE u # m
  BY <1>4, <1>6 DEF GetAccount
<1>7. QED
  BY <1>5, <1>6

-----------------------------------------------------------------------------
(* Sequences of transactions *)

\* The places of a user's transactions when one is appended.
LEMMA PlacesAppend ==
  ASSUME NEW S, NEW s \in Seq(S), NEW e \in S, NEW u
  PROVE  /\ PlacesOf(u, s) \subseteq 1..Len(s)
         /\ PlacesOf(u, Append(s, e)) =
              IF e.from = u THEN PlacesOf(u, s) \cup {Len(s) + 1} ELSE PlacesOf(u, s)
<1> DEFINE w == Append(s, e)
           n == Len(s)
<1>1. /\ n \in Nat /\ DOMAIN s = 1..n /\ DOMAIN w = 1..n + 1
      /\ \A i \in 1..n : w[i] = s[i]
      /\ w[n + 1] = e
  BY AppendProperties, LenProperties
<1> HIDE DEF w, n
<1>2. PlacesOf(u, s) = {i \in 1..n : s[i].from = u}
  BY <1>1 DEF PlacesOf
<1>3. PlacesOf(u, w) = {i \in 1..n + 1 : w[i].from = u}
  BY <1>1 DEF PlacesOf
<1>4. ASSUME NEW i \in 1..n + 1
      PROVE  w[i].from = u <=> \/ i \in 1..n /\ s[i].from = u
                               \/ i = n + 1 /\ e.from = u
  <2>1. CASE i = n + 1
    BY <1>1, <2>1
  <2>2. CASE i # n + 1
    <3>1. i \in 1..n
      BY <1>1, <2>2
    <3>2. QED
      BY <1>1, <2>2, <3>1
  <2>3. QED
    BY <2>1, <2>2
<1>5. n + 1 \in 1..n + 1 /\ \A i \in 1..n : i \in 1..n + 1
  BY <1>1
<1>6. PlacesOf(u, w) = IF e.from = u THEN PlacesOf(u, s) \cup {n + 1} ELSE PlacesOf(u, s)
  BY <1>2, <1>3, <1>4, <1>5
<1>7. QED
  BY <1>2, <1>6 DEF w, n

\* One more in a finite set of places.
LEMMA OneMore ==
  ASSUME NEW n \in Nat, NEW P, P \subseteq 1..n
  PROVE  /\ IsFiniteSet(P) /\ Cardinality(P) \in Nat
         /\ Cardinality(P \cup {n + 1}) = Cardinality(P) + 1
<1>1. IsFiniteSet(1..n)
  BY FS_Interval
<1>2. IsFiniteSet(P)
  BY <1>1, FS_Subset
<1>3. n + 1 \notin P
  OBVIOUS
<1>4. QED
  BY <1>2, <1>3, FS_AddElement, FS_CardinalityType

\* What a transaction pays for gas.
GasOf(e) == IF e.tx = NoTx THEN 0 ELSE e.tx.price * e.tx.pay.limit

\* The gas when a transaction is appended.
LEMMA GasAppend ==
  ASSUME NEW S, \A e \in S : GasOf(e) \in Int, NEW s \in Seq(S), NEW e \in S
  PROVE  Gas(s) \in Int /\ Gas(Append(s, e)) = Gas(s) + GasOf(e)
<1> DEFINE w == Append(s, e)
           n == Len(s)
           f == [i \in 1..n |-> GasOf(s[i])]
           g == [i \in 1..n + 1 |-> GasOf(w[i])]
<1>1. /\ n \in Nat /\ DOMAIN s = 1..n /\ w \in Seq(S) /\ DOMAIN w = 1..n + 1
      /\ \A i \in 1..n : w[i] = s[i] /\ s[i] \in S
      /\ w[n + 1] = e
  BY AppendProperties, LenProperties, ElementOfSeq
<1>2. Gas(s) = SumFunctionOnSet(f, 1..n)
  BY <1>1 DEF Gas, SumFunction, GasOf
<1>3. Gas(w) = SumFunctionOnSet(g, 1..n + 1)
  BY <1>1 DEF Gas, SumFunction, GasOf
<1> HIDE DEF w, n
<1>4. \A i \in 1..n + 1 : g[i] \in Int
  <2>1. \A i \in 1..n + 1 : w[i] \in S
    BY <1>1
  <2>2. QED
    BY <2>1
<1>5. \A i \in 1..n : f[i] = g[i] /\ f[i] \in Int
  BY <1>1
<1>6. g[n + 1] = GasOf(e)
  BY <1>1
<1> HIDE DEF f, g
<1>7. /\ IsFiniteSet(1..n) /\ IsFiniteSet(1..n + 1)
      /\ n + 1 \in 1..n + 1 /\ (1..n + 1) \ {n + 1} = 1..n
  <2>1. n + 1 \in Nat
    BY <1>1
  <2>2. IsFiniteSet(1..n)
    BY <1>1, FS_Interval
  <2>3. IsFiniteSet(1..n + 1)
    <3> DEFINE m == n + 1
    <3>1. m \in Nat
      BY <2>1
    <3> HIDE DEF m
    <3>2. IsFiniteSet(1..m)
      BY <3>1, FS_Interval
    <3>3. QED
      BY <3>2 DEF m
  <2>4. n + 1 \in 1..n + 1 /\ (1..n + 1) \ {n + 1} = 1..n
    BY <1>1
  <2>5. QED
    BY <2>2, <2>3, <2>4
<1>8. SumFunctionOnSet(f, 1..n) \in Int
  BY <1>5, <1>7, SumTakeOut
<1>9. SumFunctionOnSet(g, 1..n + 1) = g[n + 1] + SumFunctionOnSet(g, 1..n)
  <2>1. SumFunctionOnSet(g, 1..n + 1)
          = g[n + 1] + SumFunctionOnSet(g, (1..n + 1) \ {n + 1})
    BY <1>4, <1>7, SumTakeOut
  <2>2. QED
    BY <1>7, <2>1
<1>10. SumFunctionOnSet(f, 1..n) = SumFunctionOnSet(g, 1..n)
  BY <1>5, <1>7, SumSame
<1>11. GasOf(e) \in Int
  OBVIOUS
<1>12. QED
  BY <1>2, <1>3, <1>6, <1>8, <1>9, <1>10, <1>11 DEF w

-----------------------------------------------------------------------------
(* What the variables hold *)

\* An entry of a block, and what is remembered of a failure.
Item == [from : User, tx : Pool!Tx]
Failure == [from : User, tx : Pool!Tx \cup {NoTx}]

\* The types of all variables, and the boxes of the pool.  A block is open
\* only while it is packed.
NodeTypes ==
  /\ TypeOK
  /\ PoolP!BoxesInv
  /\ blocks \in Seq(Seq(Item))
  /\ FlattenSeq(blocks) \in Seq(Item)
  /\ nextBody \in Seq(Item)
  /\ failed \in Seq(Failure)
  /\ pc = "idle" => nextBody = <<>>

\* The part of NodeTypes an action leaves alone with the variables it is about.
LEMMA BoxesKept ==
  ASSUME PoolP!BoxesInv, UNCHANGED poolVars
  PROVE  PoolP!BoxesInv'
BY DEF poolVars, PoolP!BoxesInv

\* A node starts with the types right.
LEMMA InitTypes == Init => NodeTypes
<1> SUFFICES ASSUME Init PROVE NodeTypes
  OBVIOUS
<1>1. LedgerTypeOK
  <2>1. LedgerInit
    BY DEF Init
  <2>2. 0 \in 0..MintLimit /\ 0 \in Nat
    BY LedgerAssumption
  <2>3. QED
    BY <2>1, <2>2 DEF LedgerInit, LedgerTypeOK
<1>2. PoolP!BoxesInv
  <2>1. /\ pending = [u \in User |-> <<>>] /\ queue = [u \in User |-> {}]
        /\ Sortedboxes = <<>> /\ crashed = FALSE
    BY DEF Init
  <2>2. QED
    BY <2>1, PoolP!EmptyBoxes, MakerAssumption
<1>3. TypeOK
  <2>1. 0 \in 0..Rounds /\ 0 \in 0..MaxWaiting /\ 0 \in Nat
    BY MakerAssumption
  <2>2. QED
    BY <1>1, <2>1 DEF Init, TypeOK
<1>4. FlattenSeq(blocks) \in Seq(Item)
  <2>1. blocks = <<>> /\ <<>> \in Seq(Item)
    BY EmptySeq DEF Init
  <2>2. QED
    BY <2>1, FlattenEmpty
<1>5. QED
  BY <1>2, <1>3, <1>4 DEF Init, NodeTypes

\* A new VM has minted nothing.
LEMMA NewCounts ==
  /\ [x \in Address |-> 0] \in [Address -> 0..MintLimit]
  /\ \A m : [x \in Address |-> IF x = m THEN 1 ELSE 0] \in [Address -> 0..MintLimit]
<1>1. 0 \in 0..MintLimit /\ 1 \in 0..MintLimit
  BY LedgerAssumption, MakerAssumption
<1>2. QED
  BY <1>1

\* A transaction of the pool goes into an entry.
LEMMA PoppedItem ==
  ASSUME PoolP!BoxesInv, Pool!Pop
  PROVE  /\ [from |-> Pool!PopAddr, tx |-> Pool!Popped] \in Item
         /\ [from |-> Pool!PopAddr, tx |-> Pool!Popped] \in Failure
         /\ Pool!PopAddr \in User /\ Pool!Popped \in Pool!Tx /\ Pool!Popped # NoTx
         /\ IsTx(VmTx(Pool!Popped))
<1>1. Pool!PopAddr \in User /\ Pool!Popped \in Pool!Tx /\ Pool!Popped # NoTx
  BY NodePop
<1>2. IsTx(VmTx(Pool!Popped))
  BY <1>1, VmTxIsTx
<1>3. QED
  BY <1>1, <1>2 DEF Item, Failure

\* Pack reads the pool when it is packing; the VM's types are right after it
\* if those of the state are.
LEMMA PacksTypes ==
  ASSUME NodeTypes, Packs, PoolP!BoxesInv',
         accounts' \in [Address -> Account \cup {Missing}],
         burned' \in Nat, lost' \in Nat,
         pc' \in {"packing", "sealing"}, round' \in 0..Rounds,
         refused' \subseteq User,
         UNCHANGED crashed
  PROVE  /\ TypeOK' /\ UNCHANGED blocks
         /\ FlattenSeq(blocks') \in Seq(Item) /\ blocks' \in Seq(Seq(Item))
<1>1. /\ mintCount' = [x \in Address |-> 0]
      /\ UNCHANGED <<minted, timer, waiting, CurrentHeader, blocks, nextHeader>>
  BY DEF Packs, chainVars
<1>2. /\ minted \in Nat /\ timer \in {"armed", "fired", "off"}
      /\ waiting \in 0..MaxWaiting /\ ~crashed
      /\ CurrentHeader.height \in Nat /\ nextHeader.height \in Nat
      /\ blocks \in Seq(Seq(Item)) /\ FlattenSeq(blocks) \in Seq(Item)
  BY DEF NodeTypes, TypeOK, LedgerTypeOK
<1>3. LedgerTypeOK'
  <2>1. minted' \in Nat /\ mintCount' \in [Address -> 0..MintLimit]
    BY <1>1, <1>2, NewCounts
  <2>2. QED
    BY <2>1 DEF LedgerTypeOK
<1>4. TypeOK'
  BY <1>1, <1>2, <1>3 DEF TypeOK
<1>5. QED
  BY <1>1, <1>2, <1>4

\* Every step keeps the types.
LEMMA StepTypes ==
  ASSUME NodeTypes, [Next]_vars
  PROVE  NodeTypes'
<1>1. /\ TypeOK /\ PoolP!BoxesInv /\ blocks \in Seq(Seq(Item))
      /\ FlattenSeq(blocks) \in Seq(Item)
      /\ nextBody \in Seq(Item) /\ failed \in Seq(Failure)
      /\ pc = "idle" => nextBody = <<>>
  BY DEF NodeTypes
<1>2. /\ LedgerTypeOK /\ ~crashed /\ pc \in {"idle", "packing", "sealing"}
      /\ round \in 0..Rounds /\ timer \in {"armed", "fired", "off"}
      /\ waiting \in 0..MaxWaiting
      /\ CurrentHeader.height \in Nat /\ nextHeader.height \in Nat
      /\ refused \subseteq User
  BY <1>1 DEF TypeOK
<1>3. /\ Rounds \in Nat \ {0} /\ MaxWaiting \in Nat
  BY MakerAssumption
<1>4. ASSUME NEW u \in User, NEW t \in Pool!Tx, UserRPC_transaction(u, t)
      PROVE  NodeTypes'
  <2>1. PoolP!BoxesInv'
    BY <1>1, <1>4, NodeNewTX DEF UserRPC_transaction
  <2>2. crashed' = FALSE
    BY <2>1 DEF PoolP!BoxesInv
  <2>3. UNCHANGED <<ledgerVars, packVars, waiting, chainVars, blockVars, refused, failed>>
    BY <1>4 DEF UserRPC_transaction
  <2>4. TypeOK'
    BY <1>2, <2>2, <2>3
    DEF TypeOK, LedgerTypeOK, ledgerVars, packVars, chainVars, blockVars
  <2>5. QED
    BY <1>1, <2>1, <2>3, <2>4 DEF NodeTypes, packVars, chainVars, blockVars
<1>5. ASSUME NEW m \in User, MinnerRPC(m)
      PROVE  NodeTypes'
  <2>1. /\ nextHeader' = NewHeader(CurrentHeader, m)
        /\ nextBody' = <<>> /\ pc' = "packing" /\ round' = 0 /\ timer' = "armed"
        /\ UNCHANGED <<burned, lost, poolVars, waiting, chainVars, receiptions, refused>>
    BY <1>5 DEF MinnerRPC
  <2>2. m \in Address
    BY DEF Address
  <2>3. LedgerTypeOK' /\ failed' \in Seq(Failure)
    <3>1. CASE /\ accounts' = [accounts EXCEPT ![m] = Minted(m)]
               /\ mintCount' = [x \in Address |-> IF x = m THEN 1 ELSE 0]
               /\ minted' = minted + MintAmount
               /\ UNCHANGED failed
      <4>1. accounts' \in [Address -> Account \cup {Missing}]
        BY <1>2, <2>2, <3>1, MintedType DEF LedgerTypeOK
      <4>2. mintCount' \in [Address -> 0..MintLimit]
        BY <3>1, NewCounts
      <4>3. minted' \in Nat
        BY <1>2, <3>1, LedgerAssumption DEF LedgerTypeOK
      <4>4. QED
        BY <1>1, <1>2, <2>1, <3>1, <4>1, <4>2, <4>3 DEF LedgerTypeOK
    <3>2. CASE /\ mintCount' = [x \in Address |-> 0]
               /\ failed' = Append(failed, [from |-> m, tx |-> NoTx])
               /\ UNCHANGED <<accounts, minted>>
      <4>1. [from |-> m, tx |-> NoTx] \in Failure
        BY DEF Failure
      <4>2. failed' \in Seq(Failure)
        BY <1>1, <3>2, <4>1, AppendProperties
      <4>3. mintCount' \in [Address -> 0..MintLimit]
        BY <3>2, NewCounts
      <4>4. QED
        BY <1>2, <2>1, <3>2, <4>2, <4>3 DEF LedgerTypeOK
    <3>3. QED
      BY <1>5, <3>1, <3>2 DEF MinnerRPC
  <2>4. nextHeader'.height \in Nat
    <3>1. CASE CurrentHeader.height = 0
      BY <2>1, <3>1 DEF NewHeader
    <3>2. CASE CurrentHeader.height # 0
      <4>1. nextHeader'.height = CurrentHeader.height + 1
        BY <2>1, <3>2 DEF NewHeader
      <4>2. QED
        BY <1>2, <4>1
    <3>3. QED
      BY <3>1, <3>2
  <2>5. TypeOK'
    BY <1>2, <1>3, <2>1, <2>3, <2>4 DEF TypeOK, poolVars, chainVars
  <2>6. PoolP!BoxesInv'
    BY <1>1, <2>1, BoxesKept
  <2>7. nextBody' \in Seq(Item)
    BY <2>1, EmptySeq
  <2>8. QED
    BY <1>1, <2>1, <2>3, <2>5, <2>6, <2>7 DEF NodeTypes, chainVars
<1>6. ASSUME \/ TimerFires \/ Interupt \/ Received \/ PackDone \/ UNCHANGED vars
      PROVE  NodeTypes'
  <2>1. /\ UNCHANGED <<ledgerVars, poolVars, chainVars, blockVars, refused, failed>>
        /\ pc' \in {"idle", "packing", "sealing"}
        /\ pc' = "idle" => pc = "idle"
    BY <1>2, <1>6
    DEF TimerFires, Interupt, Received, PackDone, vars, packVars
  <2>2. timer' \in {"armed", "fired", "off"}
    BY <1>2, <1>6 DEF TimerFires, Interupt, Received, PackDone, vars, packVars
  <2>3. round' \in 0..Rounds
    BY <1>2, <1>3, <1>6 DEF TimerFires, Interupt, Received, PackDone, vars, packVars
  <2>4. waiting' \in 0..MaxWaiting
    BY <1>2, <1>3, <1>6 DEF TimerFires, Interupt, Received, PackDone, vars, packVars
  <2>5. TypeOK'
    <3>1. UNCHANGED <<accounts, mintCount, minted, burned, lost, crashed, refused,
                      CurrentHeader, nextHeader>>
      BY <2>1 DEF ledgerVars, poolVars, chainVars, blockVars
    <3>2. LedgerTypeOK'
      BY <1>2, <3>1 DEF LedgerTypeOK
    <3>3. QED
      BY <1>2, <2>1, <2>2, <2>3, <2>4, <3>1, <3>2 DEF TypeOK
  <2>6. PoolP!BoxesInv'
    BY <1>1, <2>1, BoxesKept
  <2>7. QED
    BY <1>1, <2>1, <2>5, <2>6 DEF NodeTypes, chainVars, blockVars
<1>7. ASSUME PackNone
      PROVE  NodeTypes'
  <2>1. /\ Packs /\ pc' = "sealing"
        /\ UNCHANGED <<accounts, burned, lost, round, nextBody, receiptions, refused,
                       failed>>
    BY <1>7 DEF PackNone
  <2>2. UNCHANGED poolVars
    BY <1>1, <1>7, NodePop DEF PackNone
  <2>3. PoolP!BoxesInv'
    BY <1>1, <2>2, BoxesKept
  <2>4. /\ TypeOK' /\ blocks' \in Seq(Seq(Item)) /\ FlattenSeq(blocks') \in Seq(Item)
    BY <1>2, <2>1, <2>2, <2>3, PacksTypes DEF LedgerTypeOK, poolVars
  <2>5. QED
    BY <1>1, <2>1, <2>3, <2>4 DEF NodeTypes
<1>8. ASSUME PackRefused
      PROVE  NodeTypes'
  <2>1. /\ Packs /\ pc' = "sealing" /\ Pool!Pop
        /\ refused' = refused \cup {Pool!PopAddr}
        /\ UNCHANGED <<accounts, burned, lost, round, nextBody, receiptions, failed>>
    BY <1>8 DEF PackRefused
  <2>2. PoolP!BoxesInv' /\ UNCHANGED crashed
    BY <1>1, <2>1, NodePop DEF Pool!Pop
  <2>3. refused' \subseteq User
    BY <1>1, <1>2, <2>1, PoppedItem
  <2>4. /\ TypeOK' /\ blocks' \in Seq(Seq(Item)) /\ FlattenSeq(blocks') \in Seq(Item)
    BY <1>2, <2>1, <2>2, <2>3, PacksTypes DEF LedgerTypeOK
  <2>5. QED
    BY <1>1, <2>1, <2>2, <2>4 DEF NodeTypes
<1>9. ASSUME PackExecuted
      PROVE  NodeTypes'
  <2> DEFINE item == [from |-> Pool!PopAddr, tx |-> Pool!Popped]
  <2>1. /\ Packs /\ Pool!Pop /\ round' = round + 1
        /\ ExecuteTransaction(Pool!PopAddr, VmTx(Pool!Popped))
        /\ nextBody' = Append(nextBody, item)
        /\ UNCHANGED <<pc, refused, failed>>
    BY <1>9 DEF PackExecuted
  <2>2. PoolP!BoxesInv' /\ UNCHANGED crashed
    BY <1>1, <2>1, NodePop DEF Pool!Pop
  <2>3. Pool!PopAddr \in User /\ IsTx(VmTx(Pool!Popped)) /\ item \in Item
    BY <1>1, <2>1, PoppedItem
  <2>4. accounts' \in [Address -> Account \cup {Missing}] /\ burned' \in Nat /\ lost' \in Nat
    BY <1>2, <2>1, <2>3, ExecuteTransactionType
  <2>5. pc' \in {"packing", "sealing"} /\ pc' # "idle" /\ round' \in 0..Rounds
    <3>1. pc = "packing" /\ round < Rounds
      BY <2>1 DEF Packs
    <3>2. QED
      BY <1>2, <1>3, <2>1, <3>1
  <2>6. nextBody' \in Seq(Item)
    BY <1>1, <2>1, <2>3, AppendProperties
  <2>7. /\ TypeOK' /\ blocks' \in Seq(Seq(Item)) /\ FlattenSeq(blocks') \in Seq(Item)
    BY <1>2, <2>1, <2>2, <2>4, <2>5, PacksTypes
  <2>8. QED
    BY <1>1, <2>1, <2>2, <2>5, <2>6, <2>7 DEF NodeTypes
<1>10. ASSUME PackFailed
       PROVE  NodeTypes'
  <2> DEFINE item == [from |-> Pool!PopAddr, tx |-> Pool!Popped]
  <2>1. /\ Packs /\ Pool!Pop /\ pc' = "sealing"
        /\ refused' = refused \cup {Pool!PopAddr}
        /\ UNCHANGED <<round, nextBody, receiptions>>
        /\ \/ /\ \/ TransactionCut(Pool!PopAddr, VmTx(Pool!Popped))
                 \/ ExecuteTransaction(Pool!PopAddr, VmTx(Pool!Popped))
              /\ failed' = Append(failed, item)
           \/ UNCHANGED <<accounts, minted, burned, lost, failed>>
    BY <1>10 DEF PackFailed
  <2>2. PoolP!BoxesInv' /\ UNCHANGED crashed
    BY <1>1, <2>1, NodePop DEF Pool!Pop
  <2>3. /\ Pool!PopAddr \in User /\ IsTx(VmTx(Pool!Popped)) /\ item \in Failure
        /\ refused' \subseteq User
    BY <1>1, <1>2, <2>1, PoppedItem
  <2>4. accounts' \in [Address -> Account \cup {Missing}] /\ burned' \in Nat /\ lost' \in Nat
    <3>1. CASE TransactionCut(Pool!PopAddr, VmTx(Pool!Popped))
      BY <1>2, <2>3, <3>1, TransactionCutType
    <3>2. CASE ExecuteTransaction(Pool!PopAddr, VmTx(Pool!Popped))
      BY <1>2, <2>3, <3>2, ExecuteTransactionType
    <3>3. CASE UNCHANGED <<accounts, minted, burned, lost, failed>>
      BY <1>2, <3>3 DEF LedgerTypeOK
    <3>4. QED
      BY <2>1, <3>1, <3>2, <3>3
  <2>5. failed' \in Seq(Failure)
    <3>1. Append(failed, item) \in Seq(Failure)
      BY <1>1, <2>3, AppendProperties
    <3>2. QED
      BY <1>1, <2>1, <3>1
  <2>6. /\ TypeOK' /\ blocks' \in Seq(Seq(Item)) /\ FlattenSeq(blocks') \in Seq(Item)
    BY <1>2, <2>1, <2>2, <2>3, <2>4, PacksTypes
  <2>7. QED
    BY <1>1, <2>1, <2>2, <2>5, <2>6 DEF NodeTypes
<1>11. ASSUME AddBlock
       PROVE  NodeTypes'
  <2>1. /\ CurrentHeader' = nextHeader /\ blocks' = Append(blocks, nextBody)
        /\ nextBody' = <<>> /\ pc' = "idle" /\ round' = 0 /\ timer' = "off"
        /\ UNCHANGED <<ledgerVars, poolVars, waiting, nextHeader, receiptions, refused,
                       failed>>
    BY <1>11 DEF AddBlock
  <2>2. TypeOK'
    BY <1>2, <1>3, <2>1 DEF TypeOK, LedgerTypeOK, ledgerVars, poolVars
  <2>3. blocks' \in Seq(Seq(Item)) /\ nextBody' \in Seq(Item)
    BY <1>1, <2>1, AppendProperties, EmptySeq
  <2>4. FlattenSeq(blocks') \in Seq(Item)
    BY <1>1, <2>1, FlattenAppend, ConcatProperties
  <2>5. PoolP!BoxesInv'
    BY <1>1, <2>1, BoxesKept
  <2>6. QED
    BY <1>1, <2>1, <2>2, <2>3, <2>4, <2>5 DEF NodeTypes
<1>12. QED
  BY <1>4, <1>5, <1>6, <1>7, <1>8, <1>9, <1>10, <1>11 DEF Next, minnerRPC

\* The type invariant of a node: no call, interrupt, time-out or failure of
\* the database makes a nonce, a balance or a counter leave its range.
THEOREM NodeTypeOK == Spec => []TypeOK
<1>1. Init => NodeTypes
  BY InitTypes
<1>2. NodeTypes /\ [Next]_vars => NodeTypes'
  BY StepTypes
<1>3. NodeTypes => TypeOK
  BY DEF NodeTypes
<1>4. QED
  BY <1>1, <1>2, <1>3, PTL DEF Spec

-----------------------------------------------------------------------------
(* What a step does to the books: to the accounts, the chain with the open *)
(* block, the failures and the heads of the lanes.                         *)

\* The blocks that have, or could have had, a reward.
Rewards == Len(blocks) + (IF pc = "idle" THEN 0 ELSE 1)

\* An empty lane starts at the account's nonce, another keeps its head.
HeadsKept ==
  \A v \in User : Len(pending'[v]) # 0 =>
    pending'[v][1].firstnonce =
      IF Len(pending[v]) = 0 THEN GetAccount(accounts, v).nonce + 1
      ELSE pending[v][1].firstnonce

\* The head of a user's lane is taken: t.
Takes(from, t) ==
  /\ Len(pending[from]) # 0
  /\ t.nonce = pending[from][1].firstnonce
  /\ \A v \in User \ {from} : pending'[v] = pending[v]
  /\ Len(pending'[from]) # 0 =>
       pending'[from][1].firstnonce = pending[from][1].firstnonce + 1

\* Nothing happens to the books.
Quiet ==
  /\ HeadsKept
  /\ Packed' = Packed /\ Rewards' = Rewards
  /\ UNCHANGED <<accounts, minted, burned, lost, receiptions, failed, refused>>

\* The miner gets the reward, or does not.
Rewarded(m) ==
  /\ accounts' = [accounts EXCEPT ![m] = Minted(m)]
  /\ minted' = minted + MintAmount
  /\ Packed' = Packed /\ Rewards' = Rewards + 1
  /\ UNCHANGED <<burned, lost, receiptions, failed, refused, pending>>

Unrewarded(m) ==
  /\ failed' = Append(failed, [from |-> m, tx |-> NoTx])
  /\ Packed' = Packed /\ Rewards' = Rewards + 1
  /\ UNCHANGED <<accounts, minted, burned, lost, receiptions, refused, pending>>

\* A transaction is lost without an effect.
Loses(from, t) ==
  /\ Takes(from, t)
  /\ refused' = refused \cup {from}
  /\ Packed' = Packed /\ Rewards' = Rewards
  /\ UNCHANGED <<accounts, minted, burned, lost, receiptions, failed>>

\* A transaction is executed and goes into the block.
Runs(from, t) ==
  /\ Takes(from, t)
  /\ ExecuteTransaction(from, VmTx(t))
  /\ Packed' = Append(Packed, [from |-> from, tx |-> t])
  /\ receiptions' = Append(receiptions, [from |-> from, tx |-> t])
  /\ Rewards' = Rewards
  /\ UNCHANGED <<failed, refused>>

\* A transaction has an effect and is lost.
Fails(from, t) ==
  /\ Takes(from, t)
  /\ TransactionCut(from, VmTx(t)) \/ ExecuteTransaction(from, VmTx(t))
  /\ refused' = refused \cup {from}
  /\ failed' = Append(failed, [from |-> from, tx |-> t])
  /\ Packed' = Packed /\ Rewards' = Rewards
  /\ UNCHANGED receiptions

\* What Pop does to the head of a lane.
LEMMA PopTakes ==
  ASSUME PoolP!BoxesInv, Pool!Pop
  PROVE  /\ Pool!PopAddr \in User /\ Pool!Popped \in Pool!Tx
         /\ Takes(Pool!PopAddr, Pool!Popped)
BY NodePop DEF Takes

\* Every step is one of these.
LEMMA StepEffect ==
  ASSUME NodeTypes, NodeTypes', [Next]_vars
  PROVE  \/ Quiet
         \/ \E m \in User : Rewarded(m) \/ Unrewarded(m)
         \/ \E from \in User, t \in Pool!Tx :
              Loses(from, t) \/ Runs(from, t) \/ Fails(from, t)
<1>1. /\ PoolP!BoxesInv /\ blocks \in Seq(Seq(Item)) /\ FlattenSeq(blocks) \in Seq(Item)
      /\ nextBody \in Seq(Item)
      /\ pc = "idle" => nextBody = <<>>
  BY DEF NodeTypes
<1>2. Packed = FlattenSeq(blocks) \o nextBody /\ Packed' = FlattenSeq(blocks') \o nextBody'
  BY DEF Packed
<1>3. Len(blocks) \in Nat
  BY <1>1, LenProperties
<1>4. UNCHANGED pending => HeadsKept
  BY DEF HeadsKept
<1>5. ASSUME NEW u \in User, NEW t \in Pool!Tx, UserRPC_transaction(u, t)
      PROVE  Quiet
  <2>1. /\ HeadsKept
        /\ UNCHANGED <<ledgerVars, packVars, waiting, chainVars, blockVars, refused, failed>>
    BY <1>1, <1>5, NodeNewTX DEF UserRPC_transaction, HeadsKept
  <2>2. Packed' = Packed /\ Rewards' = Rewards
    BY <2>1 DEF Packed, Rewards, packVars, chainVars, blockVars
  <2>3. QED
    BY <2>1, <2>2 DEF Quiet, ledgerVars, blockVars
<1>6. ASSUME NEW m \in User, MinnerRPC(m)
      PROVE  Rewarded(m) \/ Unrewarded(m)
  <2>1. /\ pc = "idle" /\ pc' = "packing" /\ nextBody' = <<>>
        /\ UNCHANGED <<burned, lost, poolVars, chainVars, receiptions, refused>>
    BY <1>6 DEF MinnerRPC
  <2>2. Packed' = Packed
    BY <1>1, <2>1 DEF Packed, chainVars
  <2>3. Rewards' = Rewards + 1
    BY <1>3, <2>1 DEF Rewards, chainVars
  <2>4. \/ /\ accounts' = [accounts EXCEPT ![m] = Minted(m)]
           /\ minted' = minted + MintAmount
           /\ UNCHANGED failed
        \/ /\ failed' = Append(failed, [from |-> m, tx |-> NoTx])
           /\ UNCHANGED <<accounts, minted>>
    BY <1>6 DEF MinnerRPC
  <2>5. QED
    BY <2>1, <2>2, <2>3, <2>4 DEF Rewarded, Unrewarded, poolVars
<1>7. ASSUME TimerFires \/ Interupt \/ Received \/ PackDone \/ UNCHANGED vars
      PROVE  Quiet
  <2>1. /\ UNCHANGED <<ledgerVars, poolVars, chainVars, blockVars, refused, failed>>
        /\ pc' = "idle" <=> pc = "idle"
    BY <1>7 DEF TimerFires, Interupt, Received, PackDone, vars, packVars
  <2>2. Packed' = Packed /\ Rewards' = Rewards
    BY <2>1 DEF Packed, Rewards, chainVars, blockVars
  <2>3. QED
    BY <1>4, <2>1, <2>2 DEF Quiet, ledgerVars, poolVars, blockVars
<1>8. ASSUME PackNone
      PROVE  Quiet
  <2>1. /\ pc = "packing" /\ pc' = "sealing"
        /\ UNCHANGED <<accounts, burned, lost, minted, chainVars, nextBody, receiptions,
                       refused, failed>>
    BY <1>8 DEF PackNone, Packs
  <2>2. UNCHANGED poolVars
    BY <1>1, <1>8, NodePop DEF PackNone
  <2>3. Packed' = Packed /\ Rewards' = Rewards
    BY <2>1 DEF Packed, Rewards, chainVars
  <2>4. QED
    BY <1>4, <2>1, <2>2, <2>3 DEF Quiet, poolVars
<1>9. ASSUME PackRefused
      PROVE  \E from \in User, t \in Pool!Tx : Loses(from, t)
  <2>1. /\ pc = "packing" /\ pc' = "sealing" /\ Pool!Pop
        /\ refused' = refused \cup {Pool!PopAddr}
        /\ UNCHANGED <<accounts, burned, lost, minted, chainVars, nextBody, receiptions,
                       failed>>
    BY <1>9 DEF PackRefused, Packs
  <2>2. Packed' = Packed /\ Rewards' = Rewards
    BY <2>1 DEF Packed, Rewards, chainVars
  <2>3. Loses(Pool!PopAddr, Pool!Popped)
    BY <1>1, <2>1, <2>2, PopTakes DEF Loses
  <2>4. QED
    BY <1>1, <2>1, <2>3, PopTakes
<1>10. ASSUME PackExecuted
       PROVE  \E from \in User, t \in Pool!Tx : Runs(from, t)
  <2> DEFINE item == [from |-> Pool!PopAddr, tx |-> Pool!Popped]
  <2>1. /\ pc = "packing" /\ Pool!Pop
        /\ ExecuteTransaction(Pool!PopAddr, VmTx(Pool!Popped))
        /\ nextBody' = Append(nextBody, item)
        /\ receiptions' = Append(receiptions, item)
        /\ UNCHANGED <<pc, chainVars, refused, failed>>
    BY <1>10 DEF PackExecuted, Packs
  <2>2. Packed' = Append(Packed, item)
    <3>1. item \in Item
      BY <1>1, <2>1, PoppedItem
    <3> HIDE DEF item
    <3>2. FlattenSeq(blocks) \o Append(nextBody, item)
            = Append(FlattenSeq(blocks) \o nextBody, item)
      BY <1>1, <3>1
    <3>3. QED
      BY <2>1, <3>2 DEF Packed, chainVars
  <2>3. Rewards' = Rewards
    BY <2>1 DEF Rewards, chainVars
  <2>4. Runs(Pool!PopAddr, Pool!Popped)
    BY <1>1, <2>1, <2>2, <2>3, PopTakes DEF Runs
  <2>5. QED
    BY <1>1, <2>1, <2>4, PopTakes
<1>11. ASSUME PackFailed
       PROVE  \E from \in User, t \in Pool!Tx : Loses(from, t) \/ Fails(from, t)
  <2>1. /\ pc = "packing" /\ pc' = "sealing" /\ Pool!Pop
        /\ refused' = refused \cup {Pool!PopAddr}
        /\ UNCHANGED <<chainVars, nextBody, receiptions>>
        /\ \/ /\ \/ TransactionCut(Pool!PopAddr, VmTx(Pool!Popped))
                 \/ ExecuteTransaction(Pool!PopAddr, VmTx(Pool!Popped))
              /\ failed' = Append(failed, [from |-> Pool!PopAddr, tx |-> Pool!Popped])
           \/ UNCHANGED <<accounts, minted, burned, lost, failed>>
    BY <1>11 DEF PackFailed, Packs
  <2>2. Packed' = Packed /\ Rewards' = Rewards
    BY <2>1 DEF Packed, Rewards, chainVars
  <2>3. Loses(Pool!PopAddr, Pool!Popped) \/ Fails(Pool!PopAddr, Pool!Popped)
    BY <1>1, <2>1, <2>2, PopTakes DEF Loses, Fails
  <2>4. QED
    BY <1>1, <2>1, <2>3, PopTakes
<1>12. ASSUME AddBlock
       PROVE  Quiet
  <2>1. /\ pc = "sealing" /\ pc' = "idle" /\ blocks' = Append(blocks, nextBody)
        /\ nextBody' = <<>>
        /\ UNCHANGED <<ledgerVars, poolVars, receiptions, refused, failed>>
    BY <1>12 DEF AddBlock
  <2>2. Packed' = Packed
    <3>1. FlattenSeq(blocks') = FlattenSeq(blocks) \o nextBody
      BY <1>1, <2>1, FlattenAppend
    <3>2. FlattenSeq(blocks) \o nextBody \in Seq(Item)
      BY <1>1, ConcatProperties
    <3>3. FlattenSeq(blocks') \o <<>> = FlattenSeq(blocks')
      BY <3>1, <3>2
    <3>4. QED
      BY <1>2, <2>1, <3>1, <3>3
  <2>3. Rewards' = Rewards
    <3>1. Len(blocks') = Len(blocks) + 1
      BY <1>1, <2>1, AppendProperties
    <3>2. QED
      BY <1>3, <2>1, <3>1 DEF Rewards
  <2>4. QED
    BY <1>4, <2>1, <2>2, <2>3 DEF Quiet, ledgerVars, poolVars
<1>13. QED
  BY <1>5, <1>6, <1>7, <1>8, <1>9, <1>10, <1>11, <1>12 DEF Next, minnerRPC

-----------------------------------------------------------------------------
(* The books agree *)

\* The failures that were a user's transaction, and those that were a reward.
FailedOf(u) == {i \in PlacesOf(u, failed) : failed[i].tx # NoTx}
FailedRewards == {i \in DOMAIN failed : failed[i].tx = NoTx}

\* The parts of BlocksExplainState.
NoncesExplained ==
  \A u \in User :
    GetAccount(accounts, u).nonce =
      Cardinality(PlacesOf(u, Packed)) + Cardinality(FailedOf(u))
RewardsExplained == minted = MintAmount * (Rewards - Cardinality(FailedRewards))
GasExplained == burned = Gas(Packed) + Gas(failed)

\* Who had a transaction fail is marked.
FailuresMarked == \A i \in DOMAIN failed : failed[i].tx # NoTx => failed[i].from \in refused

\* The head of a lane is the transaction the account waits for, unless one of
\* the user's was lost.
HeadsNext ==
  \A u \in User \ refused : Len(pending[u]) # 0 =>
    pending[u][1].firstnonce = GetAccount(accounts, u).nonce + 1

\* The inductive invariant.
NodeInv ==
  /\ NodeTypes
  /\ Conservation
  /\ ReceiptsFollowBlocks
  /\ NoncesExplained
  /\ RewardsExplained
  /\ GasExplained
  /\ FailuresMarked
  /\ HeadsNext
  /\ BlocksInNonceOrder

\* How many elements of a sequence are in a set, when one is appended.
LEMMA CountAppend ==
  ASSUME NEW S, NEW s \in Seq(S), NEW e \in S, NEW E
  PROVE  /\ Cardinality({i \in DOMAIN s : s[i] \in E}) \in Nat
         /\ Cardinality({i \in DOMAIN Append(s, e) : Append(s, e)[i] \in E}) =
              Cardinality({i \in DOMAIN s : s[i] \in E}) + (IF e \in E THEN 1 ELSE 0)
<1> DEFINE w == Append(s, e)
           n == Len(s)
           P == {i \in 1..n : s[i] \in E}
           Q == {i \in 1..n + 1 : w[i] \in E}
<1>1. /\ n \in Nat /\ DOMAIN s = 1..n /\ DOMAIN w = 1..n + 1
      /\ \A i \in 1..n : w[i] = s[i]
      /\ w[n + 1] = e
  BY AppendProperties, LenProperties
<1>2. SUFFICES /\ Cardinality(P) \in Nat
               /\ Cardinality(Q) = Cardinality(P) + (IF e \in E THEN 1 ELSE 0)
  BY <1>1
<1> HIDE DEF w, n
<1>3. ASSUME NEW i \in 1..n + 1
      PROVE  w[i] \in E <=> \/ i \in 1..n /\ s[i] \in E
                            \/ i = n + 1 /\ e \in E
  <2>1. CASE i = n + 1
    BY <1>1, <2>1
  <2>2. CASE i # n + 1
    <3>1. i \in 1..n
      BY <1>1, <2>2
    <3>2. QED
      BY <1>1, <2>2, <3>1
  <2>3. QED
    BY <2>1, <2>2
<1>4. n + 1 \in 1..n + 1 /\ \A i \in 1..n : i \in 1..n + 1
  BY <1>1
<1>5. Q = IF e \in E THEN P \cup {n + 1} ELSE P
  BY <1>3, <1>4
<1>6. P \subseteq 1..n
  OBVIOUS
<1> HIDE DEF P, Q
<1>7. Cardinality(P) \in Nat /\ Cardinality(P \cup {n + 1}) = Cardinality(P) + 1
  BY <1>1, <1>6, OneMore
<1>8. QED
  BY <1>5, <1>7

\* The transactions of a user, when one is appended.
LEMMA PlacesCount ==
  ASSUME NEW S, NEW s \in Seq(S), NEW e \in S, NEW u
  PROVE  /\ Cardinality(PlacesOf(u, s)) \in Nat
         /\ Cardinality(PlacesOf(u, Append(s, e))) =
              Cardinality(PlacesOf(u, s)) + (IF e.from = u THEN 1 ELSE 0)
<1>1. PlacesOf(u, s) \subseteq 1..Len(s) /\ Len(s) \in Nat
  BY PlacesAppend, LenProperties
<1>2. /\ Cardinality(PlacesOf(u, s)) \in Nat
      /\ Cardinality(PlacesOf(u, s) \cup {Len(s) + 1}) = Cardinality(PlacesOf(u, s)) + 1
  BY <1>1, OneMore
<1>3. PlacesOf(u, Append(s, e)) =
        IF e.from = u THEN PlacesOf(u, s) \cup {Len(s) + 1} ELSE PlacesOf(u, s)
  BY PlacesAppend
<1>4. QED
  BY <1>2, <1>3

\* What is remembered of the failures, when one is added.
LEMMA FailuresCount ==
  ASSUME failed \in Seq(Failure), NEW e \in Failure, failed' = Append(failed, e)
  PROVE  /\ Cardinality(FailedRewards) \in Nat
         /\ Cardinality(FailedRewards') =
              Cardinality(FailedRewards) + (IF e.tx = NoTx THEN 1 ELSE 0)
         /\ \A u \in User :
              /\ Cardinality(FailedOf(u)) \in Nat
              /\ Cardinality(FailedOf(u)') =
                   Cardinality(FailedOf(u)) + (IF e.tx # NoTx /\ e.from = u THEN 1 ELSE 0)
         /\ DOMAIN failed' = DOMAIN failed \cup {Len(failed) + 1}
         /\ \A i \in DOMAIN failed : failed'[i] = failed[i]
         /\ failed'[Len(failed) + 1] = e
<1>1. /\ DOMAIN failed = 1..Len(failed) /\ Len(failed) \in Nat
      /\ \A i \in DOMAIN failed : failed[i] \in Failure
      /\ failed' \in Seq(Failure)
      /\ DOMAIN failed' = 1..Len(failed) + 1
      /\ \A i \in DOMAIN failed' : failed'[i] \in Failure
      /\ \A i \in DOMAIN failed : failed'[i] = failed[i]
      /\ failed'[Len(failed) + 1] = e
  BY AppendProperties, LenProperties, ElementOfSeq
<1>2. /\ Cardinality(FailedRewards) \in Nat
      /\ Cardinality(FailedRewards') =
           Cardinality(FailedRewards) + (IF e.tx = NoTx THEN 1 ELSE 0)
  <2> DEFINE E == {x \in Failure : x.tx = NoTx}
  <2>1. FailedRewards = {i \in DOMAIN failed : failed[i] \in E}
    BY <1>1 DEF FailedRewards
  <2>2. FailedRewards' = {i \in DOMAIN failed' : failed'[i] \in E}
    BY <1>1 DEF FailedRewards
  <2>3. e \in E <=> e.tx = NoTx
    OBVIOUS
  <2> HIDE DEF E
  <2>4. /\ Cardinality({i \in DOMAIN failed : failed[i] \in E}) \in Nat
        /\ Cardinality({i \in DOMAIN Append(failed, e) : Append(failed, e)[i] \in E}) =
             Cardinality({i \in DOMAIN failed : failed[i] \in E})
               + (IF e \in E THEN 1 ELSE 0)
    BY CountAppend, SMTT(30)
  <2>5. FailedRewards' = {i \in DOMAIN Append(failed, e) : Append(failed, e)[i] \in E}
    BY <2>2
  <2>6. QED
    BY <2>1, <2>3, <2>4, <2>5
<1>3. ASSUME NEW u \in User
      PROVE  /\ Cardinality(FailedOf(u)) \in Nat
             /\ Cardinality(FailedOf(u)') =
                  Cardinality(FailedOf(u)) + (IF e.tx # NoTx /\ e.from = u THEN 1 ELSE 0)
  <2> DEFINE E == {x \in Failure : x.tx # NoTx /\ x.from = u}
  <2>1. FailedOf(u) = {i \in DOMAIN failed : failed[i] \in E}
    BY <1>1 DEF FailedOf, PlacesOf
  <2>2. FailedOf(u)' = {i \in DOMAIN failed' : failed'[i] \in E}
    BY <1>1 DEF FailedOf, PlacesOf
  <2>3. e \in E <=> e.tx # NoTx /\ e.from = u
    OBVIOUS
  <2> HIDE DEF E
  <2>4. /\ Cardinality({i \in DOMAIN failed : failed[i] \in E}) \in Nat
        /\ Cardinality({i \in DOMAIN Append(failed, e) : Append(failed, e)[i] \in E}) =
             Cardinality({i \in DOMAIN failed : failed[i] \in E})
               + (IF e \in E THEN 1 ELSE 0)
    BY CountAppend
  <2>5. FailedOf(u)' = {i \in DOMAIN Append(failed, e) : Append(failed, e)[i] \in E}
    BY <2>2
  <2>6. (IF e \in E THEN 1 ELSE 0) = (IF e.tx # NoTx /\ e.from = u THEN 1 ELSE 0)
    BY <2>3
  <2>7. QED
    BY <2>1, <2>4, <2>5, <2>6
<1>4. DOMAIN failed' = DOMAIN failed \cup {Len(failed) + 1}
  BY <1>1
<1>5. QED
  BY <1>1, <1>2, <1>3, <1>4

\* The sequences of transactions, and that gas is a number.
LEMMA Sequences ==
  ASSUME NodeTypes
  PROVE  /\ Packed \in Seq(Item) /\ failed \in Seq(Failure)
         /\ \A e \in Item : GasOf(e) = e.tx.price * e.tx.pay.limit /\ GasOf(e) \in Int
         /\ \A e \in Failure : GasOf(e) \in Int
         /\ NoTx \notin Pool!Tx
         /\ LedgerTypeOK /\ Len(blocks) \in Nat /\ Rewards \in Nat
<1>1. Packed \in Seq(Item)
  BY ConcatProperties DEF NodeTypes, Packed
<1>2. NoTx \notin Pool!Tx
  BY MakerAssumption DEF Pool!Tx, Pool!Nonce, Pool!Price
<1>3. \A t \in Pool!Tx : t.price * t.pay.limit \in Int
  BY VmTxIsTx
<1>4. \A e \in Item : GasOf(e) = e.tx.price * e.tx.pay.limit /\ GasOf(e) \in Int
  BY <1>2, <1>3 DEF Item, GasOf
<1>5. ASSUME NEW e \in Failure
      PROVE  GasOf(e) \in Int
  <2>1. CASE e.tx = NoTx
    BY <2>1 DEF GasOf
  <2>2. CASE e.tx # NoTx
    <3>1. e.tx \in Pool!Tx
      BY <2>2 DEF Failure
    <3>2. QED
      BY <1>3, <2>2, <3>1 DEF GasOf
  <2>3. QED
    BY <2>1, <2>2
<1>6. Len(blocks) \in Nat
  BY LenProperties DEF NodeTypes
<1>7. QED
  BY <1>1, <1>2, <1>4, <1>5, <1>6 DEF NodeTypes, TypeOK, Rewards

\* While the blocks stay, so does what is said of them.
LEMMA BlocksKept ==
  ASSUME NodeInv, Packed' = Packed, receiptions' = receiptions,
         refused \subseteq refused'
  PROVE  ReceiptsFollowBlocks' /\ BlocksInNonceOrder'
<1>1. receiptions = Packed /\ BlocksInNonceOrder
  BY DEF NodeInv, ReceiptsFollowBlocks
<1>2. ReceiptsFollowBlocks'
  BY <1>1 DEF ReceiptsFollowBlocks
<1>3. BlocksInNonceOrder'
  BY <1>1 DEF BlocksInNonceOrder
<1>4. QED
  BY <1>2, <1>3

\* While the accounts stay, so does what is said of the money.
LEMMA MoneyKept ==
  ASSUME Conservation, UNCHANGED <<accounts, minted, burned, lost>>
  PROVE  Conservation'
BY DEF Conservation, Supply

\* While the failures stay, so does what is said of them.
LEMMA FailuresKept ==
  ASSUME NodeInv, UNCHANGED failed, refused \subseteq refused'
  PROVE  /\ FailuresMarked' /\ Gas(failed)' = Gas(failed)
         /\ Cardinality(FailedRewards)' = Cardinality(FailedRewards)
         /\ \A u \in User : Cardinality(FailedOf(u)') = Cardinality(FailedOf(u))
BY DEF NodeInv, FailuresMarked, Gas, FailedRewards, FailedOf, PlacesOf

\* The head of a lane nobody has taken from.
LEMMA HeadsStay ==
  ASSUME NodeInv, HeadsKept, UNCHANGED <<accounts, refused>>
  PROVE  HeadsNext'
<1>1. ASSUME NEW u \in User \ refused', Len(pending'[u]) # 0
      PROVE  pending'[u][1].firstnonce = GetAccount(accounts', u).nonce + 1
  <2>1. pending'[u][1].firstnonce =
          IF Len(pending[u]) = 0 THEN GetAccount(accounts, u).nonce + 1
          ELSE pending[u][1].firstnonce
    BY <1>1 DEF HeadsKept
  <2>2. Len(pending[u]) # 0 =>
          pending[u][1].firstnonce = GetAccount(accounts, u).nonce + 1
    BY <1>1 DEF NodeInv, HeadsNext
  <2>3. QED
    BY <2>1, <2>2
<1>2. QED
  BY <1>1 DEF HeadsNext

\* A step that leaves the books alone.
LEMMA QuietKeeps ==
  ASSUME NodeInv, NodeTypes', Quiet
  PROVE  NodeInv'
<1>1. /\ HeadsKept /\ Packed' = Packed /\ Rewards' = Rewards
      /\ UNCHANGED <<accounts, minted, burned, lost, receiptions, failed, refused>>
  BY DEF Quiet
<1>2. ReceiptsFollowBlocks' /\ BlocksInNonceOrder' /\ Conservation' /\ HeadsNext'
  BY <1>1, BlocksKept, MoneyKept, HeadsStay DEF NodeInv
<1>3. /\ FailuresMarked' /\ Gas(failed)' = Gas(failed)
      /\ Cardinality(FailedRewards)' = Cardinality(FailedRewards)
      /\ \A u \in User : Cardinality(FailedOf(u)') = Cardinality(FailedOf(u))
  BY <1>1, FailuresKept
<1>4. NoncesExplained'
  BY <1>1, <1>3 DEF NodeInv, NoncesExplained
<1>5. RewardsExplained'
  BY <1>1, <1>3 DEF NodeInv, RewardsExplained
<1>6. GasExplained'
  BY <1>1, <1>3 DEF NodeInv, GasExplained
<1>7. QED
  BY <1>2, <1>3, <1>4, <1>5, <1>6 DEF NodeInv

\* A reward.
LEMMA RewardedKeeps ==
  ASSUME NodeInv, NodeTypes', NEW m \in User, Rewarded(m)
  PROVE  NodeInv'
<1>1. /\ accounts' = [accounts EXCEPT ![m] = Minted(m)]
      /\ minted' = minted + MintAmount
      /\ Packed' = Packed /\ Rewards' = Rewards + 1
      /\ UNCHANGED <<burned, lost, receiptions, failed, refused, pending>>
  BY DEF Rewarded
<1>2. LedgerTypeOK /\ LedgerTypeOK' /\ Conservation /\ m \in Address
  BY DEF NodeInv, NodeTypes, TypeOK, Address
<1>3. Conservation'
  BY <1>1, <1>2, MintConserves
<1>4. \A u \in User : GetAccount(accounts', u).nonce = GetAccount(accounts, u).nonce
  BY <1>1, <1>2, MintCounts
<1>5. ReceiptsFollowBlocks' /\ BlocksInNonceOrder'
  BY <1>1, BlocksKept
<1>6. /\ FailuresMarked' /\ Gas(failed)' = Gas(failed)
      /\ Cardinality(FailedRewards)' = Cardinality(FailedRewards)
      /\ \A u \in User : Cardinality(FailedOf(u)') = Cardinality(FailedOf(u))
  BY <1>1, FailuresKept
<1>7. NoncesExplained'
  BY <1>1, <1>4, <1>6 DEF NodeInv, NoncesExplained
<1>8. RewardsExplained'
  <2>1. /\ minted = MintAmount * (Rewards - Cardinality(FailedRewards))
        /\ MintAmount \in Int /\ Rewards \in Int /\ Cardinality(FailedRewards) \in Int
    <3>1. Cardinality(FailedRewards) \in Nat
      <4>1. FailedRewards \subseteq 1..Len(failed) /\ Len(failed) \in Nat
        BY LenProperties DEF NodeInv, NodeTypes, FailedRewards
      <4>2. QED
        BY <4>1, OneMore
    <3>2. QED
      BY <3>1, LedgerAssumption, Sequences DEF NodeInv, RewardsExplained
  <2>2. minted' = MintAmount * ((Rewards + 1) - Cardinality(FailedRewards))
    BY <1>1, <2>1
  <2>3. QED
    BY <1>1, <1>6, <2>2 DEF RewardsExplained
<1>9. GasExplained'
  BY <1>1, <1>6 DEF NodeInv, GasExplained
<1>10. HeadsNext'
  BY <1>1, <1>4 DEF NodeInv, HeadsNext
<1>11. QED
  BY <1>3, <1>5, <1>6, <1>7, <1>8, <1>9, <1>10 DEF NodeInv

\* A reward the database has lost.
LEMMA UnrewardedKeeps ==
  ASSUME NodeInv, NodeTypes', NEW m \in User, Unrewarded(m)
  PROVE  NodeInv'
<1> DEFINE e == [from |-> m, tx |-> NoTx]
<1>1. /\ failed' = Append(failed, e)
      /\ Packed' = Packed /\ Rewards' = Rewards + 1
      /\ UNCHANGED <<accounts, minted, burned, lost, receiptions, refused, pending>>
  BY DEF Unrewarded
<1>2. e \in Failure /\ e.tx = NoTx /\ failed \in Seq(Failure)
  BY Sequences DEF Failure, NodeInv
<1>3. GasOf(e) = 0
  BY <1>2 DEF GasOf
<1> HIDE DEF e
<1>4. Conservation' /\ ReceiptsFollowBlocks' /\ BlocksInNonceOrder'
  BY <1>1, MoneyKept, BlocksKept DEF NodeInv
<1>5. /\ Cardinality(FailedRewards) \in Nat
      /\ Cardinality(FailedRewards') = Cardinality(FailedRewards) + 1
      /\ \A u \in User : /\ Cardinality(FailedOf(u)) \in Nat
                         /\ Cardinality(FailedOf(u)') = Cardinality(FailedOf(u))
      /\ DOMAIN failed' = DOMAIN failed \cup {Len(failed) + 1}
      /\ \A i \in DOMAIN failed : failed'[i] = failed[i]
      /\ failed'[Len(failed) + 1] = e
  BY <1>1, <1>2, FailuresCount
<1>6. Gas(failed)' = Gas(failed)
  <2>1. \A x \in Failure : GasOf(x) \in Int
    BY Sequences DEF NodeInv
  <2>2. Gas(failed) \in Int /\ Gas(Append(failed, e)) = Gas(failed) + GasOf(e)
    BY <1>2, <2>1, GasAppend
  <2>3. QED
    BY <1>1, <1>3, <2>2
<1>7. NoncesExplained'
  BY <1>1, <1>5 DEF NodeInv, NoncesExplained
<1>8. RewardsExplained'
  <2>1. minted = MintAmount * (Rewards - Cardinality(FailedRewards)) /\ Rewards \in Nat
    BY Sequences DEF NodeInv, RewardsExplained
  <2>2. Rewards' - Cardinality(FailedRewards') = Rewards - Cardinality(FailedRewards)
    BY <1>1, <1>5, <2>1
  <2>3. QED
    BY <1>1, <2>1, <2>2 DEF RewardsExplained
<1>9. GasExplained'
  BY <1>1, <1>6 DEF NodeInv, GasExplained
<1>10. FailuresMarked'
  BY <1>1, <1>2, <1>5 DEF NodeInv, FailuresMarked
<1>11. HeadsNext'
  BY <1>1 DEF NodeInv, HeadsNext
<1>12. QED
  BY <1>4, <1>7, <1>8, <1>9, <1>10, <1>11 DEF NodeInv

\* A transaction that is lost without an effect.
LEMMA LosesKeeps ==
  ASSUME NodeInv, NodeTypes', NEW from \in User, NEW t \in Pool!Tx, Loses(from, t)
  PROVE  NodeInv'
<1>1. /\ \A v \in User \ {from} : pending'[v] = pending[v]
      /\ refused' = refused \cup {from}
      /\ Packed' = Packed /\ Rewards' = Rewards
      /\ UNCHANGED <<accounts, minted, burned, lost, receiptions, failed>>
  BY DEF Loses, Takes
<1>2. ReceiptsFollowBlocks' /\ BlocksInNonceOrder' /\ Conservation'
  BY <1>1, BlocksKept, MoneyKept DEF NodeInv
<1>3. /\ FailuresMarked' /\ Gas(failed)' = Gas(failed)
      /\ Cardinality(FailedRewards)' = Cardinality(FailedRewards)
      /\ \A u \in User : Cardinality(FailedOf(u)') = Cardinality(FailedOf(u))
  BY <1>1, FailuresKept
<1>4. NoncesExplained' /\ RewardsExplained' /\ GasExplained'
  BY <1>1, <1>3 DEF NodeInv, NoncesExplained, RewardsExplained, GasExplained
<1>5. HeadsNext'
  BY <1>1 DEF NodeInv, HeadsNext
<1>6. QED
  BY <1>2, <1>3, <1>4, <1>5 DEF NodeInv

\* What a transaction that runs, in full or in part, does to the accounts.
LEMMA PaidFor ==
  ASSUME NodeInv, NodeTypes', NEW from \in User, NEW t \in Pool!Tx,
         TransactionCut(from, VmTx(t)) \/ ExecuteTransaction(from, VmTx(t))
  PROVE  /\ Conservation'
         /\ Counts(accounts, accounts', from)
         /\ minted' = minted
         /\ burned' = burned + t.price * t.pay.limit
<1>1. LedgerTypeOK /\ LedgerTypeOK' /\ Conservation
  BY DEF NodeInv, NodeTypes, TypeOK
<1>2. IsTx(VmTx(t)) /\ VmTx(t).price * VmTx(t).limit = t.price * t.pay.limit
  BY VmTxIsTx
<1>3. CASE TransactionCut(from, VmTx(t))
  <2>1. Conservation'
    BY <1>1, <1>2, <1>3, CutConserves
  <2>2. /\ ~Refused(from, VmTx(t)) /\ accounts' = Charged(from, VmTx(t))
        /\ minted' = minted /\ burned' = burned + VmTx(t).price * VmTx(t).limit
    BY <1>3 DEF TransactionCut
  <2>3. Counts(accounts, accounts', from)
    BY <1>1, <1>2, <2>2, ChargedCounts
  <2>4. QED
    BY <1>2, <2>1, <2>2, <2>3
<1>4. CASE ExecuteTransaction(from, VmTx(t))
  <2>1. Conservation'
    BY <1>1, <1>2, <1>4, ExecuteConserves
  <2>2. minted' = minted /\ burned' = burned + VmTx(t).price * VmTx(t).limit
    BY <1>4 DEF ExecuteTransaction
  <2>3. Counts(accounts, accounts', from)
    BY <1>1, <1>2, <1>4, ExecuteCounts
  <2>4. QED
    BY <1>2, <2>1, <2>2, <2>3
<1>5. QED
  BY <1>3, <1>4

\* The nonces of the accounts and what is counted are numbers.
LEMMA CountsType ==
  ASSUME NodeTypes, NEW u \in User
  PROVE  /\ GetAccount(accounts, u).nonce \in Nat
         /\ Cardinality(PlacesOf(u, Packed)) \in Nat
         /\ Cardinality(FailedOf(u)) \in Nat
<1>1. Packed \in Seq(Item) /\ failed \in Seq(Failure) /\ LedgerTypeOK
  BY Sequences
<1>2. GetAccount(accounts, u).nonce \in Nat
  BY <1>1, GetAccountType DEF LedgerTypeOK, Account, Address
<1>3. PlacesOf(u, Packed) \subseteq 1..Len(Packed) /\ Len(Packed) \in Nat
  BY <1>1, LenProperties DEF PlacesOf
<1>4. FailedOf(u) \subseteq 1..Len(failed) /\ Len(failed) \in Nat
  BY <1>1, LenProperties DEF FailedOf, PlacesOf
<1>5. QED
  BY <1>2, <1>3, <1>4, OneMore

\* A transaction that has an effect and is lost.
LEMMA FailsKeeps ==
  ASSUME NodeInv, NodeTypes', NEW from \in User, NEW t \in Pool!Tx, Fails(from, t)
  PROVE  NodeInv'
<1> DEFINE e == [from |-> from, tx |-> t]
<1>1. /\ \A v \in User \ {from} : pending'[v] = pending[v]
      /\ TransactionCut(from, VmTx(t)) \/ ExecuteTransaction(from, VmTx(t))
      /\ refused' = refused \cup {from}
      /\ failed' = Append(failed, e)
      /\ Packed' = Packed /\ Rewards' = Rewards
      /\ UNCHANGED receiptions
  BY DEF Fails, Takes
<1>2. /\ e \in Failure /\ e.from = from /\ e.tx # NoTx
      /\ GasOf(e) = t.price * t.pay.limit
  BY Sequences DEF Failure, NodeInv, GasOf
<1> HIDE DEF e
<1>3. /\ Conservation' /\ Counts(accounts, accounts', from)
      /\ minted' = minted /\ burned' = burned + t.price * t.pay.limit
  BY <1>1, PaidFor
<1>4. ReceiptsFollowBlocks' /\ BlocksInNonceOrder'
  BY <1>1, BlocksKept
<1>5. failed \in Seq(Failure) /\ \A x \in Failure : GasOf(x) \in Int
  BY Sequences DEF NodeInv
<1>6. /\ Cardinality(FailedRewards') = Cardinality(FailedRewards)
      /\ \A u \in User :
           Cardinality(FailedOf(u)') = Cardinality(FailedOf(u)) + (IF u = from THEN 1 ELSE 0)
      /\ DOMAIN failed' = DOMAIN failed \cup {Len(failed) + 1}
      /\ \A i \in DOMAIN failed : failed'[i] = failed[i]
      /\ failed'[Len(failed) + 1] = e
  <2>1. /\ Cardinality(FailedRewards) \in Nat
        /\ Cardinality(FailedRewards') =
             Cardinality(FailedRewards) + (IF e.tx = NoTx THEN 1 ELSE 0)
        /\ \A u \in User :
             /\ Cardinality(FailedOf(u)) \in Nat
             /\ Cardinality(FailedOf(u)') =
                  Cardinality(FailedOf(u)) + (IF e.tx # NoTx /\ e.from = u THEN 1 ELSE 0)
        /\ DOMAIN failed' = DOMAIN failed \cup {Len(failed) + 1}
        /\ \A i \in DOMAIN failed : failed'[i] = failed[i]
        /\ failed'[Len(failed) + 1] = e
    BY <1>1, <1>2, <1>5, FailuresCount
  <2>2. QED
    BY <1>2, <2>1
<1>7. Gas(failed)' = Gas(failed) + t.price * t.pay.limit /\ Gas(failed) \in Int
  <2>1. Gas(failed) \in Int /\ Gas(Append(failed, e)) = Gas(failed) + GasOf(e)
    BY <1>2, <1>5, GasAppend
  <2>2. QED
    BY <1>1, <1>2, <2>1
<1>8. NoncesExplained'
  <2>1. ASSUME NEW u \in User
        PROVE  GetAccount(accounts', u).nonce =
                 Cardinality(PlacesOf(u, Packed')) + Cardinality(FailedOf(u)')
    <3>1. /\ GetAccount(accounts, u).nonce =
               Cardinality(PlacesOf(u, Packed)) + Cardinality(FailedOf(u))
          /\ Cardinality(PlacesOf(u, Packed)) \in Nat /\ Cardinality(FailedOf(u)) \in Nat
      BY CountsType DEF NodeInv, NoncesExplained
    <3>2. GetAccount(accounts', u).nonce =
            GetAccount(accounts, u).nonce + (IF u = from THEN 1 ELSE 0)
      BY <1>3 DEF Counts
    <3>3. /\ PlacesOf(u, Packed') = PlacesOf(u, Packed)
          /\ Cardinality(FailedOf(u)') =
               Cardinality(FailedOf(u)) + (IF u = from THEN 1 ELSE 0)
      BY <1>1, <1>6
    <3>4. QED
      BY <3>1, <3>2, <3>3
  <2>2. QED
    BY <2>1 DEF NoncesExplained
<1>9. RewardsExplained'
  BY <1>1, <1>3, <1>6 DEF NodeInv, RewardsExplained
<1>10. GasExplained'
  <2>1. burned = Gas(Packed) + Gas(failed) /\ Gas(Packed)' = Gas(Packed)
    BY <1>1 DEF NodeInv, GasExplained
  <2>2. Gas(Packed) \in Int /\ t.price * t.pay.limit \in Int
    <3>1. /\ Packed \in Seq(Item) /\ \A x \in Item : GasOf(x) \in Int
          /\ [from |-> from, tx |-> t] \in Item
      BY Sequences DEF NodeInv, Item
    <3>2. QED
      BY <3>1, GasAppend, VmTxIsTx
  <2> DEFINE fee == t.price * t.pay.limit
             g == Gas(Packed)
             h == Gas(failed)
             b == burned
  <2>3. /\ b = g + h /\ b' = b + fee /\ h' = h + fee /\ g' = g
        /\ fee \in Int /\ g \in Int /\ h \in Int
    BY <1>3, <1>7, <2>1, <2>2
  <2>4. b' = g' + h'
    <3> HIDE DEF fee, g, h, b
    <3>1. QED
      BY <2>3
  <2>5. QED
    BY <2>4 DEF GasExplained
<1>11. FailuresMarked'
  BY <1>1, <1>2, <1>6 DEF NodeInv, FailuresMarked
<1>12. HeadsNext'
  <2>1. ASSUME NEW u \in User \ refused', Len(pending'[u]) # 0
        PROVE  pending'[u][1].firstnonce = GetAccount(accounts', u).nonce + 1
    <3>1. u \in User \ refused /\ u # from
      BY <1>1, <2>1
    <3>2. pending'[u] = pending[u] /\ GetAccount(accounts', u).nonce = GetAccount(accounts, u).nonce
      <4>1. GetAccount(accounts, u).nonce \in Nat
        BY <3>1, CountsType DEF NodeInv
      <4>2. QED
        BY <1>1, <1>3, <3>1, <4>1 DEF Counts
    <3>3. QED
      BY <2>1, <3>1, <3>2 DEF NodeInv, HeadsNext
  <2>2. QED
    BY <2>1 DEF HeadsNext
<1>13. QED
  BY <1>3, <1>4, <1>8, <1>9, <1>10, <1>11, <1>12 DEF NodeInv

\* A transaction taken from the head of a lane has the next nonce of the
\* blocks, so the blocks stay in order.
LEMMA RunsInOrder ==
  ASSUME NodeInv, NEW from \in User, NEW t \in Pool!Tx, Runs(from, t)
  PROVE  BlocksInNonceOrder'
<1> DEFINE e == [from |-> from, tx |-> t]
           n == Len(Packed)
           w == Packed'
<1>1. /\ Len(pending[from]) # 0 /\ t.nonce = pending[from][1].firstnonce
      /\ w = Append(Packed, e) /\ refused' = refused
  BY DEF Runs, Takes
<1>2. Packed \in Seq(Item) /\ e \in Item /\ e.from = from /\ e.tx = t
  BY Sequences DEF NodeInv, Item
<1> HIDE DEF e
<1>3. /\ n \in Nat
      /\ \A i \in 1..n : w[i] = Packed[i]
      /\ w[n + 1] = e
  BY <1>1, <1>2, AppendProperties, LenProperties
<1>4. ASSUME NEW u \in User
      PROVE  /\ PlacesOf(u, Packed) \subseteq 1..n
             /\ PlacesOf(u, w) =
                  IF u = from THEN PlacesOf(u, Packed) \cup {n + 1} ELSE PlacesOf(u, Packed)
  <2>1. /\ PlacesOf(u, Packed) \subseteq 1..Len(Packed)
        /\ PlacesOf(u, Append(Packed, e)) =
             IF e.from = u THEN PlacesOf(u, Packed) \cup {Len(Packed) + 1}
             ELSE PlacesOf(u, Packed)
    BY <1>2, PlacesAppend
  <2>2. QED
    BY <1>1, <1>2, <2>1
<1> HIDE DEF n, w
<1>5. ASSUME NEW u \in User \ refused, NEW i \in PlacesOf(u, w)
      PROVE  w[i].tx.nonce = Cardinality({j \in PlacesOf(u, w) : j <= i})
  <2> DEFINE P == PlacesOf(u, Packed)
             Q == PlacesOf(u, w)
  <2>1. P \subseteq 1..n /\ Q = IF u = from THEN P \cup {n + 1} ELSE P
    BY <1>4
  <2>2. \A k \in P : Packed[k].tx.nonce = Cardinality({j \in P : j <= k})
    BY <1>5 DEF NodeInv, BlocksInNonceOrder
  <2>3. Cardinality(P \cup {n + 1}) = Cardinality(P) + 1
    <3> HIDE DEF P
    <3>1. QED
      BY <1>3, <2>1, OneMore
  <2>4. u = from => t.nonce = Cardinality(P) + 1
    <3>1. SUFFICES ASSUME u = from PROVE t.nonce = Cardinality(P) + 1
      OBVIOUS
    <3>2. t.nonce = GetAccount(accounts, u).nonce + 1
      BY <1>1, <1>5, <3>1 DEF NodeInv, HeadsNext
    <3>3. GetAccount(accounts, u).nonce = Cardinality(P) + Cardinality(FailedOf(u))
      BY <1>5 DEF NodeInv, NoncesExplained
    <3>4. FailedOf(u) = {}
      BY <1>5 DEF NodeInv, FailuresMarked, FailedOf, PlacesOf
    <3>5. Cardinality(FailedOf(u)) = 0
      BY <3>4, FS_EmptySet
    <3>6. Cardinality(P) \in Nat
      BY <1>5, CountsType DEF NodeInv
    <3>7. QED
      BY <3>2, <3>3, <3>5, <3>6
  <2> HIDE DEF P, Q
  <2>5. CASE i = n + 1
    <3>1. u = from
      BY <1>3, <1>5, <2>1, <2>5 DEF Q
    <3>2. {j \in Q : j <= i} = P \cup {n + 1}
      <4>1. \A j \in P : j \in Int /\ j <= n + 1
        BY <1>3, <2>1
      <4>2. Q = P \cup {n + 1} /\ n + 1 <= n + 1
        BY <1>3, <2>1, <3>1
      <4>3. \A j : j \in Q => j <= n + 1
        BY <4>1, <4>2
      <4>4. QED
        BY <2>5, <4>2, <4>3
    <3>3. w[i].tx.nonce = t.nonce
      BY <1>2, <1>3, <2>5
    <3>4. QED
      BY <2>3, <2>4, <3>1, <3>2, <3>3 DEF Q
  <2>6. CASE i # n + 1
    <3>1. i \in P /\ i \in 1..n
      BY <1>5, <2>1, <2>6 DEF Q
    <3>2. {j \in Q : j <= i} = {j \in P : j <= i}
      BY <1>3, <2>1, <3>1
    <3>3. w[i] = Packed[i]
      BY <1>3, <3>1
    <3>4. QED
      BY <2>2, <3>1, <3>2, <3>3 DEF Q
  <2>7. QED
    BY <2>5, <2>6
<1>6. QED
  BY <1>1, <1>5 DEF BlocksInNonceOrder, w

\* A transaction that is executed and goes into the block.
LEMMA RunsKeeps ==
  ASSUME NodeInv, NodeTypes', NEW from \in User, NEW t \in Pool!Tx, Runs(from, t)
  PROVE  NodeInv'
<1> DEFINE e == [from |-> from, tx |-> t]
<1>1. /\ Takes(from, t)
      /\ ExecuteTransaction(from, VmTx(t))
      /\ Packed' = Append(Packed, e) /\ receiptions' = Append(receiptions, e)
      /\ Rewards' = Rewards
      /\ UNCHANGED <<failed, refused>>
  BY DEF Runs
<1>2. /\ Packed \in Seq(Item) /\ e \in Item /\ e.from = from
      /\ GasOf(e) = t.price * t.pay.limit
      /\ \A x \in Item : GasOf(x) \in Int
  BY Sequences DEF NodeInv, Item
<1> HIDE DEF e
<1>3. /\ Conservation' /\ Counts(accounts, accounts', from)
      /\ minted' = minted /\ burned' = burned + t.price * t.pay.limit
  BY <1>1, PaidFor
<1>4. ReceiptsFollowBlocks' /\ BlocksInNonceOrder'
  BY <1>1, RunsInOrder DEF NodeInv, ReceiptsFollowBlocks
<1>5. /\ FailuresMarked' /\ Gas(failed)' = Gas(failed)
      /\ Cardinality(FailedRewards)' = Cardinality(FailedRewards)
      /\ \A u \in User : Cardinality(FailedOf(u)') = Cardinality(FailedOf(u))
  BY <1>1, FailuresKept
<1>6. NoncesExplained'
  <2>1. ASSUME NEW u \in User
        PROVE  GetAccount(accounts', u).nonce =
                 Cardinality(PlacesOf(u, Packed')) + Cardinality(FailedOf(u)')
    <3>1. /\ GetAccount(accounts, u).nonce =
               Cardinality(PlacesOf(u, Packed)) + Cardinality(FailedOf(u))
          /\ Cardinality(PlacesOf(u, Packed)) \in Nat /\ Cardinality(FailedOf(u)) \in Nat
      BY CountsType DEF NodeInv, NoncesExplained
    <3>2. GetAccount(accounts', u).nonce =
            GetAccount(accounts, u).nonce + (IF u = from THEN 1 ELSE 0)
      BY <1>3 DEF Counts
    <3>3. Cardinality(PlacesOf(u, Append(Packed, e))) =
            Cardinality(PlacesOf(u, Packed)) + (IF e.from = u THEN 1 ELSE 0)
      BY <1>2, PlacesCount
    <3>4. Cardinality(PlacesOf(u, Packed')) =
            Cardinality(PlacesOf(u, Packed)) + (IF u = from THEN 1 ELSE 0)
      BY <1>1, <1>2, <3>3
    <3>5. Cardinality(FailedOf(u)') = Cardinality(FailedOf(u))
      BY <1>5
    <3>6. QED
      BY <3>1, <3>2, <3>4, <3>5
  <2>2. QED
    BY <2>1 DEF NoncesExplained
<1>7. RewardsExplained'
  BY <1>1, <1>3, <1>5 DEF NodeInv, RewardsExplained
<1>8. GasExplained'
  <2>1. burned = Gas(Packed) + Gas(failed)
    BY DEF NodeInv, GasExplained
  <2>2. Gas(Packed) \in Int /\ Gas(Append(Packed, e)) = Gas(Packed) + GasOf(e)
    BY <1>2, GasAppend
  <2>3. Gas(failed) \in Int
    <3>1. /\ failed \in Seq(Failure) /\ \A x \in Failure : GasOf(x) \in Int
          /\ [from |-> from, tx |-> NoTx] \in Failure
      BY Sequences DEF NodeInv, Failure
    <3>2. QED
      BY <3>1, GasAppend
  <2> DEFINE fee == t.price * t.pay.limit
             g == Gas(Packed)
             h == Gas(failed)
             b == burned
  <2>4. /\ b = g + h /\ b' = b + fee /\ h' = h /\ g' = g + fee
        /\ fee \in Int /\ g \in Int /\ h \in Int
    BY <1>1, <1>2, <1>3, <1>5, <2>1, <2>2, <2>3
  <2>5. b' = g' + h'
    <3> HIDE DEF fee, g, h, b
    <3>1. QED
      BY <2>4
  <2>6. QED
    BY <2>5 DEF GasExplained
<1>9. HeadsNext'
  <2>1. ASSUME NEW u \in User \ refused', Len(pending'[u]) # 0
        PROVE  pending'[u][1].firstnonce = GetAccount(accounts', u).nonce + 1
    <3>1. /\ u \in User \ refused
          /\ GetAccount(accounts', u).nonce =
               GetAccount(accounts, u).nonce + (IF u = from THEN 1 ELSE 0)
          /\ GetAccount(accounts, u).nonce \in Nat
      BY <1>1, <1>3, <2>1, CountsType DEF NodeInv, Counts
    <3>2. Len(pending[u]) # 0 =>
            pending[u][1].firstnonce = GetAccount(accounts, u).nonce + 1
      BY <3>1 DEF NodeInv, HeadsNext
    <3>3. CASE u = from
      <4>1. /\ Len(pending[u]) # 0
            /\ pending'[u][1].firstnonce = pending[u][1].firstnonce + 1
        BY <1>1, <2>1, <3>3 DEF Takes
      <4>2. QED
        BY <3>1, <3>2, <3>3, <4>1
    <3>4. CASE u # from
      <4>1. pending'[u] = pending[u]
        BY <1>1, <3>1, <3>4 DEF Takes
      <4>2. QED
        BY <2>1, <3>1, <3>2, <3>4, <4>1
    <3>5. QED
      BY <3>3, <3>4
  <2>2. QED
    BY <2>1 DEF HeadsNext
<1>10. QED
  BY <1>3, <1>4, <1>5, <1>6, <1>7, <1>8, <1>9 DEF NodeInv

\* At the start there is nothing to explain.
LEMMA InitNodeInv == Init => NodeInv
<1> SUFFICES ASSUME Init PROVE NodeInv
  OBVIOUS
<1>1. NodeTypes
  BY InitTypes
<1>2. /\ LedgerInit /\ pending = [u \in User |-> <<>>] /\ pc = "idle"
      /\ nextBody = <<>> /\ receiptions = <<>> /\ blocks = <<>> /\ failed = <<>>
  BY DEF Init
<1>3. /\ accounts = [x \in Address |-> Missing]
      /\ minted = 0 /\ burned = 0 /\ lost = 0
  BY <1>2 DEF LedgerInit
<1>4. Packed = <<>>
  BY <1>2, FlattenEmpty DEF Packed
<1>5. Conservation
  BY <1>2, ConservedAtFirst
<1>6. Len(<<>>) = 0 /\ DOMAIN <<>> = {} /\ \A x : x \notin DOMAIN <<>>
  OBVIOUS
<1>7. Rewards = 0 /\ FailedRewards = {} /\ \A u : PlacesOf(u, <<>>) = {} /\ FailedOf(u) = {}
  BY <1>2, <1>6 DEF Rewards, FailedRewards, PlacesOf, FailedOf
<1>8. Cardinality({}) = 0
  BY FS_EmptySet
<1>9. NoncesExplained
  <2>1. \A u \in User : GetAccount(accounts, u).nonce = 0
    BY <1>3 DEF GetAccount, Address
  <2>2. \A u \in User : Cardinality(PlacesOf(u, Packed)) = 0 /\ Cardinality(FailedOf(u)) = 0
    BY <1>4, <1>7, <1>8
  <2>3. QED
    BY <2>1, <2>2 DEF NoncesExplained
<1>10. RewardsExplained
  BY <1>3, <1>7, <1>8, LedgerAssumption DEF RewardsExplained
<1>11. GasExplained
  <2>1. Gas(<<>>) = 0
    BY <1>6, SumEmpty DEF Gas, SumFunction
  <2>2. QED
    BY <1>2, <1>3, <1>4, <2>1 DEF GasExplained
<1>12. ReceiptsFollowBlocks /\ FailuresMarked /\ HeadsNext /\ BlocksInNonceOrder
  BY <1>2, <1>4, <1>6, <1>7
  DEF ReceiptsFollowBlocks, FailuresMarked, HeadsNext, BlocksInNonceOrder
<1>13. QED
  BY <1>1, <1>5, <1>9, <1>10, <1>11, <1>12 DEF NodeInv

\* Every step keeps the invariant.
LEMMA StepNodeInv ==
  ASSUME NodeInv, [Next]_vars
  PROVE  NodeInv'
<1>1. NodeTypes /\ NodeTypes'
  BY StepTypes DEF NodeInv
<1>2. CASE Quiet
  BY <1>1, <1>2, QuietKeeps
<1>3. ASSUME NEW m \in User, Rewarded(m) \/ Unrewarded(m)
      PROVE  NodeInv'
  BY <1>1, <1>3, RewardedKeeps, UnrewardedKeeps
<1>4. ASSUME NEW from \in User, NEW t \in Pool!Tx,
             Loses(from, t) \/ Runs(from, t) \/ Fails(from, t)
      PROVE  NodeInv'
  BY <1>1, <1>4, LosesKeeps, RunsKeeps, FailsKeeps
<1>5. QED
  BY <1>1, <1>2, <1>3, <1>4, StepEffect

\* The inductive invariant of a node holds in all its behaviours.
THEOREM NodeInvariant == Spec => []NodeInv
<1>1. Init => NodeInv
  BY InitNodeInv
<1>2. NodeInv /\ [Next]_vars => NodeInv'
  BY StepNodeInv
<1>3. QED
  BY <1>1, <1>2, PTL DEF Spec

\* The chain and the failures of the database explain the nonces and the
\* money: nothing the VM executed is missing from the blocks or in them twice.
THEOREM NodeExplained == Spec => []BlocksExplainState
<1>1. NodeInv => BlocksExplainState
  <2> SUFFICES ASSUME NodeInv PROVE BlocksExplainState
    OBVIOUS
  <2>1. \A u \in User :
          GetAccount(accounts, u).nonce =
            Cardinality(PlacesOf(u, Packed))
              + Cardinality({i \in PlacesOf(u, failed) : failed[i].tx # NoTx})
    BY DEF NodeInv, NoncesExplained, FailedOf
  <2>2. minted = MintAmount * (Len(blocks) + (IF pc = "idle" THEN 0 ELSE 1)
                                 - Cardinality({i \in DOMAIN failed : failed[i].tx = NoTx}))
    <3>1. minted = MintAmount * (Rewards - Cardinality(FailedRewards))
      BY DEF NodeInv, RewardsExplained
    <3>2. /\ Rewards = Len(blocks) + (IF pc = "idle" THEN 0 ELSE 1)
          /\ FailedRewards = {i \in DOMAIN failed : failed[i].tx = NoTx}
      BY DEF Rewards, FailedRewards
    <3> DEFINE k == IF pc = "idle" THEN 0 ELSE 1
               c == Cardinality(FailedRewards)
    <3>3. k \in Nat /\ c \in Nat /\ Len(blocks) \in Nat
      <4>1. FailedRewards \subseteq 1..Len(failed) /\ Len(failed) \in Nat
        BY LenProperties DEF NodeInv, NodeTypes, FailedRewards
      <4>2. QED
        BY <4>1, OneMore, Sequences DEF NodeInv
    <3>4. Rewards - c = Len(blocks) + (k - c)
      <4>1. Rewards = Len(blocks) + k
        BY <3>2
      <4> HIDE DEF k, c
      <4>2. QED
        BY <3>3, <4>1
    <3>5. minted = MintAmount * (Len(blocks) + (k - c))
      BY <3>1, <3>4
    <3>6. QED
      BY <3>2, <3>5
  <2>3. burned = Gas(Packed) + Gas(failed)
    BY DEF NodeInv, GasExplained
  <2>4. (Supply - (minted - burned - lost)) % Word = 0
    BY DEF NodeInv, Conservation
  <2>5. QED
    BY <2>1, <2>2, <2>3, <2>4 DEF BlocksExplainState
<1>2. QED
  BY <1>1, NodeInvariant, PTL

\* The blocks hold the transactions of a user in the order of the nonces, as
\* long as the VM has refused none of them.
THEOREM NodeInNonceOrder == Spec => []BlocksInNonceOrder
<1>1. NodeInv => BlocksInNonceOrder
  BY DEF NodeInv
<1>2. QED
  BY <1>1, NodeInvariant, PTL

\* The receipts follow the blocks.
THEOREM NodeReceipts == Spec => []ReceiptsFollowBlocks
<1>1. NodeInv => ReceiptsFollowBlocks
  BY DEF NodeInv
<1>2. QED
  BY <1>1, NodeInvariant, PTL

=============================================================================
