---------------------------- MODULE TxPool_proof ----------------------------
(***************************************************************************)
(* Proofs about the transaction pool for any accounts, nonces and prices:  *)
(* first while no nonce that is pending is resubmitted, then whatever      *)
(* clients resubmit and the VM refuses.                                    *)
(***************************************************************************)
EXTENDS TxPool, FoldLemmas, TLAPS

\* A box.
Box == [id : Nat \ {0}, txs : Seq(Tx), firstnonce : Nonce, lastnonce : Nonce,
        gasprice : Price]

\* An entry of the index.
Entry == [addr : Addr, price : Price]

\* A box is a run of consecutive nonces that pay its price.
BoxRun(b) ==
  /\ Len(b.txs) # 0
  /\ b.lastnonce = b.firstnonce + (Len(b.txs) - 1)
  /\ \A j \in 1..Len(b.txs) : /\ b.txs[j].nonce = b.firstnonce + (j - 1)
                              /\ b.txs[j].price >= b.gasprice

\* The boxes of an account continue each other, get cheaper, and are no aliases.
BoxesRun(bs) ==
  /\ \A i \in 1..Len(bs) : BoxRun(bs[i])
  /\ \A i \in 1..Len(bs) - 1 : bs[i + 1].firstnonce = bs[i].lastnonce + 1
  /\ \A i, j \in 1..Len(bs) : i < j => bs[j].gasprice < bs[i].gasprice
  /\ \A i, j \in 1..Len(bs) : bs[i].id = bs[j].id => i = j

\* The index is ordered by price.
Ordered(index) ==
  \A i, j \in 1..Len(index) : i <= j => index[i].price <= index[j].price

\* The index has an entry for each box of a.
Covers(index, a, bs) ==
  \A i \in 1..Len(bs) : \E k \in 1..Len(index) :
    index[k] = [addr |-> a, price |-> bs[i].gasprice]

\* While no pending nonce is resubmitted nothing panics, and the boxes of each
\* account stay a run the index covers.
BoxesInv ==
  /\ pending \in [Addr -> Seq(Box)]
  /\ queue \in [Addr -> SUBSET Tx]
  /\ Sortedboxes \in Seq(Entry)
  /\ crashed = FALSE
  /\ Ordered(Sortedboxes)
  /\ \A a \in Addr : /\ BoxesRun(pending[a])
                     /\ Covers(Sortedboxes, a, pending[a])

\* The queued transactions.
QueueOK == queue \in [Addr -> SUBSET Tx]

\* The inductive invariant; the pool never needs to know more of the accounts.
PoolInv ==
  /\ exists \subseteq Addr
  /\ nonce \in [Addr -> Nat]
  /\ popped \in [Addr -> 0..MaxNonce]
  /\ failed \subseteq Addr
  /\ BoxesInv

-----------------------------------------------------------------------------
(* Boxes *)

\* A new box is a run of one nonce.
LEMMA NewTxBoxRun ==
  ASSUME NEW id \in Nat \ {0}, NEW t \in Tx
  PROVE  LET b == NewTxBox(id, t)
         IN  /\ b \in Box /\ BoxRun(b) /\ b.id = id
             /\ b.firstnonce = t.nonce /\ b.lastnonce = t.nonce
             /\ b.gasprice = t.price
<1> DEFINE b == NewTxBox(id, t)
<1>1. t.nonce \in Nonce /\ t.price \in Price /\ <<t>> \in Seq(Tx)
  BY DEF Tx
<1>2. b.txs = <<t>> /\ Len(<<t>>) = 1 /\ <<t>>[1] = t
  BY DEF NewTxBox
<1>3. b \in Box
  BY <1>1 DEF NewTxBox, Box
<1>4. BoxRun(b)
  BY <1>1, <1>2 DEF NewTxBox, BoxRun, Nonce, Price
<1>5. QED
  BY <1>3, <1>4 DEF NewTxBox

\* Writing a box's transactions and its first or last nonce gives a box.
LEMMA BoxWrite ==
  ASSUME NEW b \in Box, NEW txs \in Seq(Tx), NEW n \in Nonce
  PROVE  /\ [b EXCEPT !.txs = txs, !.firstnonce = n] \in Box
         /\ [b EXCEPT !.txs = txs, !.lastnonce = n] \in Box
BY DEF Box

\* A box stays a run when the next nonce joins it.
LEMMA EnqueueRun ==
  ASSUME NEW b \in Box, BoxRun(b), NEW t \in Tx,
         t.nonce = b.lastnonce + 1, t.price >= b.gasprice
  PROVE  LET c == Enqueue(b, t)
         IN  /\ c \in Box /\ BoxRun(c) /\ c.id = b.id
             /\ c.firstnonce = b.firstnonce /\ c.lastnonce = t.nonce
             /\ c.gasprice = b.gasprice
<1> DEFINE c == Enqueue(b, t)
           txs == Append(b.txs, t)
           n == Len(b.txs)
<1>1. /\ c.id = b.id /\ c.txs = txs /\ c.firstnonce = b.firstnonce
      /\ c.lastnonce = b.lastnonce + 1 /\ c.gasprice = b.gasprice
  BY DEF Enqueue, Box
<1>2. /\ b.txs \in Seq(Tx) /\ b.firstnonce \in Nat /\ b.lastnonce \in Nat
      /\ b.gasprice \in Nat /\ t.nonce \in Nonce /\ t.price \in Nat
  BY DEF Box, Tx, Nonce, Price
<1>3. /\ txs \in Seq(Tx) /\ n \in Nat /\ Len(txs) = n + 1
      /\ \A j \in 1..n : txs[j] = b.txs[j]
      /\ txs[n + 1] = t
  BY <1>2, AppendProperties, LenProperties
<1>4. c \in Box
  <2> DEFINE last == b.lastnonce + 1
  <2>1. c = [b EXCEPT !.txs = txs, !.lastnonce = last]
    BY DEF Enqueue, Box
  <2>2. last \in Nonce
    BY <1>2
  <2> HIDE DEF txs, c, last
  <2>3. QED
    BY <1>3, <2>1, <2>2, BoxWrite
<1>5. BoxRun(c)
  <2>1. /\ n # 0 /\ b.lastnonce = b.firstnonce + (n - 1)
        /\ \A j \in 1..n : /\ b.txs[j].nonce = b.firstnonce + (j - 1)
                           /\ b.txs[j].price >= b.gasprice
    BY DEF BoxRun
  <2> HIDE DEF c, txs, n
  <2>2. Len(c.txs) # 0
    BY <1>1, <1>3
  <2>3. c.lastnonce = c.firstnonce + (Len(c.txs) - 1)
    BY <1>1, <1>2, <1>3, <2>1
  <2>4. ASSUME NEW j \in 1..Len(c.txs)
        PROVE  c.txs[j].nonce = c.firstnonce + (j - 1) /\ c.txs[j].price >= c.gasprice
    <3>1. CASE j = n + 1
      BY <1>1, <1>2, <1>3, <2>1, <3>1
    <3>2. CASE j # n + 1
      <4>1. j \in 1..n
        BY <1>1, <1>3, <2>4, <3>2
      <4>2. QED
        BY <1>1, <1>3, <2>1, <4>1
    <3>3. QED
      BY <3>1, <3>2
  <2>5. QED
    BY <2>2, <2>3, <2>4 DEF BoxRun
<1>6. QED
  BY <1>1, <1>4, <1>5

\* There is a free id for one box more, and it is taken.
LEMMA FreshIdFree ==
  ASSUME NEW X, NEW bs \in Seq(X)
  PROVE  /\ FreshId(bs) \in 1..Len(bs) + 1
         /\ \A i \in 1..Len(bs) : bs[i].id # FreshId(bs)
<1> DEFINE n == Len(bs)
           Free == {i \in 1..n + 1 : \A b \in ToSet(bs) : b.id # i}
<1>1. n \in Nat /\ DOMAIN bs = 1..n /\ \A i \in 1..n : bs[i] \in X
  BY LenProperties, ElementOfSeq
<1>2. ToSet(bs) = {bs[i] : i \in 1..n}
  BY <1>1 DEF ToSet
<1>3. Free # {}
  <2>1. SUFFICES ASSUME Free = {} PROVE FALSE
    OBVIOUS
  <2> HIDE DEF n
  <2>2. \A k \in 1..n + 1 : \E i \in 1..n : bs[i].id = k
    BY <1>2, <2>1
  <2> DEFINE f == [k \in 1..n + 1 |-> CHOOSE i \in 1..n : bs[i].id = k]
  <2>3. \A k \in 1..n + 1 : f[k] \in 1..n /\ bs[f[k]].id = k
    BY <2>2
  <2>4. f \in [1..n + 1 -> 1..n]
    BY <2>3
  <2>5. /\ IsFiniteSet(1..n + 1) /\ Cardinality(1..n + 1) = n + 1
        /\ IsFiniteSet(1..n) /\ Cardinality(1..n) = n
    BY <1>1, FS_Interval
  <2> HIDE DEF f
  <2>6. n < n + 1
    BY <1>1
  <2>7. \E k, l \in 1..n + 1 : k # l /\ f[k] = f[l]
    BY <2>4, <2>5, <2>6, FS_PigeonHole
  <2>8. QED
    BY <2>3, <2>7
<1>4. PICK i \in Free : \A k \in Free : i <= k
  <2>1. Free \subseteq Nat
    BY <1>1
  <2> HIDE DEF Free
  <2>2. QED
    BY <1>3, <2>1, LeastNatural
<1>5. /\ i \in 1..n + 1
      /\ \A b \in ToSet(bs) : b.id # i
      /\ \A j \in 1..i - 1 : \E b \in ToSet(bs) : b.id = j
  <2>1. ASSUME NEW j \in 1..i - 1 PROVE \E b \in ToSet(bs) : b.id = j
    <3>1. j \in 1..n + 1 /\ ~(i <= j)
      BY <1>1, <1>4
    <3>2. QED
      BY <1>4, <3>1
  <2>2. QED
    BY <1>4, <2>1
<1>6. /\ FreshId(bs) \in 1..n + 1
      /\ \A b \in ToSet(bs) : b.id # FreshId(bs)
  BY <1>5 DEF FreshId
<1>7. QED
  BY <1>2, <1>6

\* So it is for boxes.
LEMMA FreshIdFresh ==
  ASSUME NEW bs \in Seq(Box)
  PROVE  /\ FreshId(bs) \in 1..Len(bs) + 1
         /\ \A i \in 1..Len(bs) : bs[i].id # FreshId(bs)
BY FreshIdFree

\* Without aliases a write through a box pointer changes one place.
LEMMA WriteBoxOne ==
  ASSUME NEW bs \in Seq(Box), \A i, j \in 1..Len(bs) : bs[i].id = bs[j].id => i = j,
         NEW i \in 1..Len(bs), NEW b \in Box, b.id = bs[i].id
  PROVE  /\ WriteBox(bs, b) \in Seq(Box)
         /\ Len(WriteBox(bs, b)) = Len(bs)
         /\ \A j \in 1..Len(bs) : WriteBox(bs, b)[j] = IF j = i THEN b ELSE bs[j]
<1>1. DOMAIN bs = 1..Len(bs) /\ Len(bs) \in Nat /\ \A j \in 1..Len(bs) : bs[j] \in Box
  BY LenProperties, ElementOfSeq
<1>2. WriteBox(bs, b) = [bs EXCEPT ![i] = b]
  <2>1. WriteBox(bs, b) = [j \in 1..Len(bs) |-> IF bs[j].id = b.id THEN b ELSE bs[j]]
    BY <1>1 DEF WriteBox
  <2>2. [bs EXCEPT ![i] = b] = [j \in 1..Len(bs) |-> IF j = i THEN b ELSE bs[j]]
    BY <1>1
  <2>3. \A j \in 1..Len(bs) : bs[j].id = b.id <=> j = i
    OBVIOUS
  <2>4. QED
    BY <2>1, <2>2, <2>3
<1>3. QED
  BY <1>2, ExceptSeq

-----------------------------------------------------------------------------
(* The index *)

\* Where the index is ordered, the entries not above a price are its first ones.
LEMMA CheaperFirst ==
  ASSUME NEW index \in Seq(Entry), Ordered(index), NEW p \in Price
  PROVE  LET cheaper == {i \in DOMAIN index : index[i].price <= p}
         IN  /\ Cardinality(cheaper) \in 0..Len(index)
             /\ \A i \in 1..Len(index) :
                  index[i].price <= p <=> i <= Cardinality(cheaper)
<1> DEFINE n == Len(index)
           cheaper == {i \in DOMAIN index : index[i].price <= p}
           C == {c \in 0..n : c + 1 \notin cheaper}
<1>1. n \in Nat /\ DOMAIN index = 1..n /\ \A i \in 1..n : index[i].price \in Nat
  <2>1. \A i \in 1..n : index[i] \in Entry
    BY ElementOfSeq
  <2>2. \A e \in Entry : e.price \in Nat
    BY DEF Entry, Price
  <2>3. QED
    BY <2>1, <2>2, LenProperties
<1>2. p \in Nat
  BY DEF Price
<1>3. n \in C
  BY <1>1
<1>4. PICK c \in C : \A k \in C : c <= k
  <2>1. C \subseteq Nat /\ C # {}
    BY <1>1, <1>3
  <2> HIDE DEF C
  <2>2. QED
    BY <2>1, LeastNatural
<1>5. c \in 0..n /\ c + 1 \notin cheaper
  BY <1>4
<1>6. ASSUME NEW i \in 1..n PROVE i \in cheaper <=> i <= c
  <2>1. ASSUME i <= c PROVE i \in cheaper
    <3>1. i - 1 \in 0..n /\ ~(c <= i - 1)
      BY <1>1, <1>5, <2>1
    <3>2. i - 1 \notin C
      BY <1>4, <3>1
    <3>3. QED
      BY <1>1, <3>1, <3>2
  <2>2. ASSUME i > c, i \in cheaper PROVE FALSE
    <3>1. c + 1 \in 1..n /\ c + 1 <= i
      BY <1>1, <1>5, <2>2
    <3>2. index[c + 1].price <= index[i].price
      BY <3>1 DEF Ordered
    <3>3. index[c + 1].price <= p
      BY <1>1, <1>2, <2>2, <3>1, <3>2
    <3>4. QED
      BY <1>1, <1>5, <3>1, <3>3
  <2>3. QED
    BY <1>1, <1>5, <2>1, <2>2
<1>7. cheaper = 1..c
  BY <1>1, <1>5, <1>6
<1>8. Cardinality(cheaper) = c
  <2>1. c \in Nat
    BY <1>1, <1>5
  <2>2. Cardinality(1..c) = c
    BY <2>1, FS_Interval
  <2>3. QED
    BY <1>7, <2>2
<1> HIDE DEF cheaper
<1>9. \A i \in 1..n : index[i].price <= p <=> i <= c
  BY <1>1, <1>6 DEF cheaper
<1>10. QED
  BY <1>5, <1>8, <1>9 DEF cheaper

\* Sorting in keeps the order and the entries, and adds one for the box.
LEMMA SortInOrdered ==
  ASSUME NEW index \in Seq(Entry), Ordered(index), NEW a \in Addr,
         NEW b, b.gasprice \in Price
  PROVE  LET x == SortIn(index, a, b)
         IN  /\ x \in Seq(Entry) /\ Ordered(x)
             /\ \E k \in 1..Len(x) : x[k] = [addr |-> a, price |-> b.gasprice]
             /\ \A i \in 1..Len(index) : \E k \in 1..Len(x) : x[k] = index[i]
<1> DEFINE n == Len(index)
           c == Cardinality({i \in DOMAIN index : index[i].price <= b.gasprice})
           e == [addr |-> a, price |-> b.gasprice]
           x == SortIn(index, a, b)
<1>1. n \in Nat /\ e \in Entry /\ b.gasprice \in Nat /\ e.price = b.gasprice
  BY LenProperties DEF Entry, Price
<1>2. c \in 0..n /\ \A i \in 1..n : index[i].price <= b.gasprice <=> i <= c
  BY CheaperFirst
<1>3. x = InsertAt(index, c + 1, e)
  BY DEF SortIn
<1> HIDE DEF c, e, x
<1>4. /\ x \in Seq(Entry) /\ Len(x) = n + 1
      /\ \A j \in 1..n + 1 :
           x[j] = IF j <= c THEN index[j] ELSE IF j = c + 1 THEN e ELSE index[j - 1]
  <2>1. c \in 0..Len(index)
    BY <1>2
  <2> DEFINE y == InsertAt(index, c + 1, e)
  <2>2. /\ y \in Seq(Entry) /\ Len(y) = Len(index) + 1
        /\ \A j \in 1..Len(index) + 1 :
             y[j] = IF j <= c THEN index[j] ELSE IF j = c + 1 THEN e ELSE index[j - 1]
    <3>1. e \in Entry
      BY <1>1
    <3> HIDE DEF n
    <3>2. QED
      BY <2>1, <3>1, InsertAtProperties
  <2> HIDE DEF y
  <2>3. QED
    BY <1>3, <2>2 DEF y
<1>5. \A i \in 1..n : index[i].price \in Nat
  <2>1. \A i \in 1..n : index[i] \in Entry
    BY ElementOfSeq
  <2>2. QED
    BY <2>1 DEF Entry, Price
<1> HIDE DEF n
<1>6. x[c + 1] = e /\ c + 1 \in 1..n + 1
  BY <1>1, <1>2, <1>4
<1>7. ASSUME NEW i \in 1..n PROVE \E k \in 1..n + 1 : x[k] = index[i]
  <2>1. CASE i <= c
    BY <1>1, <1>2, <1>4, <2>1
  <2>2. CASE i > c
    <3>1. i + 1 \in 1..n + 1 /\ x[i + 1] = index[i]
      BY <1>1, <1>2, <1>4, <2>2
    <3>2. QED
      BY <3>1
  <2>3. QED
    BY <1>1, <1>2, <2>1, <2>2
<1>8. ASSUME NEW i \in 1..n + 1, NEW j \in 1..n + 1, i <= j
      PROVE  x[i].price <= x[j].price
  <2>1. \A k \in 1..n + 1 :
          /\ k <= c => x[k] = index[k] /\ k \in 1..n
          /\ k = c + 1 => x[k] = e
          /\ k > c + 1 => x[k] = index[k - 1] /\ k - 1 \in 1..n
    BY <1>1, <1>2, <1>4
  <2>2. \A k, l \in 1..n : k <= l => index[k].price <= index[l].price
    BY DEF Ordered, n
  <2>3. CASE j <= c
    BY <1>1, <1>2, <1>8, <2>1, <2>2, <2>3
  <2>4. CASE j = c + 1
    <3>1. CASE i = j
      BY <1>1, <1>6, <2>4, <3>1
    <3>2. CASE i <= c
      BY <1>1, <1>2, <1>6, <2>1, <2>4, <3>2
    <3>3. QED
      BY <1>1, <1>2, <1>8, <2>4, <3>1, <3>2
  <2>5. CASE j > c + 1
    <3>1. x[j] = index[j - 1] /\ j - 1 \in 1..n /\ ~(j - 1 <= c)
      BY <1>1, <1>2, <2>1, <2>5
    <3>2. CASE i <= c
      BY <1>1, <1>2, <2>1, <2>2, <3>1, <3>2
    <3>3. CASE i = c + 1
      BY <1>1, <1>2, <1>5, <1>6, <3>1, <3>3
    <3>4. CASE i > c + 1
      BY <1>1, <1>2, <1>8, <2>1, <2>2, <3>1, <3>4
    <3>5. QED
      BY <1>1, <1>2, <3>2, <3>3, <3>4
  <2>6. QED
    BY <1>1, <1>2, <2>3, <2>4, <2>5
<1>9. Ordered(x)
  BY <1>4, <1>8 DEF Ordered
<1>10. QED
  BY <1>4, <1>6, <1>7, <1>9 DEF n, e, x

-----------------------------------------------------------------------------
(* Placing transactions *)

\* What is placed into: the boxes of an account and the index.
Lot == [boxes : Seq(Box), index : Seq(Entry)]

\* The parts of the invariant that a placement may disturb.
LotInv(a, p) ==
  /\ p \in Lot
  /\ BoxesRun(p.boxes)
  /\ Ordered(p.index)
  /\ Covers(p.index, a, p.boxes)

\* The boxes bs, after the nonces from n to m were placed, are cs.
Longer(bs, cs, n, m) ==
  /\ Len(cs) # 0
  /\ cs[Len(cs)].lastnonce = m
  /\ cs[1].firstnonce = IF Len(bs) = 0 THEN n ELSE bs[1].firstnonce
  /\ Len(bs) <= Len(cs)
  /\ \A i \in 1..Len(cs) :
       \/ cs[i].id <= Len(cs)
       \/ \E j \in 1..Len(bs) : cs[i].id = bs[j].id

\* No entry of an index is missing in another.
Keeps(index, index2) ==
  \A i \in 1..Len(index) : \E k \in 1..Len(index2) : index2[k] = index[i]

\* The fields of a box in a sequence.
LEMMA BoxesType ==
  ASSUME NEW bs \in Seq(Box)
  PROVE  /\ Len(bs) \in Nat /\ DOMAIN bs = 1..Len(bs)
         /\ \A i \in 1..Len(bs) :
              /\ bs[i] \in Box /\ bs[i].id \in Nat \ {0} /\ bs[i].txs \in Seq(Tx)
              /\ bs[i].firstnonce \in Nat /\ bs[i].lastnonce \in Nat
              /\ bs[i].gasprice \in Nat /\ bs[i].gasprice \in Price
              /\ bs[i].firstnonce \in Nonce /\ bs[i].lastnonce \in Nonce
<1>1. Len(bs) \in Nat /\ DOMAIN bs = 1..Len(bs) /\ \A i \in 1..Len(bs) : bs[i] \in Box
  BY LenProperties, ElementOfSeq
<1>2. \A b \in Box :
        /\ b.id \in Nat \ {0} /\ b.txs \in Seq(Tx)
        /\ b.firstnonce \in Nat /\ b.lastnonce \in Nat
        /\ b.gasprice \in Nat /\ b.gasprice \in Price
        /\ b.firstnonce \in Nonce /\ b.lastnonce \in Nonce
  BY DEF Box, Nonce, Price
<1>3. QED
  BY <1>1, <1>2

\* A transaction that joins the last box.
LEMMA JoinRun ==
  ASSUME NEW bs \in Seq(Box), BoxesRun(bs), Len(bs) # 0, NEW t \in Tx,
         t.nonce = bs[Len(bs)].lastnonce + 1, t.price >= bs[Len(bs)].gasprice
  PROVE  LET cs == WriteBox(bs, Enqueue(bs[Len(bs)], t))
         IN  /\ cs \in Seq(Box) /\ BoxesRun(cs) /\ Longer(bs, cs, t.nonce, t.nonce)
             /\ Len(cs) = Len(bs)
             /\ \A i \in 1..Len(bs) : cs[i].gasprice = bs[i].gasprice
<1> DEFINE n == Len(bs)
           b == bs[n]
           c == Enqueue(b, t)
           cs == WriteBox(bs, c)
<1>1. /\ n \in Nat \ {0} /\ n \in 1..n
      /\ \A i \in 1..n : /\ bs[i] \in Box /\ bs[i].firstnonce \in Nat
                         /\ bs[i].lastnonce \in Nat /\ bs[i].gasprice \in Nat
  BY BoxesType
<1>2. b \in Box /\ BoxRun(b)
  BY <1>1 DEF BoxesRun
<1>3. /\ c \in Box /\ BoxRun(c) /\ c.id = b.id
      /\ c.firstnonce = b.firstnonce /\ c.lastnonce = t.nonce
      /\ c.gasprice = b.gasprice
  <2> HIDE DEF b
  <2>1. t.nonce = b.lastnonce + 1 /\ t.price >= b.gasprice
    BY DEF b
  <2>2. QED
    BY <1>2, <2>1, EnqueueRun
<1>4. /\ cs \in Seq(Box) /\ Len(cs) = n
      /\ \A j \in 1..n : cs[j] = IF j = n THEN c ELSE bs[j]
  <2>1. \A i, j \in 1..Len(bs) : bs[i].id = bs[j].id => i = j
    BY DEF BoxesRun
  <2>2. c.id = bs[n].id
    BY <1>3
  <2> HIDE DEF c, b
  <2>3. QED
    BY <1>1, <1>3, <2>1, <2>2, WriteBoxOne
<1>5. \A j \in 1..n : /\ cs[j].id = bs[j].id
                      /\ cs[j].firstnonce = bs[j].firstnonce
                      /\ cs[j].gasprice = bs[j].gasprice
                      /\ j # n => cs[j].lastnonce = bs[j].lastnonce
                      /\ j = n => cs[j].lastnonce = t.nonce
                      /\ BoxRun(cs[j])
  BY <1>3, <1>4 DEF BoxesRun
<1> HIDE DEF cs, c, b
<1>6. BoxesRun(cs)
  <2> HIDE DEF n
  <2>1. \A i \in 1..n - 1 : i \in 1..n /\ i + 1 \in 1..n /\ i # n
    BY <1>1
  <2>2. \A i \in 1..n - 1 : cs[i + 1].firstnonce = cs[i].lastnonce + 1
    BY <1>5, <2>1 DEF BoxesRun, n
  <2>3. \A i, j \in 1..n : i < j => cs[j].gasprice < cs[i].gasprice
    BY <1>5 DEF BoxesRun, n
  <2>4. \A i, j \in 1..n : cs[i].id = cs[j].id => i = j
    BY <1>5 DEF BoxesRun, n
  <2>5. QED
    BY <1>4, <1>5, <2>2, <2>3, <2>4 DEF BoxesRun
<1>7. Longer(bs, cs, t.nonce, t.nonce)
  BY <1>1, <1>4, <1>5 DEF Longer
<1>8. QED
  BY <1>4, <1>5, <1>6, <1>7 DEF cs, c, b

\* A transaction that opens a box.
LEMMA OpenRun ==
  ASSUME NEW bs \in Seq(Box), BoxesRun(bs), NEW t \in Tx,
         Len(bs) # 0 =>
           t.nonce = bs[Len(bs)].lastnonce + 1 /\ ~(t.price >= bs[Len(bs)].gasprice)
  PROVE  LET cs == Append(bs, NewTxBox(FreshId(bs), t))
         IN  /\ cs \in Seq(Box) /\ BoxesRun(cs) /\ Longer(bs, cs, t.nonce, t.nonce)
             /\ Len(cs) = Len(bs) + 1
             /\ \A i \in 1..Len(bs) : cs[i].gasprice = bs[i].gasprice
             /\ cs[Len(bs) + 1].gasprice = NewTxBox(FreshId(bs), t).gasprice
             /\ NewTxBox(FreshId(bs), t).gasprice \in Price
<1> DEFINE n == Len(bs)
           id == FreshId(bs)
           c == NewTxBox(id, t)
           cs == Append(bs, c)
<1>1. /\ n \in Nat
      /\ \A i \in 1..n : /\ bs[i] \in Box /\ bs[i].firstnonce \in Nat
                         /\ bs[i].lastnonce \in Nat /\ bs[i].gasprice \in Nat
  BY BoxesType
<1>2. id \in 1..n + 1 /\ \A i \in 1..n : bs[i].id # id
  BY FreshIdFresh
<1>3. /\ c \in Box /\ BoxRun(c) /\ c.id = id
      /\ c.firstnonce = t.nonce /\ c.lastnonce = t.nonce
      /\ c.gasprice = t.price
  <2>1. id \in Nat \ {0}
    BY <1>1, <1>2
  <2> HIDE DEF id
  <2>2. QED
    BY <2>1, NewTxBoxRun
<1>4. t.price \in Price /\ t.price \in Nat /\ t.nonce \in Nat
  BY DEF Tx, Price, Nonce
<1> HIDE DEF c, id
<1>5. /\ cs \in Seq(Box) /\ Len(cs) = n + 1
      /\ \A i \in 1..n : cs[i] = bs[i]
      /\ cs[n + 1] = c
  BY <1>3, AppendProperties
<1> HIDE DEF cs
<1>6. /\ \A i \in 1..n : BoxRun(bs[i])
      /\ \A i \in 1..n - 1 : bs[i + 1].firstnonce = bs[i].lastnonce + 1
      /\ \A i, j \in 1..n : i < j => bs[j].gasprice < bs[i].gasprice
      /\ \A i, j \in 1..n : bs[i].id = bs[j].id => i = j
  BY DEF BoxesRun
<1>7. n # 0 => t.nonce = bs[n].lastnonce + 1 /\ ~(t.price >= bs[n].gasprice)
  OBVIOUS
<1> HIDE DEF n
<1>8. BoxesRun(cs)
  <2>1. ASSUME NEW i \in 1..n + 1 PROVE BoxRun(cs[i])
    <3>1. i \in 1..n \/ i = n + 1
      BY <1>1
    <3>2. QED
      BY <1>3, <1>5, <1>6, <3>1
  <2>2. ASSUME NEW i \in 1..n PROVE cs[i + 1].firstnonce = cs[i].lastnonce + 1
    <3>1. CASE i = n
      BY <1>1, <1>3, <1>5, <1>7, <3>1
    <3>2. CASE i # n
      <4>1. i \in 1..n - 1 /\ i + 1 \in 1..n
        BY <1>1, <3>2
      <4>2. QED
        BY <1>5, <1>6, <4>1
    <3>3. QED
      BY <3>1, <3>2
  <2>3. ASSUME NEW i \in 1..n + 1, NEW j \in 1..n + 1, i < j
        PROVE  cs[j].gasprice < cs[i].gasprice
    <3>1. CASE j = n + 1
      <4>1. i \in 1..n /\ n # 0 /\ n \in 1..n
        BY <1>1, <2>3, <3>1
      <4>2. t.price < bs[n].gasprice
        BY <1>1, <1>4, <1>7, <4>1
      <4>3. bs[n].gasprice <= bs[i].gasprice
        <5>1. i = n \/ i < n
          BY <1>1, <4>1
        <5>2. i < n => bs[n].gasprice < bs[i].gasprice
          BY <1>6, <4>1
        <5>3. QED
          BY <1>1, <4>1, <5>1, <5>2
      <4>4. QED
        BY <1>1, <1>3, <1>4, <1>5, <3>1, <4>1, <4>2, <4>3
    <3>2. CASE j # n + 1
      <4>1. i \in 1..n /\ j \in 1..n
        BY <1>1, <2>3, <3>2
      <4>2. QED
        BY <1>5, <1>6, <2>3, <4>1
    <3>3. QED
      BY <3>1, <3>2
  <2>4. ASSUME NEW i \in 1..n + 1, NEW j \in 1..n + 1, cs[i].id = cs[j].id
        PROVE  i = j
    <3>1. \A k \in 1..n + 1 : k \in 1..n \/ k = n + 1
      BY <1>1
    <3>2. QED
      BY <1>2, <1>3, <1>5, <1>6, <2>4, <3>1
  <2>5. (n + 1) - 1 = n
    BY <1>1
  <2>6. QED
    BY <1>5, <2>1, <2>2, <2>3, <2>4, <2>5 DEF BoxesRun
<1>9. Longer(bs, cs, t.nonce, t.nonce)
  <2>1. /\ Len(cs) # 0 /\ n <= Len(cs) /\ cs[Len(cs)].lastnonce = t.nonce
    BY <1>1, <1>3, <1>5
  <2>2. cs[1].firstnonce = IF n = 0 THEN t.nonce ELSE bs[1].firstnonce
    BY <1>1, <1>3, <1>5
  <2>3. ASSUME NEW i \in 1..Len(cs)
        PROVE  cs[i].id <= Len(cs) \/ \E j \in 1..n : cs[i].id = bs[j].id
    BY <1>1, <1>2, <1>3, <1>5
  <2>4. QED
    BY <2>1, <2>2, <2>3 DEF Longer, n
<1>10. QED
  BY <1>3, <1>4, <1>5, <1>8, <1>9 DEF cs, c, id, n

\* One transaction of the next nonce.
LEMMA PlaceRun ==
  ASSUME NEW a \in Addr, NEW p, LotInv(a, p), NEW t \in Tx,
         Len(p.boxes) # 0 => t.nonce = p.boxes[Len(p.boxes)].lastnonce + 1
  PROVE  LET q == Place(a, p, t)
         IN  /\ LotInv(a, q)
             /\ Longer(p.boxes, q.boxes, t.nonce, t.nonce)
             /\ Keeps(p.index, q.index)
<1> DEFINE bs == p.boxes
           q == Place(a, p, t)
<1>1. /\ bs \in Seq(Box) /\ p.index \in Seq(Entry) /\ BoxesRun(bs)
      /\ Ordered(p.index) /\ Covers(p.index, a, bs)
      /\ p = [boxes |-> bs, index |-> p.index]
  BY DEF LotInv, Lot
<1>2. Len(bs) \in Nat /\ (bs # <<>> <=> Len(bs) # 0)
  BY <1>1, LenProperties, EmptySeq
<1>3. CASE bs # <<>> /\ t.price >= bs[Len(bs)].gasprice
  <2> DEFINE cs == WriteBox(bs, Enqueue(bs[Len(bs)], t))
  <2>1. /\ cs \in Seq(Box) /\ BoxesRun(cs) /\ Longer(bs, cs, t.nonce, t.nonce)
        /\ Len(cs) = Len(bs)
        /\ \A i \in 1..Len(bs) : cs[i].gasprice = bs[i].gasprice
    BY <1>1, <1>2, <1>3, JoinRun
  <2>2. q = [boxes |-> cs, index |-> p.index]
    <3>1. q = [p EXCEPT !.boxes = cs]
      BY <1>3 DEF Place, Last
    <3> HIDE DEF cs, bs, q
    <3>2. QED
      BY <1>1, <3>1
  <2> HIDE DEF cs, q, bs
  <2>3. q.boxes = cs /\ q.index = p.index /\ q \in Lot
    BY <1>1, <2>1, <2>2 DEF Lot
  <2>4. Covers(q.index, a, cs)
    BY <1>1, <2>1, <2>3 DEF Covers
  <2>5. Keeps(p.index, q.index)
    BY <2>3 DEF Keeps
  <2>6. QED
    BY <1>1, <2>1, <2>3, <2>4, <2>5 DEF LotInv, bs, q
<1>4. CASE ~(bs # <<>> /\ t.price >= bs[Len(bs)].gasprice)
  <2> DEFINE b == NewTxBox(FreshId(bs), t)
             cs == Append(bs, b)
             x == SortIn(p.index, a, b)
  <2>1. /\ cs \in Seq(Box) /\ BoxesRun(cs) /\ Longer(bs, cs, t.nonce, t.nonce)
        /\ Len(cs) = Len(bs) + 1
        /\ \A i \in 1..Len(bs) : cs[i].gasprice = bs[i].gasprice
        /\ cs[Len(bs) + 1].gasprice = b.gasprice
        /\ b.gasprice \in Price
    BY <1>1, <1>2, <1>4, OpenRun
  <2>2. q = [boxes |-> cs, index |-> x]
    BY <1>4 DEF Place, Last
  <2> HIDE DEF b, cs
  <2>3. /\ x \in Seq(Entry) /\ Ordered(x)
        /\ \E k \in 1..Len(x) : x[k] = [addr |-> a, price |-> b.gasprice]
        /\ \A i \in 1..Len(p.index) : \E k \in 1..Len(x) : x[k] = p.index[i]
    <3> DEFINE index == p.index
    <3>1. index \in Seq(Entry) /\ Ordered(index) /\ b.gasprice \in Price
      BY <1>1, <2>1
    <3> HIDE DEF index
    <3>2. /\ SortIn(index, a, b) \in Seq(Entry) /\ Ordered(SortIn(index, a, b))
          /\ \E k \in 1..Len(SortIn(index, a, b)) :
               SortIn(index, a, b)[k] = [addr |-> a, price |-> b.gasprice]
          /\ \A i \in 1..Len(index) :
               \E k \in 1..Len(SortIn(index, a, b)) : SortIn(index, a, b)[k] = index[i]
      BY <3>1, SortInOrdered
    <3>3. QED
      BY <3>2 DEF index
  <2> HIDE DEF x, q, bs
  <2>4. q.boxes = cs /\ q.index = x /\ q \in Lot
    BY <2>1, <2>2, <2>3 DEF Lot
  <2>5. Covers(x, a, cs)
    <3>1. ASSUME NEW i \in 1..Len(cs)
          PROVE  \E k \in 1..Len(x) : x[k] = [addr |-> a, price |-> cs[i].gasprice]
      <4>1. CASE i = Len(bs) + 1
        BY <2>1, <2>3, <4>1
      <4>2. CASE i # Len(bs) + 1
        <5>1. i \in 1..Len(bs)
          BY <1>2, <2>1, <4>2
        <5>2. PICK j \in 1..Len(p.index) : p.index[j] = [addr |-> a, price |-> bs[i].gasprice]
          BY <1>1, <5>1 DEF Covers
        <5>3. QED
          BY <2>1, <2>3, <5>1, <5>2
      <4>3. QED
        BY <4>1, <4>2
    <3>2. QED
      BY <3>1 DEF Covers
  <2>6. Keeps(p.index, x)
    BY <2>3 DEF Keeps
  <2>7. QED
    BY <2>1, <2>3, <2>4, <2>5, <2>6 DEF LotInv, bs, q
<1>5. QED
  BY <1>3, <1>4

\* Placing more nonces, then more again.
LEMMA LongerTransitive ==
  ASSUME NEW bs, NEW cs, NEW ds, NEW n, NEW m, NEW k, NEW l,
         Len(bs) \in Nat, Len(cs) \in Nat, Len(ds) \in Nat,
         \A i \in 1..Len(cs) : cs[i].id \in Nat,
         Longer(bs, cs, n, m), Longer(cs, ds, k, l)
  PROVE  Longer(bs, ds, n, l)
<1>1. /\ Len(ds) # 0 /\ Len(cs) # 0
      /\ ds[Len(ds)].lastnonce = l
      /\ ds[1].firstnonce = cs[1].firstnonce
      /\ cs[1].firstnonce = IF Len(bs) = 0 THEN n ELSE bs[1].firstnonce
      /\ Len(bs) <= Len(cs) /\ Len(cs) <= Len(ds)
  BY DEF Longer
<1>2. ASSUME NEW i \in 1..Len(ds)
      PROVE  ds[i].id <= Len(ds) \/ \E j \in 1..Len(bs) : ds[i].id = bs[j].id
  <2>1. CASE ds[i].id <= Len(ds)
    BY <2>1
  <2>2. CASE \E j \in 1..Len(cs) : ds[i].id = cs[j].id
    <3>1. PICK j \in 1..Len(cs) : ds[i].id = cs[j].id
      BY <2>2
    <3>2. cs[j].id <= Len(cs) \/ \E h \in 1..Len(bs) : cs[j].id = bs[h].id
      BY DEF Longer
    <3>3. QED
      BY <1>1, <3>1, <3>2
  <2>3. QED
    BY <2>1, <2>2 DEF Longer
<1>3. QED
  BY <1>1, <1>2 DEF Longer

\* Keeping entries is transitive.
LEMMA KeepsTransitive ==
  ASSUME NEW x, NEW y, NEW z, Keeps(x, y), Keeps(y, z)
  PROVE  Keeps(x, z)
<1>1. ASSUME NEW i \in 1..Len(x) PROVE \E k \in 1..Len(z) : z[k] = x[i]
  <2>1. PICK j \in 1..Len(y) : y[j] = x[i]
    BY DEF Keeps
  <2>2. QED
    BY <2>1 DEF Keeps
<1>2. QED
  BY <1>1 DEF Keeps

\* The invariant types the queue.
LEMMA BoxesInvQueue == BoxesInv => QueueOK
BY DEF BoxesInv, QueueOK

\* The queue runs out somewhere behind every nonce.
LEMMA ReachedReaches ==
  ASSUME QueueOK, NEW a \in Addr, NEW t \in Tx
  PROVE  /\ Reached(a, t) \in t.nonce..MaxNonce
         /\ Reaches(queue[a], t.nonce, Reached(a, t))
<1> DEFINE n == t.nonce
           C == {m \in n..MaxNonce : \A u \in queue[a] : u.nonce # m + 1}
<1>1. n \in Nat /\ MaxNonce \in Nat /\ n <= MaxNonce
  BY BoundsAssumption DEF Tx, Nonce
<1>2. \A u \in queue[a] : u.nonce \in Nat /\ u.nonce <= MaxNonce
  BY <1>1 DEF QueueOK, Tx, Nonce
<1>3. MaxNonce \in C
  BY <1>1, <1>2
<1>4. PICK m \in C : \A k \in C : m <= k
  <2>1. C \subseteq Nat /\ C # {}
    BY <1>1, <1>3
  <2> HIDE DEF C
  <2>2. QED
    BY <2>1, LeastNatural
<1>5. m \in n..MaxNonce /\ \A u \in queue[a] : u.nonce # m + 1
  BY <1>4
<1>6. ASSUME NEW k \in n + 1..m PROVE \E u \in queue[a] : u.nonce = k
  <2>1. k - 1 \in n..MaxNonce /\ ~(m <= k - 1) /\ (k - 1) + 1 = k
    BY <1>1, <1>5
  <2>2. k - 1 \notin C
    BY <1>4, <2>1
  <2>3. QED
    BY <2>1, <2>2
<1>7. Reaches(queue[a], n, m)
  BY <1>5, <1>6 DEF Reaches
<1>8. QED
  BY <1>5, <1>7 DEF Reached

\* What is placed into when t comes.
OldLot(a) == [boxes |-> pending[a], index |-> Sortedboxes]

\* What is placed for the nonce n when t comes first.
NextTx(a, t, n) == IF n = t.nonce THEN t ELSE CHOOSE u \in queue[a] : u.nonce = n

\* The recursion of addPendingTx up to the nonce m.
Places(a, t, m, g) ==
  g = [n \in t.nonce..m |->
         Place(a, IF n = t.nonce THEN OldLot(a) ELSE g[n - 1], NextTx(a, t, n))]

\* The recursion gives something.
LEMMA PlacesExist ==
  ASSUME NEW a \in Addr, NEW t \in Tx, NEW m \in Nat
  PROVE  \E g : Places(a, t, m, g)
<1> DEFINE k0 == t.nonce
           C == {m1 \in Nat : ~\E g : Places(a, t, m1, g)}
<1>1. SUFFICES ASSUME C # {} PROVE FALSE
  OBVIOUS
<1>2. PICK l \in C : \A k \in C : l <= k
  <2>1. C \subseteq Nat
    OBVIOUS
  <2> HIDE DEF C
  <2>2. QED
    BY <1>1, <2>1, LeastNatural
<1>3. k0 \in Nat \ {0}
  BY DEF Tx, Nonce
<1>4. CASE l < k0
  <2> DEFINE g == [n \in 1..0 |-> n]
  <2>1. k0..l = 1..0
    BY <1>2, <1>3, <1>4
  <2>2. Places(a, t, l, g)
    BY <2>1 DEF Places
  <2>3. QED
    BY <1>2, <2>2
<1>5. CASE l >= k0
  <2>1. l - 1 \in Nat /\ l - 1 \notin C
    BY <1>2, <1>3, <1>5
  <2>2. PICK g : Places(a, t, l - 1, g)
    BY <2>1
  <2> DEFINE step(n, p) == Place(a, IF n = k0 THEN OldLot(a) ELSE p, NextTx(a, t, n))
             h == [n \in k0..l |-> IF n = l THEN step(l, g[l - 1]) ELSE g[n]]
  <2>3. ASSUME NEW n \in k0..l
        PROVE  h[n] = step(n, h[n - 1])
    <3>1. n # k0 => n - 1 \in k0..l /\ n - 1 # l
      BY <1>2, <1>3
    <3>2. n # l => g[n] = step(n, g[n - 1])
      <4>1. SUFFICES ASSUME n # l PROVE g[n] = step(n, g[n - 1])
        OBVIOUS
      <4>2. n \in k0..l - 1
        BY <1>2, <1>3, <4>1
      <4>3. QED
        BY <2>2, <4>2 DEF Places
    <3>3. n # k0 => h[n - 1] = g[n - 1]
      BY <3>1
    <3>4. h[n] = IF n = l THEN step(l, g[l - 1]) ELSE g[n]
      OBVIOUS
    <3> HIDE DEF h
    <3>5. QED
      BY <3>2, <3>3, <3>4
  <2>4. h = [n \in k0..l |-> h[n]]
    OBVIOUS
  <2> HIDE DEF h
  <2>5. h = [n \in k0..l |-> step(n, h[n - 1])]
    <3> HIDE DEF step
    <3>1. QED
      BY <2>3, <2>4
  <2>6. Places(a, t, l, h)
    BY <2>5 DEF Places
  <2>7. QED
    BY <1>2, <2>6
<1>6. QED
  BY <1>2, <1>3, <1>4, <1>5

\* What addPendingTx leaves is the end of the recursion.
LEMMA PlacedIsPlaces ==
  ASSUME QueueOK, NEW a \in Addr, NEW t \in Tx
  PROVE  \E g : Places(a, t, Reached(a, t), g) /\ Placed(a, t) = g[Reached(a, t)]
<1> DEFINE m == Reached(a, t)
           G == CHOOSE g : Places(a, t, m, g)
<1>1. m \in Nat
  BY ReachedReaches, BoundsAssumption DEF Tx, Nonce
<1>2. Places(a, t, m, G)
  <2> HIDE DEF m
  <2>1. QED
    BY <1>1, PlacesExist
<1>3. Placed(a, t) = G[m]
  BY DEF Placed, Places, NextTx, OldLot
<1>4. QED
  BY <1>2, <1>3

\* The nonces up to the last one are placed one after the other.
LEMMA PlacesRun ==
  ASSUME BoxesInv, NEW a \in Addr, NEW t \in Tx, t.nonce = Base(a) + 1,
         NEW g, Places(a, t, Reached(a, t), g)
  PROVE  \A n \in t.nonce..Reached(a, t) :
           /\ LotInv(a, g[n])
           /\ Longer(pending[a], g[n].boxes, t.nonce, n)
           /\ Keeps(Sortedboxes, g[n].index)
<1> DEFINE k0 == t.nonce
           m == Reached(a, t)
           Good(n) == /\ LotInv(a, g[n])
                      /\ Longer(pending[a], g[n].boxes, k0, n)
                      /\ Keeps(Sortedboxes, g[n].index)
           C == {n \in Nat : n \in k0..m /\ ~Good(n)}
<1>1. k0 \in Nat /\ m \in Nat /\ Reaches(queue[a], k0, m)
  BY BoxesInvQueue, ReachedReaches, BoundsAssumption DEF Tx, Nonce
<1>2. SUFFICES ASSUME C # {} PROVE FALSE
  BY <1>1
<1>3. PICK n \in C : \A k \in C : n <= k
  <2>1. C \subseteq Nat
    OBVIOUS
  <2> HIDE DEF C
  <2>2. QED
    BY <1>2, <2>1, LeastNatural
<1>4. n \in k0..m /\ n \in Nat /\ ~Good(n)
  BY <1>3
<1>5. g[n] = Place(a, IF n = k0 THEN OldLot(a) ELSE g[n - 1], NextTx(a, t, n))
  BY <1>4 DEF Places
<1>6. LotInv(a, OldLot(a))
  BY DEF LotInv, OldLot, Lot, BoxesInv
<1>7. CASE n = k0
  <2>1. NextTx(a, t, n) = t
    BY <1>7 DEF NextTx
  <2>2. Len(pending[a]) # 0 => t.nonce = pending[a][Len(pending[a])].lastnonce + 1
    <3>1. Len(pending[a]) # 0 => pending[a] # <<>>
      OBVIOUS
    <3>2. QED
      BY <3>1 DEF Base, Last
  <2> DEFINE p == OldLot(a)
  <2>3. p.boxes = pending[a] /\ p.index = Sortedboxes /\ g[n] = Place(a, p, t)
    BY <1>5, <1>7, <2>1 DEF OldLot
  <2> HIDE DEF p
  <2>4. /\ LotInv(a, Place(a, p, t))
        /\ Longer(p.boxes, Place(a, p, t).boxes, t.nonce, t.nonce)
        /\ Keeps(p.index, Place(a, p, t).index)
    <3>1. LotInv(a, p) /\ (Len(p.boxes) # 0 => t.nonce = p.boxes[Len(p.boxes)].lastnonce + 1)
      BY <1>6, <2>2, <2>3 DEF p
    <3>2. QED
      BY <3>1, PlaceRun
  <2>5. QED
    BY <1>4, <1>7, <2>3, <2>4
<1>8. CASE n # k0
  <2> DEFINE p == g[n - 1]
             u == NextTx(a, t, n)
  <2>1. n - 1 \in k0..m /\ n - 1 \in Nat /\ ~(n <= n - 1)
    BY <1>1, <1>4, <1>8
  <2>2. Good(n - 1)
    BY <1>3, <2>1
  <2>3. u \in Tx /\ u.nonce = n
    <3>1. n \in k0 + 1..m
      BY <1>1, <1>4, <1>8
    <3>2. \E v \in queue[a] : v.nonce = n
      BY <1>1, <3>1 DEF Reaches
    <3>3. u \in queue[a] /\ u.nonce = n
      BY <1>8, <3>2 DEF NextTx
    <3>4. QED
      BY <3>3 DEF BoxesInv
  <2>4. g[n] = Place(a, p, u)
    BY <1>5, <1>8
  <2>5. LotInv(a, p) /\ Longer(pending[a], p.boxes, k0, n - 1) /\ Keeps(Sortedboxes, p.index)
    BY <2>2
  <2> DEFINE q == Place(a, p, u)
  <2> HIDE DEF p, u, C
  <2>6. LotInv(a, q) /\ Longer(p.boxes, q.boxes, n, n) /\ Keeps(p.index, q.index)
    <3>1. Len(p.boxes) # 0 => u.nonce = p.boxes[Len(p.boxes)].lastnonce + 1
      BY <1>4, <2>3, <2>5 DEF Longer
    <3>2. QED
      BY <2>3, <2>5, <3>1, PlaceRun
  <2> HIDE DEF q, k0
  <2>7. Longer(pending[a], q.boxes, k0, n)
    <3>1. /\ pending[a] \in Seq(Box) /\ p.boxes \in Seq(Box) /\ q.boxes \in Seq(Box)
      BY <2>5, <2>6 DEF LotInv, Lot, BoxesInv
    <3>2. /\ Len(pending[a]) \in Nat /\ Len(p.boxes) \in Nat /\ Len(q.boxes) \in Nat
          /\ \A i \in 1..Len(p.boxes) : p.boxes[i].id \in Nat
      BY <3>1, BoxesType
    <3>3. QED
      BY <2>5, <2>6, <3>2, LongerTransitive
  <2>8. Keeps(Sortedboxes, q.index)
    BY <2>5, <2>6, KeepsTransitive
  <2>9. QED
    BY <1>4, <2>4, <2>6, <2>7, <2>8 DEF q
<1>9. QED
  BY <1>7, <1>8

\* A transaction that becomes pending, with the queued ones behind it.
LEMMA PlacedRun ==
  ASSUME BoxesInv, NEW a \in Addr, NEW t \in Tx, t.nonce = Base(a) + 1
  PROVE  LET p == Placed(a, t)
         IN  /\ LotInv(a, p)
             /\ Longer(pending[a], p.boxes, t.nonce, Reached(a, t))
             /\ Keeps(Sortedboxes, p.index)
<1>1. PICK g : Places(a, t, Reached(a, t), g) /\ Placed(a, t) = g[Reached(a, t)]
  BY BoxesInvQueue, PlacedIsPlaces
<1>2. Reached(a, t) \in t.nonce..Reached(a, t)
  BY BoxesInvQueue, ReachedReaches, BoundsAssumption DEF Tx, Nonce
<1>3. QED
  BY <1>1, <1>2, PlacesRun

-----------------------------------------------------------------------------
(* Taking the first transaction *)

\* The boxes of an account after Pop.
PopBoxes(bs) ==
  LET ws == WriteBox(bs, Dequeue(bs[1]))
  IN  IF ws[1].txs = <<>> THEN Tail(ws) ELSE ws

\* The first box with its first transaction gone, if it had more.
LEMMA DequeueRun ==
  ASSUME NEW b \in Box, BoxRun(b)
  PROVE  LET c == Dequeue(b)
         IN  /\ c \in Box /\ c.id = b.id /\ c.gasprice = b.gasprice
             /\ c.txs = <<>> <=> b.firstnonce = b.lastnonce
             /\ c.txs # <<>> =>
                  /\ BoxRun(c) /\ c.firstnonce = b.firstnonce + 1
                  /\ c.lastnonce = b.lastnonce
<1> DEFINE c == Dequeue(b)
           txs == b.txs
           n == Len(txs)
           first == IF n > 1 THEN txs[2].nonce ELSE b.firstnonce
<1>1. /\ txs \in Seq(Tx) /\ n \in Nat \ {0} /\ txs # <<>>
      /\ b.firstnonce \in Nonce /\ b.firstnonce \in Nat /\ b.lastnonce \in Nat
      /\ b.lastnonce = b.firstnonce + (n - 1)
      /\ \A j \in 1..n : /\ txs[j].nonce = b.firstnonce + (j - 1)
                         /\ txs[j].price >= b.gasprice
  <2>1. /\ txs \in Seq(Tx) /\ b.firstnonce \in Nonce /\ b.firstnonce \in Nat
        /\ b.lastnonce \in Nat
    BY DEF Box, Nonce
  <2>2. n \in Nat
    BY <2>1, LenProperties
  <2>3. QED
    BY <2>1, <2>2 DEF BoxRun
<1>2. /\ Tail(txs) \in Seq(Tx) /\ Len(Tail(txs)) = n - 1
      /\ \A i \in 1..n - 1 : Tail(txs)[i] = txs[i + 1]
  <2>1. /\ Tail(txs) \in Seq(Tx) /\ Len(Tail(txs)) = n - 1
        /\ \A i \in 1..Len(Tail(txs)) : Tail(txs)[i] = txs[i + 1]
    BY <1>1, HeadTailProperties
  <2>2. QED
    BY <2>1
<1>3. first \in Nonce
  <2>1. \A j \in 1..n : txs[j] \in Tx
    BY <1>1, ElementOfSeq
  <2>2. n > 1 => 2 \in 1..n
    BY <1>1
  <2>3. QED
    BY <1>1, <2>1, <2>2 DEF Tx
<1>4. /\ c.id = b.id /\ c.gasprice = b.gasprice /\ c.txs = Tail(txs)
      /\ c.firstnonce = first /\ c.lastnonce = b.lastnonce
  BY <1>1 DEF Dequeue, Box
<1>5. c \in Box
  <2> DEFINE rest == Tail(txs)
  <2>1. c = [b EXCEPT !.txs = rest, !.firstnonce = first]
    BY <1>1 DEF Dequeue, Box
  <2> HIDE DEF c, first, rest
  <2>2. QED
    BY <1>2, <1>3, <2>1, BoxWrite DEF rest
<1>6. n # 1 => first = b.firstnonce + 1
  <2>1. n # 1 => n > 1 /\ 2 \in 1..n
    <3>1. n \in Nat \ {0}
      BY <1>1
    <3> HIDE DEF n
    <3>2. QED
      BY <3>1
  <2>2. 2 \in 1..n => txs[2].nonce = b.firstnonce + (2 - 1)
    BY <1>1
  <2> HIDE DEF n, txs
  <2>3. b.firstnonce + (2 - 1) = b.firstnonce + 1
    BY <1>1
  <2>4. QED
    BY <2>1, <2>2, <2>3
<1> HIDE DEF c, first, n
<1>7. /\ c.txs = <<>> <=> n = 1
      /\ n = 1 <=> b.firstnonce = b.lastnonce
  <2>1. Tail(txs) = <<>> <=> Len(Tail(txs)) = 0
    BY <1>2, EmptySeq
  <2> HIDE DEF txs
  <2>2. n \in Nat \ {0} /\ Len(Tail(txs)) = n - 1
    BY <1>1, <1>2
  <2>3. n = 1 <=> n - 1 = 0
    BY <2>2
  <2>4. n = 1 <=> b.firstnonce = b.lastnonce
    BY <1>1
  <2>5. QED
    BY <1>4, <2>1, <2>2, <2>3, <2>4
<1> HIDE DEF txs
<1>8. ASSUME n # 1
      PROVE  BoxRun(c) /\ c.firstnonce = b.firstnonce + 1
  <2>1. first = b.firstnonce + 1
    BY <1>6, <1>8
  <2>2. Len(c.txs) # 0 /\ c.lastnonce = c.firstnonce + (Len(c.txs) - 1)
    <3>1. Len(c.txs) = n - 1 /\ c.firstnonce = b.firstnonce + 1
      BY <1>2, <1>4, <2>1
    <3>2. n \in Nat /\ n - 1 # 0 /\ b.firstnonce \in Nat
      BY <1>1, <1>8
    <3>3. b.firstnonce + (n - 1) = (b.firstnonce + 1) + ((n - 1) - 1)
      BY <3>2
    <3>4. c.lastnonce = b.firstnonce + (n - 1)
      BY <1>1, <1>4
    <3>5. QED
      BY <3>1, <3>2, <3>3, <3>4
  <2>3. ASSUME NEW j \in 1..Len(c.txs)
        PROVE  c.txs[j].nonce = c.firstnonce + (j - 1) /\ c.txs[j].price >= c.gasprice
    <3>1. j \in 1..n - 1 /\ j + 1 \in 1..n /\ c.txs[j] = txs[j + 1]
      BY <1>1, <1>2, <1>4
    <3>2. txs[j + 1].nonce = b.firstnonce + ((j + 1) - 1) /\ txs[j + 1].price >= b.gasprice
      BY <1>1, <3>1
    <3>3. QED
      BY <1>1, <1>4, <2>1, <3>1, <3>2
  <2>4. QED
    BY <1>4, <2>1, <2>2, <2>3 DEF BoxRun
<1>9. QED
  BY <1>4, <1>5, <1>7, <1>8 DEF c

\* The boxes stay a run when their first transaction goes.
LEMMA PopBoxesRun ==
  ASSUME NEW bs \in Seq(Box), BoxesRun(bs), Len(bs) # 0
  PROVE  LET cs == PopBoxes(bs)
         IN  /\ cs \in Seq(Box) /\ BoxesRun(cs)
             /\ \A i \in 1..Len(cs) : \E j \in 1..Len(bs) :
                  cs[i].id = bs[j].id /\ cs[i].gasprice = bs[j].gasprice
             /\ Len(cs) = 0 <=> Len(bs) = 1 /\ bs[1].firstnonce = bs[1].lastnonce
             /\ Len(cs) # 0 =>
                  /\ cs[1].firstnonce = bs[1].firstnonce + 1
                  /\ cs[Len(cs)].lastnonce = bs[Len(bs)].lastnonce
<1> DEFINE n == Len(bs)
           b == bs[1]
           c == Dequeue(b)
           ws == WriteBox(bs, c)
           cs == PopBoxes(bs)
<1>1. /\ n \in Nat \ {0} /\ 1 \in 1..n
      /\ \A i \in 1..n : /\ bs[i] \in Box /\ bs[i].firstnonce \in Nat
                         /\ bs[i].lastnonce \in Nat /\ bs[i].gasprice \in Nat
  BY BoxesType
<1>2. /\ \A i \in 1..n : BoxRun(bs[i])
      /\ \A i \in 1..n - 1 : bs[i + 1].firstnonce = bs[i].lastnonce + 1
      /\ \A i, j \in 1..n : i < j => bs[j].gasprice < bs[i].gasprice
      /\ \A i, j \in 1..n : bs[i].id = bs[j].id => i = j
  BY DEF BoxesRun
<1>3. /\ c \in Box /\ c.id = b.id /\ c.gasprice = b.gasprice
      /\ c.txs = <<>> <=> b.firstnonce = b.lastnonce
      /\ c.txs # <<>> =>
           /\ BoxRun(c) /\ c.firstnonce = b.firstnonce + 1
           /\ c.lastnonce = b.lastnonce
  <2>1. b \in Box /\ BoxRun(b)
    BY <1>1, <1>2
  <2> HIDE DEF b
  <2>2. QED
    BY <2>1, DequeueRun
<1>4. /\ ws \in Seq(Box) /\ Len(ws) = n
      /\ \A j \in 1..n : ws[j] = IF j = 1 THEN c ELSE bs[j]
  <2>1. (\A i, j \in 1..Len(bs) : bs[i].id = bs[j].id => i = j) /\ c.id = bs[1].id
    BY <1>2, <1>3
  <2> HIDE DEF c
  <2>2. QED
    BY <1>1, <1>3, <2>1, WriteBoxOne
<1>5. cs = IF ws[1].txs = <<>> THEN Tail(ws) ELSE ws
  BY DEF PopBoxes
<1> HIDE DEF cs, ws, c
<1>6. CASE c.txs = <<>>
  <2>1. ws # <<>> /\ cs = Tail(ws)
    BY <1>1, <1>4, <1>5, <1>6
  <2>2. /\ cs \in Seq(Box) /\ Len(cs) = n - 1
        /\ \A i \in 1..Len(cs) : cs[i] = ws[i + 1]
    BY <1>4, <2>1, HeadTailProperties
  <2> HIDE DEF n
  <2>3. \A i \in 1..n - 1 : cs[i] = bs[i + 1] /\ i + 1 \in 1..n
    BY <1>1, <1>4, <2>2
  <2>4. BoxesRun(cs)
    <3>1. \A i \in 1..n - 1 : BoxRun(cs[i])
      BY <1>2, <2>3
    <3>2. ASSUME NEW i \in 1..(n - 1) - 1
          PROVE  cs[i + 1].firstnonce = cs[i].lastnonce + 1
      <4>1. i \in 1..n - 1 /\ i + 1 \in 1..n - 1 /\ i + 1 \in 1..n
        BY <1>1
      <4>2. cs[i] = bs[i + 1] /\ cs[i + 1] = bs[(i + 1) + 1]
        BY <2>3, <4>1
      <4>3. QED
        BY <1>2, <4>1, <4>2
    <3>3. ASSUME NEW i \in 1..n - 1, NEW j \in 1..n - 1, i < j
          PROVE  cs[j].gasprice < cs[i].gasprice
      <4>1. i + 1 < j + 1
        BY <1>1, <3>3
      <4>2. QED
        BY <1>2, <2>3, <4>1
    <3>4. ASSUME NEW i \in 1..n - 1, NEW j \in 1..n - 1, cs[i].id = cs[j].id
          PROVE  i = j
      <4>1. i + 1 = j + 1
        BY <1>2, <2>3, <3>4
      <4>2. QED
        BY <1>1, <4>1
    <3>5. QED
      BY <2>2, <3>1, <3>2, <3>3, <3>4 DEF BoxesRun
  <2>5. \A i \in 1..Len(cs) : \E j \in 1..n :
          cs[i].id = bs[j].id /\ cs[i].gasprice = bs[j].gasprice
    BY <2>2, <2>3
  <2>6. Len(cs) = 0 <=> n = 1 /\ b.firstnonce = b.lastnonce
    BY <1>1, <1>3, <1>6, <2>2
  <2>7. ASSUME Len(cs) # 0
        PROVE  /\ cs[1].firstnonce = b.firstnonce + 1
               /\ cs[Len(cs)].lastnonce = bs[n].lastnonce
    <3>1. 1 \in 1..n - 1 /\ n - 1 \in 1..n - 1 /\ 1 + 1 = 2 /\ (n - 1) + 1 = n
      BY <1>1, <2>2, <2>7
    <3>2. cs[1] = bs[2] /\ cs[n - 1] = bs[n]
      BY <2>3, <3>1
    <3>3. bs[1 + 1].firstnonce = bs[1].lastnonce + 1
      BY <1>2, <3>1
    <3>4. QED
      BY <1>3, <1>6, <2>2, <3>1, <3>2, <3>3
  <2>8. QED
    BY <2>2, <2>4, <2>5, <2>6, <2>7 DEF cs, n
<1>7. CASE c.txs # <<>>
  <2>1. cs = ws
    BY <1>1, <1>4, <1>5, <1>7
  <2> HIDE DEF n
  <2>2. /\ cs \in Seq(Box) /\ Len(cs) = n
        /\ \A j \in 1..n : cs[j] = IF j = 1 THEN c ELSE bs[j]
    BY <1>4, <2>1
  <2>3. \A j \in 1..n : cs[j].id = bs[j].id /\ cs[j].gasprice = bs[j].gasprice
                        /\ cs[j].lastnonce = bs[j].lastnonce /\ BoxRun(cs[j])
    BY <1>2, <1>3, <1>7, <2>2
  <2>4. BoxesRun(cs)
    <3>1. ASSUME NEW i \in 1..n - 1
          PROVE  cs[i + 1].firstnonce = cs[i].lastnonce + 1
      <4>1. i \in 1..n /\ i + 1 \in 1..n /\ i + 1 # 1
        BY <1>1
      <4>2. QED
        BY <1>2, <2>2, <2>3, <4>1
    <3>2. QED
      BY <1>2, <2>2, <2>3, <3>1 DEF BoxesRun
  <2>5. \A i \in 1..Len(cs) : \E j \in 1..n :
          cs[i].id = bs[j].id /\ cs[i].gasprice = bs[j].gasprice
    BY <2>2, <2>3
  <2>6. /\ Len(cs) # 0
        /\ cs[1].firstnonce = b.firstnonce + 1
        /\ cs[Len(cs)].lastnonce = bs[n].lastnonce
        /\ b.firstnonce # b.lastnonce
    BY <1>1, <1>3, <1>7, <2>2, <2>3
  <2>7. QED
    BY <2>2, <2>4, <2>5, <2>6 DEF cs, n
<1>8. QED
  BY <1>6, <1>7

-----------------------------------------------------------------------------
(* What the boxes hold *)

\* Transactions whose nonces run from lo to hi.
NonceRun(txs, lo, hi) ==
  /\ txs \in Seq(Tx)
  /\ lo <= hi
  /\ Len(txs) = (hi - lo) + 1
  /\ \A j \in 1..Len(txs) : txs[j].nonce = lo + (j - 1)

\* A run behind a run.
LEMMA NonceRunConcat ==
  ASSUME NEW lo \in Nat, NEW mid \in Nat, NEW hi \in Nat,
         NEW r, NonceRun(r, lo, mid), NEW s, NonceRun(s, mid + 1, hi)
  PROVE  NonceRun(r \o s, lo, hi)
<1> DEFINE m == Len(r)
           n == Len(s)
           w == r \o s
<1>1. /\ r \in Seq(Tx) /\ s \in Seq(Tx) /\ lo <= mid /\ mid + 1 <= hi
      /\ m = (mid - lo) + 1 /\ n = (hi - (mid + 1)) + 1
      /\ \A j \in 1..m : r[j].nonce = lo + (j - 1)
      /\ \A j \in 1..n : s[j].nonce = (mid + 1) + (j - 1)
  BY DEF NonceRun
<1>2. /\ w \in Seq(Tx) /\ Len(w) = m + n
      /\ \A i \in 1..m + n : w[i] = IF i <= m THEN r[i] ELSE s[i - m]
  BY <1>1, ConcatProperties
<1> HIDE DEF m, n, w
<1>3. lo <= hi /\ m + n = (hi - lo) + 1 /\ m \in Nat /\ n \in Nat
  BY <1>1
<1>4. ASSUME NEW j \in 1..m + n PROVE w[j].nonce = lo + (j - 1)
  <2>1. CASE j <= m
    <3>1. j \in 1..m
      BY <1>3, <2>1
    <3>2. QED
      BY <1>1, <1>2, <2>1, <3>1
  <2>2. CASE ~(j <= m)
    <3>1. j - m \in 1..n /\ w[j] = s[j - m]
      BY <1>2, <1>3, <2>2
    <3>2. s[j - m].nonce = (mid + 1) + ((j - m) - 1)
      BY <1>1, <3>1
    <3>3. (mid + 1) + ((j - m) - 1) = lo + (j - 1)
      BY <1>1, <1>3
    <3>4. QED
      BY <3>1, <3>2, <3>3
  <2>3. QED
    BY <2>1, <2>2
<1>5. QED
  BY <1>2, <1>3, <1>4 DEF NonceRun, w

\* The transactions of a box are a run from its first to its last nonce.
LEMMA BoxNonceRun ==
  ASSUME NEW b \in Box, BoxRun(b)
  PROVE  NonceRun(b.txs, b.firstnonce, b.lastnonce)
<1>1. /\ b.txs \in Seq(Tx) /\ b.firstnonce \in Nat
      /\ Len(b.txs) \in Nat /\ Len(b.txs) # 0
      /\ b.lastnonce = b.firstnonce + (Len(b.txs) - 1)
      /\ \A j \in 1..Len(b.txs) : b.txs[j].nonce = b.firstnonce + (j - 1)
  <2>1. b.txs \in Seq(Tx) /\ b.firstnonce \in Nat
    BY DEF Box, Nonce
  <2>2. QED
    BY <2>1, LenProperties DEF BoxRun
<1> DEFINE n == Len(b.txs)
<1>2. n \in Nat /\ n # 0 /\ b.lastnonce = b.firstnonce + (n - 1)
  BY <1>1
<1> HIDE DEF n
<1>3. b.firstnonce <= b.lastnonce /\ n = (b.lastnonce - b.firstnonce) + 1
  BY <1>1, <1>2
<1>4. QED
  BY <1>1, <1>3 DEF NonceRun, n

\* The boxes of an account hold a run, from the first nonce of the first box to
\* the last one of the last: by induction on the boxes.
LEMMA LaneShape ==
  ASSUME NEW bs \in Seq(Box), BoxesRun(bs), Len(bs) # 0
  PROVE  NonceRun(Flattened(bs), bs[1].firstnonce, bs[Len(bs)].lastnonce)
<1> DEFINE n == Len(bs)
           txs(k) == [i \in 1..k |-> bs[i].txs]
           Run(k) == NonceRun(FlattenSeq(txs(k)), bs[1].firstnonce, bs[k].lastnonce)
           Bad == {k \in 1..n : ~Run(k)}
<1>1. /\ n \in Nat \ {0} /\ DOMAIN bs = 1..n
      /\ \A i \in 1..n : /\ bs[i] \in Box /\ bs[i].txs \in Seq(Tx)
                         /\ bs[i].firstnonce \in Nat /\ bs[i].lastnonce \in Nat
  BY BoxesType
<1>2. /\ \A i \in 1..n : NonceRun(bs[i].txs, bs[i].firstnonce, bs[i].lastnonce)
      /\ \A i \in 1..n - 1 : bs[i + 1].firstnonce = bs[i].lastnonce + 1
  <2>1. ASSUME NEW i \in 1..n
        PROVE  NonceRun(bs[i].txs, bs[i].firstnonce, bs[i].lastnonce)
    <3>1. bs[i] \in Box /\ BoxRun(bs[i])
      BY <1>1 DEF BoxesRun
    <3>2. QED
      BY <3>1, BoxNonceRun
  <2>2. QED
    BY <2>1 DEF BoxesRun
<1> HIDE DEF n
<1>3. ASSUME NEW k \in 0..n - 1
      PROVE  /\ txs(k) \in Seq(Seq(Tx))
             /\ txs(k + 1) = Append(txs(k), bs[k + 1].txs)
             /\ FlattenSeq(txs(k + 1)) = FlattenSeq(txs(k)) \o bs[k + 1].txs
  <2>1. k \in Nat /\ k + 1 \in 1..n /\ \A i \in 1..k : i \in 1..n
    BY <1>1
  <2>2. txs(k) \in [1..k -> Seq(Tx)] /\ bs[k + 1].txs \in Seq(Tx)
    BY <1>1, <2>1
  <2>3. txs(k) \in Seq(Seq(Tx)) /\ Len(txs(k)) = k
    BY <2>1, <2>2, SeqDef, LenProperties
  <2>4. txs(k + 1) = Append(txs(k), bs[k + 1].txs)
    <3> DEFINE r == txs(k)
               t == bs[k + 1].txs
               w == Append(r, t)
    <3>1. /\ w \in Seq(Seq(Tx)) /\ Len(w) = k + 1
          /\ \A i \in 1..k : w[i] = r[i]
          /\ w[k + 1] = t
      <4> HIDE DEF r, t
      <4>1. r \in Seq(Seq(Tx)) /\ t \in Seq(Tx) /\ Len(r) = k
        BY <2>2, <2>3 DEF r, t
      <4>2. QED
        BY <4>1, AppendProperties
    <3>2. DOMAIN w = 1..k + 1 /\ w = [i \in 1..k + 1 |-> w[i]]
      <4> HIDE DEF w
      <4>1. QED
        BY <3>1, LenProperties
    <3>3. \A i \in 1..k + 1 : w[i] = bs[i].txs
      <4> HIDE DEF w
      <4>1. QED
        BY <2>1, <3>1
    <3> HIDE DEF w
    <3>4. QED
      BY <3>2, <3>3 DEF w
  <2>5. FlattenSeq(Append(txs(k), bs[k + 1].txs)) = FlattenSeq(txs(k)) \o bs[k + 1].txs
    BY <2>2, <2>3, FlattenAppend
  <2>6. QED
    BY <2>3, <2>4, <2>5
<1>4. Run(1)
  <2> DEFINE t == bs[1].txs
  <2>1. FlattenSeq(txs(1)) = FlattenSeq(txs(0)) \o t
    <3>1. 0 \in 0..n - 1 /\ 0 + 1 = 1
      BY <1>1
    <3> HIDE DEF txs
    <3>2. QED
      BY <1>3, <3>1
  <2>2. txs(0) = <<>>
    OBVIOUS
  <2>3. FlattenSeq(txs(1)) = t
    <3> HIDE DEF txs
    <3>1. FlattenSeq(txs(0)) = <<>>
      BY <2>2, FlattenEmpty
    <3>2. t \in Seq(Tx)
      BY <1>1
    <3> HIDE DEF t
    <3>3. <<>> \o t = t
      BY <3>2, ConcatEmptySeq
    <3>4. QED
      BY <2>1, <3>1, <3>3
  <2> HIDE DEF txs
  <2>4. QED
    BY <1>1, <1>2, <2>3
<1>5. ASSUME NEW k \in 1..n - 1, Run(k) PROVE Run(k + 1)
  <2>1. k \in 0..n - 1 /\ k + 1 \in 1..n /\ 1 \in 1..n /\ k \in 1..n
    BY <1>1
  <2>2. FlattenSeq(txs(k + 1)) = FlattenSeq(txs(k)) \o bs[k + 1].txs
    BY <1>3, <2>1
  <2> HIDE DEF txs
  <2>3. NonceRun(bs[k + 1].txs, bs[k].lastnonce + 1, bs[k + 1].lastnonce)
    BY <1>2, <2>1
  <2>4. /\ bs[1].firstnonce \in Nat /\ bs[k].lastnonce \in Nat
        /\ bs[k + 1].lastnonce \in Nat
    BY <1>1, <2>1
  <2>5. NonceRun(FlattenSeq(txs(k)), bs[1].firstnonce, bs[k].lastnonce)
    BY <1>5
  <2>6. NonceRun(FlattenSeq(txs(k)) \o bs[k + 1].txs,
                 bs[1].firstnonce, bs[k + 1].lastnonce)
    BY <2>3, <2>4, <2>5, NonceRunConcat
  <2>7. QED
    BY <2>2, <2>6
<1> HIDE DEF Run
<1>6. Bad = {}
  <2>1. SUFFICES ASSUME Bad # {} PROVE FALSE
    OBVIOUS
  <2>2. Bad \subseteq Nat
    BY <1>1
  <2> HIDE DEF Bad
  <2>3. PICK k \in Bad : \A m \in Bad : k <= m
    BY <2>1, <2>2, LeastNatural
  <2> USE DEF Bad
  <2>4. k \in 1..n /\ ~Run(k) /\ k # 1
    BY <1>4, <2>3
  <2>5. k - 1 \in 1..n - 1 /\ (k - 1) + 1 = k /\ k - 1 \in 1..n /\ ~(k <= k - 1)
    BY <1>1, <2>4
  <2>6. Run(k - 1)
    BY <2>3, <2>5
  <2>7. QED
    BY <1>5, <2>4, <2>5, <2>6
<1>7. Run(n)
  BY <1>1, <1>6
<1>8. QED
  <2>1. Flattened(bs) = FlattenSeq(txs(n))
    BY <1>1 DEF Flattened
  <2>2. QED
    BY <1>7, <2>1 DEF Run, n

\* Without boxes nothing is pending.
LEMMA LaneEmpty ==
  ASSUME NEW bs \in Seq(Box), Len(bs) = 0
  PROVE  bs = <<>> /\ Flattened(bs) = <<>>
<1>1. bs = <<>>
  BY EmptySeq
<1>2. [i \in DOMAIN bs |-> bs[i].txs] = <<>>
  BY <1>1
<1>3. QED
  BY <1>1, <1>2, FlattenEmpty DEF Flattened

-----------------------------------------------------------------------------
(* The invariant *)

\* An index that keeps its entries covers what it covered.
LEMMA CoversKept ==
  ASSUME NEW x, NEW y, NEW a, NEW bs, Keeps(x, y), Covers(x, a, bs)
  PROVE  Covers(y, a, bs)
<1>1. ASSUME NEW i \in 1..Len(bs)
      PROVE  \E k \in 1..Len(y) : y[k] = [addr |-> a, price |-> bs[i].gasprice]
  <2>1. PICK j \in 1..Len(x) : x[j] = [addr |-> a, price |-> bs[i].gasprice]
    BY DEF Covers
  <2>2. PICK k \in 1..Len(y) : y[k] = x[j]
    BY DEF Keeps
  <2>3. QED
    BY <2>1, <2>2
<1>2. QED
  BY <1>1 DEF Covers

\* An empty pool is a sound one.
LEMMA EmptyBoxes ==
  ASSUME pending = [a \in Addr |-> <<>>], queue = [a \in Addr |-> {}],
         Sortedboxes = <<>>, crashed = FALSE
  PROVE  BoxesInv
<1>1. <<>> \in Seq(Box) /\ <<>> \in Seq(Entry) /\ Len(<<>>) = 0
  BY EmptySeq
<1>2. Ordered(Sortedboxes)
  BY <1>1 DEF Ordered
<1>3. \A a \in Addr : Len(pending[a]) = 0
  BY <1>1
<1>4. ASSUME NEW a \in Addr
      PROVE  /\ BoxesRun(pending[a])
             /\ Covers(Sortedboxes, a, pending[a])
  BY <1>3 DEF BoxesRun, Covers
<1>5. /\ pending \in [Addr -> Seq(Box)] /\ queue \in [Addr -> SUBSET Tx]
      /\ Sortedboxes \in Seq(Entry)
  BY <1>1
<1>6. QED
  BY <1>2, <1>4, <1>5 DEF BoxesInv

\* Initially there is nothing in the pool.
LEMMA InitPoolInv == Init => PoolInv
<1> SUFFICES ASSUME Init PROVE PoolInv
  OBVIOUS
<1>1. MaxNonce \in Nat /\ 0 \in 0..MaxNonce
  BY BoundsAssumption
<1>2. /\ exists = {} /\ nonce = [a \in Addr |-> 0] /\ pending = [a \in Addr |-> <<>>]
      /\ queue = [a \in Addr |-> {}] /\ Sortedboxes = <<>> /\ crashed = FALSE
      /\ popped = [a \in Addr |-> 0] /\ failed = {}
  BY DEF Init
<1>3. BoxesInv
  BY <1>2, EmptyBoxes
<1>4. /\ exists \subseteq Addr /\ nonce \in [Addr -> Nat]
      /\ popped \in [Addr -> 0..MaxNonce] /\ failed \subseteq Addr
  BY <1>1, <1>2
<1>5. QED
  BY <1>3, <1>4 DEF PoolInv

\* What addPendingTx does to the boxes of its account.
LEMMA AddPendingEffect ==
  ASSUME BoxesInv, NEW a \in Addr, NEW t \in Tx, addPendingTx(a, t)
  PROVE  /\ pending' \in [Addr -> Seq(Box)]
         /\ BoxesRun(pending'[a])
         /\ Longer(pending[a], pending'[a], t.nonce, Reached(a, t))
         /\ \A b \in Addr \ {a} : pending'[b] = pending[b]
         /\ Sortedboxes' \in Seq(Entry) /\ Ordered(Sortedboxes')
         /\ Covers(Sortedboxes', a, pending'[a])
         /\ Keeps(Sortedboxes, Sortedboxes')
<1> DEFINE p == Placed(a, t)
<1>1. /\ t.nonce = Base(a) + 1
      /\ Len(p.boxes) <= MaxBoxes
      /\ pending' = [pending EXCEPT ![a] = p.boxes]
      /\ Sortedboxes' = p.index
  BY DEF addPendingTx
<1>2. /\ LotInv(a, p)
      /\ Longer(pending[a], p.boxes, t.nonce, Reached(a, t))
      /\ Keeps(Sortedboxes, p.index)
  BY <1>1, PlacedRun
<1> HIDE DEF p
<1>3. /\ p.boxes \in Seq(Box) /\ p.index \in Seq(Entry) /\ BoxesRun(p.boxes)
      /\ Ordered(p.index) /\ Covers(p.index, a, p.boxes)
  BY <1>2 DEF LotInv, Lot
<1>4. pending \in [Addr -> Seq(Box)]
  BY DEF BoxesInv
<1>5. /\ pending' \in [Addr -> Seq(Box)] /\ pending'[a] = p.boxes
      /\ \A b \in Addr \ {a} : pending'[b] = pending[b]
  BY <1>1, <1>3, <1>4
<1>6. QED
  BY <1>1, <1>2, <1>3, <1>5

\* addPendingTx keeps the boxes a run the index covers.
LEMMA AddPendingInv ==
  ASSUME BoxesInv, NEW a \in Addr, NEW t \in Tx, addPendingTx(a, t)
  PROVE  BoxesInv'
<1>1. /\ crashed' = crashed
      /\ queue' = [queue EXCEPT ![a] = {u \in @ : u.nonce > Reached(a, t)}]
  BY DEF addPendingTx
<1>2. /\ pending' \in [Addr -> Seq(Box)]
      /\ BoxesRun(pending'[a])
      /\ Longer(pending[a], pending'[a], t.nonce, Reached(a, t))
      /\ \A b \in Addr \ {a} : pending'[b] = pending[b]
      /\ Sortedboxes' \in Seq(Entry) /\ Ordered(Sortedboxes')
      /\ Covers(Sortedboxes', a, pending'[a])
      /\ Keeps(Sortedboxes, Sortedboxes')
  BY AddPendingEffect
<1>3. queue \in [Addr -> SUBSET Tx] /\ crashed = FALSE
  BY DEF BoxesInv
<1>4. queue' \in [Addr -> SUBSET Tx]
  BY <1>1, <1>3
<1>5. ASSUME NEW b \in Addr
      PROVE  /\ BoxesRun(pending'[b])
             /\ Covers(Sortedboxes', b, pending'[b])
  <2>1. BoxesRun(pending[b]) /\ Covers(Sortedboxes, b, pending[b])
    BY DEF BoxesInv
  <2>2. CASE b = a
    BY <1>2, <2>2
  <2>3. CASE b # a
    <3>1. pending'[b] = pending[b]
      BY <1>2, <2>3
    <3>2. Covers(Sortedboxes', b, pending[b])
      BY <1>2, <2>1, CoversKept
    <3>3. QED
      BY <2>1, <3>1, <3>2
  <2>4. QED
    BY <2>2, <2>3
<1>6. QED
  BY <1>1, <1>2, <1>3, <1>4, <1>5 DEF BoxesInv

\* What Pop looks at and what it returns.
LEMMA PoppedIs ==
  ASSUME BoxesInv, CanPop
  PROVE  LET bs == pending[PopAddr]
         IN  /\ PopAddr \in Addr /\ bs \in Seq(Box) /\ Len(bs) # 0 /\ BoxesRun(bs)
             /\ Popped \in Tx /\ Popped.nonce = bs[1].firstnonce /\ Popped # NoTx
<1> DEFINE a == PopAddr
           bs == pending[a]
           b == bs[1]
<1>1. PopAddr \in Addr
  <2>1. Sortedboxes \in Seq(Entry) /\ Sortedboxes # <<>>
    BY DEF BoxesInv, CanPop
  <2>2. 1 \in 1..Len(Sortedboxes)
    BY <2>1, EmptySeq, LenProperties
  <2>3. Sortedboxes[1] \in Entry
    BY <2>1, <2>2, ElementOfSeq
  <2>4. QED
    BY <2>3 DEF PopAddr, Entry
<1> HIDE DEF a
<1>2. bs \in Seq(Box) /\ bs # <<>> /\ BoxesRun(bs)
  BY <1>1 DEF BoxesInv, CanPop, a
<1>3. Len(bs) # 0 /\ Len(bs) \in Nat /\ 1 \in 1..Len(bs)
  BY <1>2, EmptySeq, LenProperties
<1>4. b \in Box /\ BoxRun(b)
  <2> HIDE DEF bs
  <2>1. QED
    BY <1>2, <1>3, BoxesType DEF BoxesRun, b
<1>5. b.txs \in Seq(Tx) /\ Len(b.txs) # 0 /\ b.txs # <<>> /\ b.firstnonce \in Nat
  <2> HIDE DEF b
  <2>1. b.txs \in Seq(Tx) /\ Len(b.txs) # 0 /\ b.firstnonce \in Nat
    BY <1>4 DEF Box, BoxRun, Nonce
  <2>2. QED
    BY <2>1, EmptySeq
<1>6. /\ 1 \in 1..Len(b.txs) /\ b.txs[1] \in Tx
      /\ b.txs[1].nonce = b.firstnonce + (1 - 1)
  <2> HIDE DEF b
  <2>1. 1 \in 1..Len(b.txs)
    BY <1>5, LenProperties
  <2>2. QED
    BY <1>4, <1>5, <2>1, ElementOfSeq DEF BoxRun
<1>7. Popped = b.txs[1]
  BY <1>5 DEF Popped, a
<1>8. NoTx \notin Tx
  BY BoundsAssumption DEF Tx, Nonce, Price
<1> HIDE DEF b
<1>9. Popped.nonce = b.firstnonce
  BY <1>5, <1>6, <1>7
<1>10. QED
  BY <1>1, <1>2, <1>3, <1>6, <1>7, <1>8, <1>9 DEF a, b

\* What Pop does to the boxes of its account.
LEMMA PopEffect ==
  ASSUME BoxesInv, Pop
  PROVE  LET a  == PopAddr
             bs == pending[a]
             cs == PopBoxes(bs)
         IN  /\ pending' = [pending EXCEPT ![a] = cs]
             /\ cs \in Seq(Box) /\ BoxesRun(cs)
             /\ \A i \in 1..Len(cs) : \E j \in 1..Len(bs) :
                  cs[i].id = bs[j].id /\ cs[i].gasprice = bs[j].gasprice
             /\ Len(cs) = 0 <=> Len(bs) = 1 /\ bs[1].firstnonce = bs[1].lastnonce
             /\ Len(cs) # 0 =>
                  /\ cs[1].firstnonce = bs[1].firstnonce + 1
                  /\ cs[Len(cs)].lastnonce = bs[Len(bs)].lastnonce
<1> DEFINE a == PopAddr
           bs == pending[a]
<1>1. CanPop
  BY DEF Pop
<1>2. a \in Addr /\ bs \in Seq(Box) /\ Len(bs) # 0 /\ BoxesRun(bs)
  BY <1>1, PoppedIs
<1>3. pending' = [pending EXCEPT ![a] = PopBoxes(bs)]
  BY DEF Pop, PopBoxes
<1> HIDE DEF bs, a
<1>4. /\ PopBoxes(bs) \in Seq(Box) /\ BoxesRun(PopBoxes(bs))
      /\ \A i \in 1..Len(PopBoxes(bs)) : \E j \in 1..Len(bs) :
           /\ PopBoxes(bs)[i].id = bs[j].id
           /\ PopBoxes(bs)[i].gasprice = bs[j].gasprice
      /\ Len(PopBoxes(bs)) = 0 <=> Len(bs) = 1 /\ bs[1].firstnonce = bs[1].lastnonce
      /\ Len(PopBoxes(bs)) # 0 =>
           /\ PopBoxes(bs)[1].firstnonce = bs[1].firstnonce + 1
           /\ PopBoxes(bs)[Len(PopBoxes(bs))].lastnonce = bs[Len(bs)].lastnonce
  BY <1>2, PopBoxesRun
<1>5. QED
  BY <1>3, <1>4 DEF bs, a

\* NewTX preserves the invariant.
LEMMA NewTXInv ==
  ASSUME Resubmits = {}, BoxesInv, NEW a \in Addr, NEW t \in Tx, NewTX(a, t)
  PROVE  BoxesInv'
<1>1. CASE addQueueTx(a, t)
  <2>1. queue' \in [Addr -> SUBSET Tx]
    BY <1>1 DEF addQueueTx, BoxesInv
  <2>2. QED
    BY <1>1, <2>1 DEF addQueueTx, BoxesInv
<1>2. CASE addPendingTx(a, t)
  BY <1>2, AddPendingInv
<1>3. QED
  BY <1>1, <1>2 DEF NewTX

\* Pop preserves the invariant.
LEMMA PopInv ==
  ASSUME BoxesInv, Pop
  PROVE  BoxesInv'
<1> DEFINE a == PopAddr
           bs == pending[a]
           cs == PopBoxes(bs)
<1>1. CanPop /\ queue' = queue /\ Sortedboxes' = Sortedboxes /\ crashed' = crashed
  BY DEF Pop
<1>2. a \in Addr
  BY <1>1, PoppedIs
<1>3. /\ pending' = [pending EXCEPT ![a] = cs]
      /\ cs \in Seq(Box) /\ BoxesRun(cs)
      /\ \A i \in 1..Len(cs) : \E j \in 1..Len(bs) :
           cs[i].id = bs[j].id /\ cs[i].gasprice = bs[j].gasprice
  BY PopEffect
<1> HIDE DEF cs, a
<1>4. pending \in [Addr -> Seq(Box)]
  BY DEF BoxesInv
<1>5. pending' \in [Addr -> Seq(Box)]
  BY <1>2, <1>3, <1>4
<1>6. ASSUME NEW b \in Addr
      PROVE  /\ BoxesRun(pending'[b])
             /\ Covers(Sortedboxes, b, pending'[b])
  <2>1. BoxesRun(pending[b]) /\ Covers(Sortedboxes, b, pending[b])
    BY DEF BoxesInv
  <2>2. CASE b = a
    <3>1. pending'[b] = cs /\ bs = pending[b]
      BY <1>2, <1>3, <1>4, <2>2
    <3> HIDE DEF bs
    <3>2. Covers(Sortedboxes, b, cs)
      <4>1. \A j \in 1..Len(bs) : \E k \in 1..Len(Sortedboxes) :
              Sortedboxes[k] = [addr |-> b, price |-> bs[j].gasprice]
        BY <2>1, <3>1 DEF Covers
      <4>2. \A i \in 1..Len(cs) : \E k \in 1..Len(Sortedboxes) :
              Sortedboxes[k] = [addr |-> b, price |-> cs[i].gasprice]
        <5>1. TAKE i \in 1..Len(cs)
        <5>2. PICK j \in 1..Len(bs) : cs[i].gasprice = bs[j].gasprice
          BY <1>3
        <5>3. QED
          BY <4>1, <5>2
      <4>3. QED
        BY <4>2 DEF Covers
    <3>3. QED
      BY <1>3, <3>1, <3>2
  <2>3. CASE b # a
    <3>1. pending'[b] = pending[b]
      BY <1>2, <1>3, <1>4, <2>3
    <3>2. QED
      BY <2>1, <3>1
  <2>4. QED
    BY <2>2, <2>3
<1>7. QED
  BY <1>1, <1>5, <1>6 DEF BoxesInv

\* The head of a lane only changes when NewTX fills an empty one: it is then
\* the nonce after the account's.
LEMMA NewTXHeads ==
  ASSUME Resubmits = {}, BoxesInv, NEW a \in Addr, NEW t \in Tx, NewTX(a, t),
         NEW b \in Addr, Len(pending'[b]) # 0
  PROVE  pending'[b][1].firstnonce =
           IF Len(pending[b]) = 0 THEN nonce[b] + 1 ELSE pending[b][1].firstnonce
<1>1. CASE addQueueTx(a, t)
  <2>1. pending' = pending
    BY <1>1 DEF addQueueTx
  <2>2. QED
    BY <2>1
<1>2. CASE addPendingTx(a, t)
  <2>1. t.nonce = Base(a) + 1
    BY <1>2 DEF addPendingTx
  <2>2. /\ Longer(pending[a], pending'[a], t.nonce, Reached(a, t))
        /\ \A c \in Addr \ {a} : pending'[c] = pending[c]
    BY <1>2, AddPendingEffect
  <2>3. CASE b = a
    <3>1. pending'[a][1].firstnonce =
            IF Len(pending[a]) = 0 THEN t.nonce ELSE pending[a][1].firstnonce
      BY <2>2 DEF Longer
    <3>2. Len(pending[a]) = 0 => t.nonce = nonce[a] + 1
      <4>1. pending[a] \in Seq(Box)
        BY DEF BoxesInv
      <4>2. Len(pending[a]) = 0 => pending[a] = <<>>
        BY <4>1, LaneEmpty
      <4>3. QED
        BY <2>1, <4>2 DEF Base
    <3>3. QED
      BY <2>3, <3>1, <3>2
  <2>4. CASE b # a
    <3>1. pending'[b] = pending[b]
      BY <2>2, <2>4
    <3>2. QED
      BY <3>1
  <2>5. QED
    BY <2>3, <2>4
<1>3. QED
  BY <1>1, <1>2 DEF NewTX

\* Pop takes the head of a lane; what is left begins with the next nonce.
LEMMA PopHeads ==
  ASSUME BoxesInv, Pop
  PROVE  /\ PopAddr \in Addr /\ Popped \in Tx /\ Popped # NoTx
         /\ Len(pending[PopAddr]) # 0
         /\ Popped.nonce = pending[PopAddr][1].firstnonce
         /\ \A b \in Addr \ {PopAddr} : pending'[b] = pending[b]
         /\ Len(pending'[PopAddr]) # 0 =>
              pending'[PopAddr][1].firstnonce = pending[PopAddr][1].firstnonce + 1
<1> DEFINE a == PopAddr
           cs == PopBoxes(pending[a])
<1>1. /\ a \in Addr /\ Len(pending[a]) # 0
      /\ Popped \in Tx /\ Popped # NoTx /\ Popped.nonce = pending[a][1].firstnonce
  BY PoppedIs DEF Pop
<1>2. /\ pending' = [pending EXCEPT ![a] = cs]
      /\ Len(cs) # 0 => cs[1].firstnonce = pending[a][1].firstnonce + 1
  BY PopEffect
<1>3. pending \in [Addr -> Seq(Box)]
  BY DEF BoxesInv
<1> HIDE DEF a, cs
<1>4. pending'[a] = cs /\ \A b \in Addr \ {a} : pending'[b] = pending[b]
  BY <1>1, <1>2, <1>3
<1>5. QED
  BY <1>1, <1>2, <1>4 DEF a

\* A step that runs a transaction preserves the invariant.
LEMMA ExecuteInv ==
  ASSUME PoolInv, NEW ok \in BOOLEAN, execute_one(ok)
  PROVE  PoolInv'
<1>1. Pop /\ CanPop
  BY DEF execute_one, Pop
<1>2. /\ exists' = exists
      /\ popped' = [popped EXCEPT ![PopAddr] = Popped.nonce]
      /\ nonce' = IF ok THEN [nonce EXCEPT ![PopAddr] = @ + 1] ELSE nonce
      /\ failed' = IF ok THEN failed ELSE failed \cup {PopAddr}
  BY DEF execute_one
<1>3. PopAddr \in Addr /\ Popped.nonce \in 0..MaxNonce
  <2>1. PopAddr \in Addr /\ Popped \in Tx
    BY <1>1, PoppedIs DEF PoolInv
  <2>2. QED
    BY <2>1, BoundsAssumption DEF Tx, Nonce
<1>4. /\ nonce' \in [Addr -> Nat] /\ popped' \in [Addr -> 0..MaxNonce]
      /\ failed' \subseteq Addr
  BY <1>2, <1>3 DEF PoolInv
<1>5. BoxesInv'
  BY <1>1, PopInv DEF PoolInv
<1>6. QED
  BY <1>2, <1>4, <1>5 DEF PoolInv

\* Every step preserves the invariant.
LEMMA NextPoolInv ==
  ASSUME Resubmits = {}, PoolInv, Next
  PROVE  PoolInv'
<1>1. ASSUME NEW a \in Addr, CreateAccount(a) PROVE PoolInv'
  BY <1>1 DEF CreateAccount, poolVars, historyVars, PoolInv, BoxesInv
<1>2. ASSUME NEW a \in Addr, NEW t \in Tx, NewTX(a, t) PROVE PoolInv'
  <2>1. UNCHANGED <<stateVars, historyVars>>
    BY <1>2 DEF NewTX
  <2>2. BoxesInv'
    BY <1>2, NewTXInv DEF PoolInv
  <2>3. QED
    BY <2>1, <2>2 DEF stateVars, historyVars, PoolInv
<1>3. ~execute_none
  <2>1. SUFFICES ASSUME execute_none PROVE FALSE
    OBVIOUS
  <2>2. Popped = NoTx /\ CanPop
    BY <2>1 DEF execute_none, Pop
  <2>3. QED
    BY <2>2, PoppedIs DEF PoolInv
<1>4. ASSUME NEW ok \in BOOLEAN, execute_one(ok) PROVE PoolInv'
  BY <1>4, ExecuteInv
<1>5. QED
  BY <1>1, <1>2, <1>3, <1>4 DEF Next

\* A pool that does not change keeps the invariant.
LEMMA StutterPoolInv ==
  ASSUME PoolInv, UNCHANGED vars
  PROVE  PoolInv'
BY DEF vars, poolVars, stateVars, historyVars, PoolInv, BoxesInv

\* While no pending nonce is resubmitted nothing panics, the boxes of every
\* account are a run of consecutive nonces in boxes that get cheaper, no two of
\* them are one box, and the index is ordered and has an entry for each.
THEOREM PoolInvariant ==
  ASSUME Resubmits = {}
  PROVE  Spec => []PoolInv
<1>1. Init => PoolInv
  BY InitPoolInv
<1>2. PoolInv /\ [Next]_vars => PoolInv'
  BY NextPoolInv, StutterPoolInv
<1>3. QED
  BY <1>1, <1>2, PTL DEF Spec

-----------------------------------------------------------------------------
(* What follows from the invariant *)

\* Runs of nonces that follow one another make one run.
LEMMA BoxesInvContiguous == BoxesInv => PendingContiguous
<1> SUFFICES ASSUME BoxesInv, NEW a \in Addr, NEW i \in 1..Len(Lane(a)) - 1
             PROVE  Lane(a)[i + 1].nonce = Lane(a)[i].nonce + 1
  BY DEF PendingContiguous
<1> DEFINE bs == pending[a]
           w == Flattened(bs)
<1>1. bs \in Seq(Box) /\ BoxesRun(bs) /\ Lane(a) = w
  BY DEF BoxesInv, Lane
<1>2. CASE Len(bs) = 0
  <2>1. w = <<>>
    BY <1>1, <1>2, LaneEmpty
  <2>2. Len(w) = 0
    BY <2>1
  <2>3. QED
    BY <1>1, <2>2
<1>3. CASE Len(bs) # 0
  <2>1. NonceRun(w, bs[1].firstnonce, bs[Len(bs)].lastnonce)
    BY <1>1, <1>3, LaneShape
  <2>2. Len(bs) \in Nat /\ 1 \in 1..Len(bs)
    BY <1>1, <1>3, LenProperties
  <2>3. bs[1].firstnonce \in Nat
    BY <1>1, <2>2, BoxesType
  <2> DEFINE lo == bs[1].firstnonce
  <2> HIDE DEF w, lo
  <2>4. w \in Seq(Tx) /\ \A j \in 1..Len(w) : w[j].nonce = lo + (j - 1)
    BY <2>1 DEF NonceRun, lo
  <2>5. Len(w) \in Nat /\ i \in 1..Len(w) - 1
    BY <1>1, <2>4, LenProperties
  <2>6. i \in 1..Len(w) /\ i + 1 \in 1..Len(w)
    BY <2>5
  <2>7. w[i].nonce = lo + (i - 1) /\ w[i + 1].nonce = lo + ((i + 1) - 1)
    BY <2>4, <2>6
  <2>8. lo + ((i + 1) - 1) = (lo + (i - 1)) + 1
    BY <2>3, <2>5 DEF lo
  <2>9. QED
    BY <1>1, <2>7, <2>8
<1>4. QED
  BY <1>2, <1>3

\* Boxes that get cheaper, as the invariant has them.
LEMMA BoxesInvByPrice == BoxesInv => BoxesByPrice
<1> SUFFICES ASSUME BoxesInv, NEW a \in Addr
             PROVE  /\ \A i \in DOMAIN pending[a] : \A t \in ToSet(pending[a][i].txs) :
                         t.price >= pending[a][i].gasprice
                    /\ \A i \in 1..Len(pending[a]) - 1 :
                         pending[a][i + 1].gasprice < pending[a][i].gasprice
  BY DEF BoxesByPrice
<1> DEFINE bs == pending[a]
<1>1. bs \in Seq(Box) /\ BoxesRun(bs)
  BY DEF BoxesInv
<1> HIDE DEF bs
<1>2. Len(bs) \in Nat /\ DOMAIN bs = 1..Len(bs)
  BY <1>1, BoxesType
<1>3. ASSUME NEW i \in DOMAIN bs, NEW t \in ToSet(bs[i].txs)
      PROVE  t.price >= bs[i].gasprice
  <2>1. bs[i].txs \in Seq(Tx)
    BY <1>1, <1>2, BoxesType
  <2>2. PICK j \in 1..Len(bs[i].txs) : t = bs[i].txs[j]
    BY <2>1, LenProperties DEF ToSet
  <2>3. BoxRun(bs[i])
    BY <1>1, <1>2 DEF BoxesRun
  <2>4. QED
    BY <2>2, <2>3 DEF BoxRun
<1>4. ASSUME NEW i \in 1..Len(bs) - 1
      PROVE  bs[i + 1].gasprice < bs[i].gasprice
  <2>1. i \in 1..Len(bs) /\ i + 1 \in 1..Len(bs) /\ i < i + 1
    BY <1>2
  <2>2. QED
    BY <1>1, <2>1 DEF BoxesRun
<1>5. QED
  BY <1>3, <1>4 DEF bs

\* The first entry of the index names an account.
LEMMA PopAddrIs ==
  ASSUME BoxesInv, Sortedboxes # <<>>
  PROVE  PopAddr \in Addr
<1>1. Sortedboxes \in Seq(Entry)
  BY DEF BoxesInv
<1>2. 1 \in 1..Len(Sortedboxes)
  BY <1>1, EmptySeq, LenProperties
<1>3. Sortedboxes[1] \in Entry
  BY <1>1, <1>2, ElementOfSeq
<1>4. QED
  BY <1>3 DEF PopAddr, Entry

\* The first entry of the index leads to the first box of its account, and
\* every box has an entry.
LEMMA BoxesInvNil ==
  ASSUME BoxesInv
  PROVE  NilMeansFrontEmpty
<1> SUFFICES ASSUME Popped = NoTx, NEW a \in Addr, Lane(a) # <<>>
             PROVE  Sortedboxes # <<>> /\ PopAddr # a
  BY DEF NilMeansFrontEmpty
<1>1. ~CanPop
  BY PoppedIs
<1>2. pending[a] \in Seq(Box) /\ Covers(Sortedboxes, a, pending[a])
  BY DEF BoxesInv
<1>3. Len(pending[a]) # 0
  BY <1>2, LaneEmpty DEF Lane
<1>4. Sortedboxes # <<>>
  <2>1. 1 \in 1..Len(pending[a])
    BY <1>2, <1>3, LenProperties
  <2>2. \E k \in 1..Len(Sortedboxes) :
          Sortedboxes[k] = [addr |-> a, price |-> pending[a][1].gasprice]
    BY <1>2, <2>1 DEF Covers
  <2>3. Sortedboxes = <<>> => Len(Sortedboxes) = 0
    OBVIOUS
  <2>4. QED
    BY <2>2, <2>3
<1>5. PopAddr # a
  <2>1. Sortedboxes # <<>> => pending[PopAddr] = <<>>
    BY <1>1 DEF CanPop
  <2>2. pending[a] # <<>>
    BY <1>3
  <2>3. QED
    BY <1>4, <2>1, <2>2
<1>6. QED
  BY <1>4, <1>5

\* Each account's pending transactions have consecutive nonces, through
\* promotions from the queue, new boxes and drained ones.
THEOREM PoolContiguous ==
  ASSUME Resubmits = {}
  PROVE  Spec => []PendingContiguous
BY PoolInvariant, BoxesInvContiguous, PTL DEF PoolInv

\* No transaction pays less than its box, and boxes get cheaper.
THEOREM PoolByPrice ==
  ASSUME Resubmits = {}
  PROVE  Spec => []BoxesByPrice
BY PoolInvariant, BoxesInvByPrice, PTL DEF PoolInv

\* Pop returns nil only when the account of the first entry has nothing pending,
\* or nobody has: what it misses are the other accounts.
THEOREM PoolNilMeansFrontEmpty ==
  ASSUME Resubmits = {}
  PROVE  Spec => []NilMeansFrontEmpty
BY PoolInvariant, BoxesInvNil, PTL DEF PoolInv

\* With one account in use, Pop returns nil only when nothing is pending.
THEOREM PoolNilMeansEmpty ==
  ASSUME Resubmits = {}, \A a, b \in Addr : a = b
  PROVE  Spec => []NilMeansEmpty
<1>1. ASSUME PoolInv PROVE NilMeansEmpty
  <2>1. BoxesInv /\ NilMeansFrontEmpty
    BY <1>1, BoxesInvNil DEF PoolInv
  <2>2. QED
    BY <2>1, PopAddrIs DEF NilMeansFrontEmpty, NilMeansEmpty
<1>2. QED
  BY <1>1, PoolInvariant, PTL

-----------------------------------------------------------------------------
(* The pool implements PoolLanes *)

\* The first and the last nonce of a lane.
HeadOf(bs) == IF Len(bs) = 0 THEN 1 ELSE bs[1].firstnonce
TailOf(bs) == IF Len(bs) = 0 THEN 0 ELSE bs[Len(bs)].lastnonce

\* The state of PoolLanes the pool stands for.
LaneHead == [a \in Addr |-> IF Lane(a) = <<>> THEN 1 ELSE Lane(a)[1].nonce]
LaneTail == [a \in Addr |-> IF Lane(a) = <<>> THEN 0 ELSE Last(Lane(a)).nonce]
LaneQueue == [a \in Addr |-> {t.nonce : t \in queue[a]}]

\* The ends of a lane are those of its boxes.
LEMMA LaneEnds ==
  ASSUME NEW bs \in Seq(Box), BoxesRun(bs)
  PROVE  LET w == Flattened(bs)
         IN  /\ HeadOf(bs) = IF w = <<>> THEN 1 ELSE w[1].nonce
             /\ TailOf(bs) = IF w = <<>> THEN 0 ELSE Last(w).nonce
             /\ HeadOf(bs) \in Nonce /\ TailOf(bs) \in 0..MaxNonce
             /\ HeadOf(bs) <= TailOf(bs) <=> Len(bs) # 0
<1> DEFINE w == Flattened(bs)
           lo == bs[1].firstnonce
           hi == bs[Len(bs)].lastnonce
<1>1. Len(bs) \in Nat /\ MaxNonce \in Nat \ {0}
  BY LenProperties, BoundsAssumption
<1>2. CASE Len(bs) = 0
  <2>1. w = <<>>
    BY <1>2, LaneEmpty
  <2> HIDE DEF w
  <2>2. HeadOf(bs) = 1 /\ TailOf(bs) = 0
    BY <1>2 DEF HeadOf, TailOf
  <2>3. 1 \in Nonce /\ 0 \in 0..MaxNonce /\ ~(1 <= 0)
    BY <1>1 DEF Nonce
  <2>4. QED
    BY <1>2, <2>1, <2>2, <2>3 DEF w
<1>3. CASE Len(bs) # 0
  <2>1. NonceRun(w, lo, hi)
    BY <1>3, LaneShape
  <2>2. 1 \in 1..Len(bs) /\ Len(bs) \in 1..Len(bs)
    BY <1>1, <1>3
  <2>3. lo \in Nonce /\ hi \in Nonce
    BY <2>2, BoxesType
  <2>4. HeadOf(bs) = lo /\ TailOf(bs) = hi
    BY <1>3 DEF HeadOf, TailOf
  <2> HIDE DEF w, lo, hi
  <2>5. /\ w \in Seq(Tx) /\ lo <= hi /\ Len(w) = (hi - lo) + 1
        /\ \A j \in 1..Len(w) : w[j].nonce = lo + (j - 1)
    BY <2>1 DEF NonceRun
  <2>6. lo \in Nat /\ hi \in Nat /\ hi \in 0..MaxNonce
    BY <1>1, <2>3 DEF Nonce
  <2> DEFINE n == Len(w)
  <2>7. n = (hi - lo) + 1 /\ \A j \in 1..n : w[j].nonce = lo + (j - 1)
    BY <2>5
  <2>8. w # <<>> /\ Last(w) = w[n]
    <3>1. Len(w) # 0
      BY <2>5, <2>6
    <3>2. QED
      BY <3>1, EmptySeq DEF Last
  <2> HIDE DEF n
  <2>9. n \in Nat /\ 1 \in 1..n /\ n \in 1..n
    BY <2>5, <2>6, <2>7
  <2>10. w[1].nonce = lo /\ w[n].nonce = hi
    <3>1. w[1].nonce = lo + (1 - 1) /\ w[n].nonce = lo + (n - 1)
      BY <2>7, <2>9
    <3>2. lo + (1 - 1) = lo /\ lo + (n - 1) = hi
      BY <2>6, <2>7
    <3>3. QED
      BY <3>1, <3>2
  <2>11. QED
    BY <1>3, <2>3, <2>4, <2>5, <2>6, <2>8, <2>10 DEF w
<1>4. QED
  BY <1>2, <1>3

\* The lanes of boxes that are runs, for any boxes.
LEMMA LanesOf ==
  ASSUME NEW pd \in [Addr -> Seq(Box)], \A a \in Addr : BoxesRun(pd[a])
  PROVE  /\ [a \in Addr |-> IF Flattened(pd[a]) = <<>> THEN 1
                            ELSE Flattened(pd[a])[1].nonce]
              = [a \in Addr |-> HeadOf(pd[a])]
         /\ [a \in Addr |-> IF Flattened(pd[a]) = <<>> THEN 0
                            ELSE Last(Flattened(pd[a])).nonce]
              = [a \in Addr |-> TailOf(pd[a])]
<1>1. ASSUME NEW a \in Addr
      PROVE  /\ HeadOf(pd[a]) = IF Flattened(pd[a]) = <<>> THEN 1
                                ELSE Flattened(pd[a])[1].nonce
             /\ TailOf(pd[a]) = IF Flattened(pd[a]) = <<>> THEN 0
                                ELSE Last(Flattened(pd[a])).nonce
  BY LaneEnds
<1>2. QED
  BY <1>1

\* The lanes before and after a step.
LEMMA LanesBefore ==
  ASSUME BoxesInv
  PROVE  /\ LaneHead = [a \in Addr |-> HeadOf(pending[a])]
         /\ LaneTail = [a \in Addr |-> TailOf(pending[a])]
<1>1. pending \in [Addr -> Seq(Box)] /\ \A a \in Addr : BoxesRun(pending[a])
  BY DEF BoxesInv
<1>2. QED
  BY <1>1, LanesOf DEF LaneHead, LaneTail, Lane

\* The lanes after a step, from the boxes after it.
LEMMA LanesAfter ==
  ASSUME BoxesInv'
  PROVE  /\ LaneHead' = [a \in Addr |-> HeadOf(pending'[a])]
         /\ LaneTail' = [a \in Addr |-> TailOf(pending'[a])]
<1>1. pending' \in [Addr -> Seq(Box)] /\ \A a \in Addr : BoxesRun(pending'[a])
  BY DEF BoxesInv
<1>2. QED
  BY <1>1, LanesOf DEF LaneHead, LaneTail, Lane

\* NewTX compares with the nonce PoolLanes compares with.
LEMMA LanesBase ==
  ASSUME BoxesInv, NEW a \in Addr
  PROVE  /\ LaneHead[a] <= LaneTail[a] <=> Len(pending[a]) # 0
         /\ Base(a) = IF LaneHead[a] <= LaneTail[a] THEN LaneTail[a] ELSE nonce[a]
<1>1. pending[a] \in Seq(Box) /\ BoxesRun(pending[a])
  BY DEF BoxesInv
<1>2. LaneHead[a] = HeadOf(pending[a]) /\ LaneTail[a] = TailOf(pending[a])
  BY LanesBefore
<1>3. HeadOf(pending[a]) <= TailOf(pending[a]) <=> Len(pending[a]) # 0
  BY <1>1, LaneEnds
<1>4. pending[a] = <<>> <=> Len(pending[a]) = 0
  BY <1>1, EmptySeq
<1>5. QED
  BY <1>2, <1>3, <1>4 DEF Base, TailOf, Last

\* NewTX of a nonce that is not the next one is kept in the queue.
LEMMA QueueLane ==
  ASSUME BoxesInv, BoxesInv', NEW a \in Addr, NEW t \in Tx, a \in exists,
         addQueueTx(a, t), UNCHANGED <<stateVars, historyVars>>
  PROVE  Lanes!Next
<1>1. t.nonce \in Lanes!Nonce
  BY DEF Tx, Nonce, Lanes!Nonce
<1>2. /\ pending' = pending /\ exists' = exists /\ nonce' = nonce
      /\ popped' = popped /\ failed' = failed
      /\ queue' = [queue EXCEPT ![a] = {u \in @ : u.nonce # t.nonce} \cup {t}]
      /\ t.nonce > Base(a) + 1
  BY DEF addQueueTx, stateVars, historyVars
<1>3. LaneHead' = LaneHead /\ LaneTail' = LaneTail
  BY <1>2 DEF LaneHead, LaneTail, Lane
<1>4. LaneQueue' = [LaneQueue EXCEPT ![a] = @ \cup {t.nonce}]
  <2>1. queue \in [Addr -> SUBSET Tx]
    BY DEF BoxesInv
  <2>2. LaneQueue' = [b \in Addr |-> {u.nonce : u \in queue'[b]}]
    BY DEF LaneQueue
  <2>3. {u.nonce : u \in queue'[a]} = {u.nonce : u \in queue[a]} \cup {t.nonce}
    <3>1. queue'[a] = {u \in queue[a] : u.nonce # t.nonce} \cup {t}
      BY <1>2, <2>1
    <3>2. QED
      BY <3>1
  <2>4. \A b \in Addr \ {a} : queue'[b] = queue[b]
    BY <1>2, <2>1
  <2>5. QED
    BY <2>2, <2>3, <2>4 DEF LaneQueue
<1>5. t.nonce > Lanes!Base(a) + 1
  BY <1>2, LanesBase DEF Lanes!Base, Lanes!Busy, LaneHead, LaneTail
<1>6. Lanes!addQueueTx(a, t.nonce)
  BY <1>2, <1>3, <1>4, <1>5 DEF Lanes!addQueueTx, LaneHead, LaneTail, LaneQueue
<1>7. QED
  BY <1>1, <1>6 DEF Lanes!Next

\* NewTX of the next nonce lengthens the lane of its account.
LEMMA PendingLane ==
  ASSUME BoxesInv, BoxesInv', NEW a \in Addr, NEW t \in Tx, a \in exists,
         addPendingTx(a, t), UNCHANGED <<stateVars, historyVars>>
  PROVE  Lanes!Next
<1> DEFINE n == t.nonce
           m == Reached(a, t)
           bs == pending[a]
           cs == pending'[a]
<1>1. /\ n \in Nat /\ n \in Nonce /\ m \in Nat /\ n <= m /\ m \in Nonce
      /\ Reaches(queue[a], n, m)
  <2>1. n \in Nonce /\ m \in n..MaxNonce /\ Reaches(queue[a], n, m)
    BY BoxesInvQueue, ReachedReaches DEF Tx
  <2> HIDE DEF n, m
  <2>2. QED
    BY <2>1, BoundsAssumption DEF Nonce
<1>2. /\ exists' = exists /\ nonce' = nonce /\ popped' = popped /\ failed' = failed
      /\ queue' = [queue EXCEPT ![a] = {u \in @ : u.nonce > m}]
      /\ n = Base(a) + 1
  BY DEF addPendingTx, stateVars, historyVars
<1>3. /\ Longer(bs, cs, n, m)
      /\ \A b \in Addr \ {a} : pending'[b] = pending[b]
  BY AddPendingEffect
<1>4. queue \in [Addr -> SUBSET Tx]
  BY DEF BoxesInv
<1> HIDE DEF m, n
<1>5. /\ LaneHead = [b \in Addr |-> HeadOf(pending[b])]
      /\ LaneTail = [b \in Addr |-> TailOf(pending[b])]
      /\ LaneHead' = [b \in Addr |-> HeadOf(pending'[b])]
      /\ LaneTail' = [b \in Addr |-> TailOf(pending'[b])]
  BY LanesBefore, LanesAfter
<1>6. /\ HeadOf(cs) = IF Len(bs) = 0 THEN n ELSE HeadOf(bs)
      /\ TailOf(cs) = m
  BY <1>3 DEF Longer, HeadOf, TailOf
<1>7. LaneHead[a] <= LaneTail[a] <=> Len(bs) # 0
  BY LanesBase
<1> HIDE DEF bs, cs
<1>8. LaneHead' = IF LaneHead[a] <= LaneTail[a] THEN LaneHead
                  ELSE [LaneHead EXCEPT ![a] = n]
  <2>1. \A b \in Addr \ {a} : HeadOf(pending'[b]) = HeadOf(pending[b])
    BY <1>3
  <2>2. HeadOf(pending'[a]) = IF Len(bs) = 0 THEN n ELSE HeadOf(pending[a])
    BY <1>6 DEF bs, cs
  <2>3. CASE Len(bs) = 0
    BY <1>5, <1>7, <2>1, <2>2, <2>3
  <2>4. CASE Len(bs) # 0
    BY <1>5, <1>7, <2>1, <2>2, <2>4
  <2>5. QED
    BY <2>3, <2>4
<1>9. LaneTail' = [LaneTail EXCEPT ![a] = m]
  <2>1. \A b \in Addr \ {a} : TailOf(pending'[b]) = TailOf(pending[b])
    BY <1>3
  <2>2. TailOf(pending'[a]) = m
    BY <1>6 DEF cs
  <2>3. QED
    BY <1>5, <2>1, <2>2
<1>10. LaneQueue' = [LaneQueue EXCEPT ![a] = {k \in @ : k > m}]
  <2>1. LaneQueue' = [b \in Addr |-> {u.nonce : u \in queue'[b]}]
    BY DEF LaneQueue
  <2>2. {u.nonce : u \in queue'[a]} = {k \in {u.nonce : u \in queue[a]} : k > m}
    <3>1. queue'[a] = {u \in queue[a] : u.nonce > m}
      BY <1>2, <1>4
    <3>2. QED
      BY <3>1
  <2>3. \A b \in Addr \ {a} : queue'[b] = queue[b]
    BY <1>2, <1>4
  <2>4. QED
    BY <2>1, <2>2, <2>3 DEF LaneQueue
<1>11. Lanes!Reaches(LaneQueue[a], n, m)
  <2>1. LaneQueue[a] = {u.nonce : u \in queue[a]}
    BY DEF LaneQueue
  <2>2. \A k \in Nonce : n < k /\ k <= m => k \in LaneQueue[a]
    <3>1. SUFFICES ASSUME NEW k \in Nonce, n < k, k <= m
                   PROVE  \E u \in queue[a] : u.nonce = k
      BY <2>1
    <3>2. k \in n + 1..m
      BY <1>1, <3>1 DEF Nonce
    <3>3. QED
      BY <1>1, <3>2 DEF Reaches
  <2>3. m + 1 \notin LaneQueue[a]
    BY <1>1, <2>1 DEF Reaches
  <2>4. QED
    BY <1>1, <2>2, <2>3 DEF Lanes!Reaches, Lanes!Nonce, Nonce
<1>12. n = Lanes!Base(a) + 1
  BY <1>2, LanesBase DEF Lanes!Base, Lanes!Busy, LaneHead, LaneTail
<1>13. Lanes!addPendingTx(a, n)
  <2>1. m \in Lanes!Nonce
    BY <1>1 DEF Nonce, Lanes!Nonce
  <2>2. LaneHead' = IF Lanes!Busy(a) THEN LaneHead ELSE [LaneHead EXCEPT ![a] = n]
    BY <1>8 DEF Lanes!Busy, LaneHead, LaneTail
  <2>3. QED
    BY <1>2, <1>9, <1>10, <1>11, <1>12, <2>1, <2>2
       DEF Lanes!addPendingTx, LaneHead, LaneTail, LaneQueue
<1>14. QED
  BY <1>1, <1>13 DEF Lanes!Next, Lanes!Nonce, Nonce

\* A transaction that is run leaves the head of its lane.
LEMMA ExecuteLane ==
  ASSUME BoxesInv, BoxesInv', NEW ok \in BOOLEAN, execute_one(ok)
  PROVE  Lanes!Next
<1> DEFINE a == PopAddr
           bs == pending[a]
           cs == PopBoxes(bs)
<1>1. /\ Pop /\ CanPop /\ exists' = exists /\ queue' = queue
      /\ popped' = [popped EXCEPT ![a] = Popped.nonce]
      /\ nonce' = IF ok THEN [nonce EXCEPT ![a] = @ + 1] ELSE nonce
      /\ failed' = IF ok THEN failed ELSE failed \cup {a}
  BY DEF execute_one, Pop
<1>2. /\ a \in Addr /\ bs \in Seq(Box) /\ Len(bs) # 0 /\ BoxesRun(bs)
      /\ Popped.nonce = bs[1].firstnonce
  BY <1>1, PoppedIs
<1>3. /\ pending' = [pending EXCEPT ![a] = cs]
      /\ Len(cs) = 0 <=> Len(bs) = 1 /\ bs[1].firstnonce = bs[1].lastnonce
      /\ Len(cs) # 0 =>
           /\ cs[1].firstnonce = bs[1].firstnonce + 1
           /\ cs[Len(cs)].lastnonce = bs[Len(bs)].lastnonce
      /\ cs \in Seq(Box) /\ BoxesRun(cs)
  BY <1>1, PopEffect
<1> HIDE DEF cs, a
<1>4. /\ LaneHead = [b \in Addr |-> HeadOf(pending[b])]
      /\ LaneTail = [b \in Addr |-> TailOf(pending[b])]
      /\ LaneHead' = [b \in Addr |-> HeadOf(pending'[b])]
      /\ LaneTail' = [b \in Addr |-> TailOf(pending'[b])]
  BY LanesBefore, LanesAfter
<1>5. /\ pending \in [Addr -> Seq(Box)]
      /\ pending'[a] = cs /\ \A b \in Addr \ {a} : pending'[b] = pending[b]
  BY <1>2, <1>3 DEF BoxesInv
<1>6. LaneHead[a] = HeadOf(bs) /\ LaneTail[a] = TailOf(bs)
  BY <1>2, <1>4
<1> DEFINE lo == bs[1].firstnonce
           hi == bs[Len(bs)].lastnonce
<1>7. HeadOf(bs) = lo /\ TailOf(bs) = hi
  BY <1>2 DEF HeadOf, TailOf
<1>8. lo \in Nat /\ hi \in Nat /\ lo <= hi
  <2>1. HeadOf(bs) \in Nonce /\ TailOf(bs) \in 0..MaxNonce
        /\ HeadOf(bs) <= TailOf(bs)
    <3> HIDE DEF bs
    <3>1. QED
      BY <1>2, LaneEnds
  <2> HIDE DEF lo, hi, bs
  <2>2. QED
    BY <1>7, <2>1 DEF Nonce
<1>9. Len(cs) = 0 => lo = hi
  BY <1>3
<1>10. Len(cs) # 0 => HeadOf(cs) = lo + 1 /\ TailOf(cs) = hi /\ lo < hi
  <2>1. SUFFICES ASSUME Len(cs) # 0
                 PROVE  HeadOf(cs) = lo + 1 /\ TailOf(cs) = hi /\ lo < hi
    OBVIOUS
  <2>2. HeadOf(cs) = lo + 1 /\ TailOf(cs) = hi
    BY <1>3, <2>1 DEF HeadOf, TailOf
  <2>3. HeadOf(cs) <= TailOf(cs)
    BY <1>3, <2>1, LaneEnds
  <2> HIDE DEF lo, hi
  <2>4. QED
    BY <1>8, <2>2, <2>3
<1>11. Len(cs) = 0 => HeadOf(cs) = 1 /\ TailOf(cs) = 0
  BY DEF HeadOf, TailOf
<1>12. LaneHead' = [LaneHead EXCEPT ![a] = HeadOf(cs)]
  BY <1>4, <1>5
<1>13. LaneTail' = [LaneTail EXCEPT ![a] = TailOf(cs)]
  BY <1>4, <1>5
<1> HIDE DEF lo, hi, bs
<1>14. \/ LaneHead[a] < LaneTail[a] /\ LaneHead' = [LaneHead EXCEPT ![a] = @ + 1]
          /\ LaneTail' = LaneTail
       \/ LaneHead[a] = LaneTail[a] /\ LaneHead' = [LaneHead EXCEPT ![a] = 1]
          /\ LaneTail' = [LaneTail EXCEPT ![a] = 0]
  <2>1. CASE Len(cs) = 0
    BY <1>6, <1>7, <1>9, <1>11, <1>12, <1>13, <2>1
  <2>2. CASE Len(cs) # 0
    <3>1. LaneHead' = [LaneHead EXCEPT ![a] = @ + 1]
      BY <1>4, <1>6, <1>7, <1>10, <1>12, <2>2
    <3>2. LaneTail' = [LaneTail EXCEPT ![a] = LaneTail[a]]
      BY <1>6, <1>7, <1>10, <1>13, <2>2
    <3>3. LaneTail' = LaneTail
      BY <1>4, <3>2
    <3>4. QED
      BY <1>6, <1>7, <1>10, <2>2, <3>1, <3>3
  <2>3. QED
    BY <2>1, <2>2
<1>15. /\ LaneHead[a] <= LaneTail[a]
       /\ popped' = [popped EXCEPT ![a] = LaneHead[a]]
  BY <1>1, <1>2, <1>6, <1>7, <1>8 DEF lo
<1>16. LaneQueue' = LaneQueue
  BY <1>1 DEF LaneQueue
<1>17. Lanes!execute_one(a, ok)
  BY <1>1, <1>14, <1>15, <1>16
     DEF Lanes!execute_one, Lanes!Busy, LaneHead, LaneTail, LaneQueue
<1>18. QED
  BY <1>2, <1>17 DEF Lanes!Next

\* The initial state of the pool is that of PoolLanes.
LEMMA InitLanes == Init => Lanes!Init
<1> SUFFICES ASSUME Init PROVE Lanes!Init
  OBVIOUS
<1>1. BoxesInv /\ pending = [a \in Addr |-> <<>>] /\ queue = [a \in Addr |-> {}]
  BY InitPoolInv DEF Init, PoolInv
<1>2. /\ LaneHead = [a \in Addr |-> HeadOf(pending[a])]
      /\ LaneTail = [a \in Addr |-> TailOf(pending[a])]
  BY <1>1, LanesBefore
<1>3. \A a \in Addr : HeadOf(pending[a]) = 1 /\ TailOf(pending[a]) = 0
  <2>1. Len(<<>>) = 0
    OBVIOUS
  <2>2. QED
    BY <1>1, <2>1 DEF HeadOf, TailOf
<1>4. LaneHead = [a \in Addr |-> 1] /\ LaneTail = [a \in Addr |-> 0]
  BY <1>2, <1>3
<1>5. LaneQueue = [a \in Addr |-> {}]
  BY <1>1 DEF LaneQueue
<1>6. QED
  BY <1>4, <1>5 DEF Init, Lanes!Init, LaneHead, LaneTail, LaneQueue

\* Every step of the pool is a step of PoolLanes or leaves it alone.
LEMMA NextLanes ==
  ASSUME Resubmits = {}, BoxesInv, BoxesInv', [Next]_vars
  PROVE  [Lanes!Next]_(Lanes!vars)
<1>1. ASSUME UNCHANGED vars PROVE UNCHANGED Lanes!vars
  BY <1>1 DEF vars, poolVars, stateVars, historyVars, Lanes!vars, Lane
<1>2. ASSUME NEW a \in Addr, CreateAccount(a) PROVE Lanes!Next
  <2>1. Lanes!CreateAccount(a)
    BY <1>2 DEF CreateAccount, poolVars, historyVars, Lanes!CreateAccount, Lane
  <2>2. QED
    BY <2>1 DEF Lanes!Next
<1>3. ASSUME NEW a \in Addr, NEW t \in Tx, NewTX(a, t) PROVE Lanes!Next
  BY <1>3, QueueLane, PendingLane DEF NewTX
<1>4. ~execute_none
  <2>1. SUFFICES ASSUME execute_none PROVE FALSE
    OBVIOUS
  <2>2. Popped = NoTx /\ CanPop
    BY <2>1 DEF execute_none, Pop
  <2>3. QED
    BY <2>2, PoppedIs
<1>5. ASSUME NEW ok \in BOOLEAN, execute_one(ok) PROVE Lanes!Next
  BY <1>5, ExecuteLane
<1>6. QED
  BY <1>1, <1>2, <1>3, <1>4, <1>5 DEF Next

\* While no pending nonce is resubmitted the pool, boxes, index and all, keeps
\* the promise of PoolLanes: initial states are initial there, and every step
\* is a step of PoolLanes or leaves it alone.
THEOREM PoolImplementsLanes ==
  ASSUME Resubmits = {}
  PROVE  Spec => ImplementsLanes
<1>1. Init => Lanes!Init
  BY InitLanes
<1>2. PoolInv /\ PoolInv' /\ [Next]_vars => [Lanes!Next]_(Lanes!vars)
  BY NextLanes DEF PoolInv
<1>3. Spec => []PoolInv
  BY PoolInvariant
<1>4. QED
  BY <1>1, <1>2, <1>3, PTL DEF Spec, ImplementsLanes, Lanes!Spec

-----------------------------------------------------------------------------
(* When clients may resubmit any nonce that is pending and the VM may refuse *)
(* any transaction, boxes have aliases and lose or double their              *)
(* transactions, but the nonces in each stay in order, and the index finds   *)
(* every one of them.                                                        *)


\* From the second on the nonces of a box are consecutive and end at lastnonce;
\* the first is before them and not before firstnonce.
InOrder(b) ==
  /\ \A j \in 2..Len(b.txs) : b.txs[j].nonce = b.lastnonce - (Len(b.txs) - j)
  /\ Len(b.txs) > 0 =>
       b.txs[1].nonce \in b.firstnonce..b.lastnonce - (Len(b.txs) - 1)
  /\ b.firstnonce <= b.lastnonce

\* Boxes in order; elements that point to one box agree on its price.
Sound(U) ==
  /\ \A b \in U : b \in Box /\ InOrder(b)
  /\ \A b, c \in U : b.id = c.id => b.gasprice = c.gasprice

\* The boxes in a sequence.
Boxes(bs) == {bs[i] : i \in 1..Len(bs)}

\* The first k of the boxes have entries of their own in the index, under the
\* account and their prices.
FindsBy(index, a, bs, k, f) ==
  /\ f \in [1..k -> 1..Len(index)]
  /\ \A i, j \in 1..k : f[i] = f[j] => i = j
  /\ \A i \in 1..k : index[f[i]] = [addr |-> a, price |-> bs[i].gasprice]

Finds(index, a, bs, k) == \E f : FindsBy(index, a, bs, k, f)

\* Every account's boxes are sound, and the index finds them.
PoolFound ==
  /\ pending \in [Addr -> Seq(Box)]
  /\ queue \in [Addr -> SUBSET Tx]
  /\ Sortedboxes \in Seq(Entry)
  /\ crashed \in BOOLEAN
  /\ Ordered(Sortedboxes)
  /\ \A a \in Addr : /\ Sound(Boxes(pending[a]))
                     /\ Finds(Sortedboxes, a, pending[a], Len(pending[a]))

\* The inductive invariant.
FoundInv ==
  /\ exists \subseteq Addr
  /\ nonce \in [Addr -> Nat]
  /\ popped \in [Addr -> 0..MaxNonce]
  /\ failed \subseteq Addr
  /\ PoolFound

-----------------------------------------------------------------------------
(* Boxes *)

\* A new box is in order.
LEMMA NewTxBoxInOrder ==
  ASSUME NEW id \in Nat \ {0}, NEW t \in Tx
  PROVE  LET b == NewTxBox(id, t)
         IN  /\ b \in Box /\ InOrder(b) /\ b.id = id
             /\ b.lastnonce = t.nonce /\ b.gasprice = t.price
<1> DEFINE b == NewTxBox(id, t)
<1>1. /\ b \in Box /\ b.id = id /\ b.firstnonce = t.nonce
      /\ b.lastnonce = t.nonce /\ b.gasprice = t.price
  BY NewTxBoxRun
<1>2. b.txs = <<t>> /\ Len(<<t>>) = 1 /\ <<t>>[1] = t
  BY DEF NewTxBox
<1>3. t.nonce \in Nat
  BY DEF Tx, Nonce
<1> HIDE DEF b
<1>4. Len(b.txs) = 1 /\ b.txs[1] = t
  BY <1>2
<1>5. InOrder(b)
  BY <1>1, <1>3, <1>4 DEF InOrder
<1>6. QED
  BY <1>1, <1>5 DEF b

\* A box stays in order when the next nonce joins it, also an empty box.
LEMMA EnqueueInOrder ==
  ASSUME NEW b \in Box, InOrder(b), NEW t \in Tx, t.nonce = b.lastnonce + 1
  PROVE  LET c == Enqueue(b, t)
         IN  /\ c \in Box /\ InOrder(c) /\ c.id = b.id
             /\ c.lastnonce = t.nonce /\ c.gasprice = b.gasprice
<1> DEFINE c == Enqueue(b, t)
           txs == Append(b.txs, t)
           n == Len(b.txs)
<1>1. /\ c.id = b.id /\ c.txs = txs /\ c.firstnonce = b.firstnonce
      /\ c.lastnonce = b.lastnonce + 1 /\ c.gasprice = b.gasprice
  BY DEF Enqueue, Box
<1>2. /\ b.txs \in Seq(Tx) /\ b.firstnonce \in Nat /\ b.lastnonce \in Nat
      /\ b.gasprice \in Nat /\ t.nonce \in Nonce
  BY DEF Box, Tx, Nonce, Price
<1>3. /\ txs \in Seq(Tx) /\ n \in Nat /\ Len(txs) = n + 1
      /\ \A j \in 1..n : txs[j] = b.txs[j]
      /\ txs[n + 1] = t
  BY <1>2, AppendProperties, LenProperties
<1>4. c \in Box
  <2> DEFINE last == b.lastnonce + 1
  <2>1. c = [b EXCEPT !.txs = txs, !.lastnonce = last]
    BY DEF Enqueue, Box
  <2>2. last \in Nonce
    BY <1>2
  <2> HIDE DEF txs, c, last
  <2>3. QED
    BY <1>3, <2>1, <2>2, BoxWrite
<1>5. \A j \in 1..n : b.txs[j].nonce \in Nat
  <2>1. \A j \in 1..n : b.txs[j] \in Tx
    BY <1>2, ElementOfSeq
  <2>2. QED
    BY <2>1 DEF Tx, Nonce
<1>6. InOrder(c)
  <2>1. /\ \A j \in 2..n : b.txs[j].nonce = b.lastnonce - (n - j)
        /\ n > 0 => b.txs[1].nonce \in b.firstnonce..b.lastnonce - (n - 1)
        /\ b.firstnonce <= b.lastnonce
    BY DEF InOrder
  <2> HIDE DEF c, txs, n
  <2>2. Len(c.txs) = n + 1
    BY <1>1, <1>3
  <2>3. ASSUME NEW j \in 2..n + 1
        PROVE  c.txs[j].nonce = c.lastnonce - ((n + 1) - j)
    <3>1. CASE j = n + 1
      BY <1>1, <1>2, <1>3, <3>1
    <3>2. CASE j # n + 1
      <4>1. j \in 2..n /\ j \in 1..n
        BY <1>3, <3>2
      <4>2. b.txs[j].nonce = b.lastnonce - (n - j)
        BY <2>1, <4>1
      <4>3. QED
        BY <1>1, <1>2, <1>3, <4>1, <4>2
    <3>3. QED
      BY <3>1, <3>2
  <2>4. c.txs[1].nonce \in c.firstnonce..c.lastnonce - ((n + 1) - 1)
    <3>1. CASE n = 0
      BY <1>1, <1>2, <1>3, <2>1, <3>1
    <3>2. CASE n # 0
      <4>1. 1 \in 1..n /\ n > 0
        BY <1>3, <3>2
      <4>2. c.txs[1] = b.txs[1] /\ b.txs[1].nonce \in Nat
        BY <1>1, <1>3, <1>5, <4>1
      <4>3. b.txs[1].nonce \in b.firstnonce..b.lastnonce - (n - 1)
        BY <2>1, <4>1
      <4>4. (b.lastnonce + 1) - ((n + 1) - 1) = b.lastnonce - (n - 1)
        BY <1>2, <1>3
      <4>5. QED
        BY <1>1, <4>2, <4>3, <4>4
    <3>3. QED
      BY <3>1, <3>2
  <2>5. c.firstnonce <= c.lastnonce
    BY <1>1, <1>2, <2>1
  <2>6. QED
    BY <2>2, <2>3, <2>4, <2>5 DEF InOrder
<1>7. QED
  BY <1>1, <1>2, <1>4, <1>6

\* A box stays in order when a transaction leaves it.
LEMMA DequeueInOrder ==
  ASSUME NEW b \in Box, InOrder(b)
  PROVE  LET c == Dequeue(b)
         IN  /\ c \in Box /\ InOrder(c) /\ c.id = b.id /\ c.gasprice = b.gasprice
<1> DEFINE c == Dequeue(b)
           n == Len(b.txs)
           first == IF n > 1 THEN b.txs[2].nonce ELSE b.firstnonce
           rest == Tail(b.txs)
<1>1. /\ b.txs \in Seq(Tx) /\ b.firstnonce \in Nat /\ b.lastnonce \in Nat
      /\ b.firstnonce \in Nonce /\ n \in Nat /\ \A j \in 1..n : b.txs[j] \in Tx
  <2>1. /\ b.txs \in Seq(Tx) /\ b.firstnonce \in Nat /\ b.lastnonce \in Nat
        /\ b.firstnonce \in Nonce
    BY DEF Box, Nonce
  <2>2. QED
    BY <2>1, LenProperties, ElementOfSeq
<1>2. CASE b.txs = <<>>
  BY <1>2 DEF Dequeue
<1>3. CASE b.txs # <<>>
  <2>1. /\ rest \in Seq(Tx) /\ Len(rest) = n - 1 /\ n # 0
        /\ \A j \in 1..n - 1 : rest[j] = b.txs[j + 1]
    BY <1>1, <1>3, HeadTailProperties, EmptySeq
  <2>2. \A j \in 1..n : b.txs[j].nonce \in Nonce /\ b.txs[j].nonce \in Nat
    BY <1>1 DEF Tx, Nonce
  <2>3. first \in Nonce
    BY <1>1, <2>2
  <2>4. c = [b EXCEPT !.txs = rest, !.firstnonce = first]
    BY <1>3 DEF Dequeue, Box
  <2> HIDE DEF c, rest, first
  <2>5. c \in Box
    BY <2>1, <2>3, <2>4, BoxWrite
  <2>6. /\ c.id = b.id /\ c.gasprice = b.gasprice /\ c.txs = rest
        /\ c.firstnonce = first /\ c.lastnonce = b.lastnonce
    BY <2>4 DEF Box
  <2>7. /\ \A j \in 2..n : b.txs[j].nonce = b.lastnonce - (n - j)
        /\ b.txs[1].nonce \in b.firstnonce..b.lastnonce - (n - 1)
        /\ b.firstnonce <= b.lastnonce
    BY <1>1, <2>1 DEF InOrder
  <2> HIDE DEF n
  <2>8. Len(c.txs) = n - 1
    BY <2>1, <2>6
  <2>9. ASSUME NEW j \in 1..n - 1
        PROVE  c.txs[j].nonce = b.lastnonce - ((n - 1) - j)
    <3>1. j + 1 \in 2..n /\ n - (j + 1) = (n - 1) - j
      BY <1>1
    <3>2. QED
      BY <2>1, <2>6, <2>7, <3>1
  <2>10. CASE n = 1
    <3>1. first = b.firstnonce
      BY <2>10 DEF first, n
    <3>2. Len(c.txs) = 0 /\ c.firstnonce <= c.lastnonce
      BY <2>6, <2>7, <2>8, <2>10, <3>1
    <3>3. InOrder(c)
      BY <3>2 DEF InOrder
    <3>4. QED
      BY <2>5, <2>6, <3>3 DEF c
  <2>11. CASE n # 1
    <3>1. n > 1 /\ 2 \in 2..n /\ 2 \in 1..n
      BY <1>1, <2>1, <2>11
    <3>2. first = b.txs[2].nonce
      BY <3>1 DEF first, n
    <3>3. first = b.lastnonce - (n - 2) /\ first \in Nat
      BY <2>2, <2>7, <3>1, <3>2
    <3>4. c.txs[1].nonce = first
      <4>1. 1 \in 1..n - 1 /\ (n - 1) - 1 = n - 2
        BY <1>1, <3>1
      <4>2. QED
        BY <2>9, <3>3, <4>1
    <3>5. first <= b.lastnonce
      BY <1>1, <3>1, <3>3
    <3>6. \A j \in 2..n - 1 : c.txs[j].nonce = b.lastnonce - ((n - 1) - j)
      BY <1>1, <2>9
    <3>7. first \in first..b.lastnonce - ((n - 1) - 1)
      BY <1>1, <3>1, <3>3
    <3>8. InOrder(c)
      BY <2>6, <2>8, <3>4, <3>5, <3>6, <3>7 DEF InOrder
    <3>9. QED
      BY <2>5, <2>6, <3>8 DEF c
  <2>12. QED
    BY <2>10, <2>11
<1>4. QED
  BY <1>2, <1>3

-----------------------------------------------------------------------------
(* Boxes of an account, of which several may be one box *)

\* Of fewer boxes the same can be said.
LEMMA SoundSubset ==
  ASSUME NEW U, NEW V, Sound(V), U \subseteq V
  PROVE  Sound(U)
BY DEF Sound

\* The boxes in a sequence are what it is a sequence of.
LEMMA BoxesIn ==
  ASSUME NEW U, NEW bs
  PROVE  /\ bs \in Seq(U) => Boxes(bs) \subseteq U
         /\ bs \in Seq(U) => bs \in Seq(Boxes(bs))
<1>1. ASSUME bs \in Seq(U) PROVE Boxes(bs) \subseteq U
  BY <1>1, ElementOfSeq DEF Boxes
<1>2. ASSUME bs \in Seq(U) PROVE bs \in Seq(Boxes(bs))
  <2>1. Len(bs) \in Nat /\ bs \in [1..Len(bs) -> U]
    BY <1>2, LenProperties
  <2>2. \A i \in 1..Len(bs) : bs[i] \in Boxes(bs)
    BY DEF Boxes
  <2>3. bs \in [1..Len(bs) -> Boxes(bs)]
    BY <2>1, <2>2
  <2>4. QED
    BY <2>1, <2>3
<1>3. QED
  BY <1>1, <1>2

\* Sound boxes are boxes.
LEMMA SoundSeq ==
  ASSUME NEW U, Sound(U), NEW bs \in Seq(U)
  PROVE  bs \in Seq(Box) /\ Sound(Boxes(bs))
<1>1. U \subseteq Box
  BY DEF Sound
<1>2. Boxes(bs) \subseteq U
  BY BoxesIn
<1>3. Sound(Boxes(bs))
  BY <1>2, SoundSubset
<1>4. Len(bs) \in Nat /\ bs \in [1..Len(bs) -> U]
  BY LenProperties
<1>5. bs \in [1..Len(bs) -> Box]
  BY <1>1, <1>4
<1>6. QED
  BY <1>3, <1>4, <1>5

\* A write through a box pointer, whatever else points to it, changes no price.
LEMMA WriteSound ==
  ASSUME NEW V, NEW bs \in Seq(Box), Sound(Boxes(bs) \cup V),
         NEW k \in 1..Len(bs), NEW c \in Box, InOrder(c),
         c.id = bs[k].id, c.gasprice = bs[k].gasprice
  PROVE  LET ws == WriteBox(bs, c)
         IN  /\ ws \in Seq(Box) /\ Len(ws) = Len(bs) /\ ws[k] = c
             /\ \A i \in 1..Len(bs) : ws[i].gasprice = bs[i].gasprice
             /\ Sound(Boxes(ws) \cup V)
<1> DEFINE ws == WriteBox(bs, c)
           n == Len(bs)
<1>1. n \in Nat /\ DOMAIN bs = 1..n /\ \A i \in 1..n : bs[i] \in Box
  BY LenProperties, ElementOfSeq
<1>2. ws = [i \in 1..n |-> IF bs[i].id = c.id THEN c ELSE bs[i]]
  BY <1>1 DEF WriteBox
<1>3. ws \in [1..n -> Box]
  BY <1>1, <1>2
<1>4. \A i \in 1..n : ws[i] = IF bs[i].id = c.id THEN c ELSE bs[i]
  BY <1>2
<1> HIDE DEF ws, n
<1>5. ws \in Seq(Box) /\ Len(ws) = n
  BY <1>1, <1>3
<1>6. ws[k] = c
  BY <1>4 DEF n
<1>7. \A i \in 1..n : bs[i] \in Boxes(bs) \cup V
  BY DEF Boxes, n
<1>8. \A i \in 1..n : ws[i].id = bs[i].id /\ ws[i].gasprice = bs[i].gasprice
  <2> TAKE i \in 1..n
  <2>1. CASE bs[i].id = c.id
    <3>1. bs[i].gasprice = bs[k].gasprice
      BY <1>7, <2>1 DEF Sound, n
    <3>2. QED
      BY <1>4, <2>1, <3>1
  <2>2. CASE bs[i].id # c.id
    BY <1>4, <2>2
  <2>3. QED
    BY <2>1, <2>2
<1>9. ASSUME NEW b \in Boxes(ws) \cup V
      PROVE  /\ b \in Box /\ InOrder(b)
             /\ \E d \in Boxes(bs) \cup V : d.id = b.id /\ d.gasprice = b.gasprice
  <2>1. CASE b \in V
    BY <2>1 DEF Sound
  <2>2. CASE b \notin V
    <3>1. PICK i \in 1..n : b = ws[i]
      BY <1>5, <2>2 DEF Boxes
    <3>2. b = c \/ b = bs[i]
      BY <1>4, <3>1
    <3>3. b \in Box /\ InOrder(b)
      BY <1>7, <3>2 DEF Sound
    <3>4. QED
      BY <1>7, <1>8, <3>1, <3>3
  <2>3. QED
    BY <2>1, <2>2
<1>10. Sound(Boxes(ws) \cup V)
  <2>1. ASSUME NEW b \in Boxes(ws) \cup V, NEW d \in Boxes(ws) \cup V, b.id = d.id
        PROVE  b.gasprice = d.gasprice
    <3>1. PICK x \in Boxes(bs) \cup V : x.id = b.id /\ x.gasprice = b.gasprice
      BY <1>9
    <3>2. PICK y \in Boxes(bs) \cup V : y.id = d.id /\ y.gasprice = d.gasprice
      BY <1>9
    <3>3. QED
      BY <2>1, <3>1, <3>2 DEF Sound
  <2>2. QED
    BY <1>9, <2>1 DEF Sound
<1>11. QED
  BY <1>5, <1>6, <1>8, <1>10 DEF ws, n

\* A transaction that joins the last box.
LEMMA JoinSound ==
  ASSUME NEW V, NEW bs \in Seq(Box), Sound(Boxes(bs) \cup V), Len(bs) # 0,
         NEW t \in Tx, t.nonce = bs[Len(bs)].lastnonce + 1
  PROVE  LET cs == WriteBox(bs, Enqueue(bs[Len(bs)], t))
         IN  /\ cs \in Seq(Box) /\ Len(cs) = Len(bs)
             /\ cs[Len(cs)].lastnonce = t.nonce
             /\ \A i \in 1..Len(bs) : cs[i].gasprice = bs[i].gasprice
             /\ Sound(Boxes(cs) \cup V)
<1> DEFINE n == Len(bs)
           b == bs[n]
           c == Enqueue(b, t)
<1>1. n \in Nat /\ n \in 1..n /\ b \in Box
  BY LenProperties, ElementOfSeq
<1>2. InOrder(b)
  BY <1>1 DEF Sound, Boxes
<1> HIDE DEF b
<1>3. c \in Box /\ InOrder(c) /\ c.id = b.id /\ c.lastnonce = t.nonce
      /\ c.gasprice = b.gasprice
  BY <1>1, <1>2, EnqueueInOrder DEF b
<1> DEFINE ws == WriteBox(bs, c)
<1> HIDE DEF c
<1>4. /\ ws \in Seq(Box) /\ Len(ws) = n /\ ws[n] = c
      /\ \A i \in 1..n : ws[i].gasprice = bs[i].gasprice
      /\ Sound(Boxes(ws) \cup V)
  BY <1>1, <1>3, WriteSound DEF b
<1> HIDE DEF ws
<1>5. QED
  BY <1>3, <1>4 DEF ws, c, b

\* A transaction that opens a box with an id nobody has.
LEMMA OpenSound ==
  ASSUME NEW V, NEW bs \in Seq(Box), Sound(Boxes(bs) \cup V), NEW t \in Tx,
         NEW id \in Nat \ {0}, \A b \in Boxes(bs) \cup V : b.id # id
  PROVE  LET b  == NewTxBox(id, t)
             cs == Append(bs, b)
         IN  /\ cs \in Seq(Box) /\ Len(cs) = Len(bs) + 1
             /\ cs[Len(cs)] = b /\ b.lastnonce = t.nonce
             /\ \A i \in 1..Len(bs) : cs[i] = bs[i]
             /\ Sound(Boxes(cs) \cup V)
<1> DEFINE n == Len(bs)
           b == NewTxBox(id, t)
           cs == Append(bs, b)
<1>1. b \in Box /\ InOrder(b) /\ b.id = id /\ b.lastnonce = t.nonce
  BY NewTxBoxInOrder
<1> HIDE DEF b
<1>2. /\ cs \in Seq(Box) /\ n \in Nat /\ Len(cs) = n + 1
      /\ cs[n + 1] = b /\ \A i \in 1..n : cs[i] = bs[i]
  BY <1>1, AppendProperties, LenProperties
<1> HIDE DEF cs, n
<1>3. \A d \in Boxes(cs) \cup V : d = b \/ d \in Boxes(bs) \cup V
  <2>1. \A i \in 1..Len(cs) : cs[i] = b \/ cs[i] \in Boxes(bs)
    <3>1. \A i \in 1..n + 1 : i = n + 1 \/ i \in 1..n
      BY <1>2
    <3>2. QED
      BY <1>2, <3>1 DEF Boxes, n
  <2>2. QED
    BY <2>1 DEF Boxes
<1>4. Sound(Boxes(cs) \cup V)
  BY <1>1, <1>3 DEF Sound
<1>5. QED
  BY <1>1, <1>2, <1>4 DEF cs, n, b

\* The fresh id of a sequence of boxes is an id nobody in it has.
LEMMA FreshIdNew ==
  ASSUME NEW bs \in Seq(Box)
  PROVE  FreshId(bs) \in Nat \ {0} /\ \A b \in Boxes(bs) : b.id # FreshId(bs)
BY FreshIdFresh, LenProperties DEF Boxes


-----------------------------------------------------------------------------
(* Entries of the index *)

\* The entries of x at the places in D are entries of y, at other places each.
MovesBy(x, y, D, g) ==
  /\ D \subseteq 1..Len(x)
  /\ g \in [D -> 1..Len(y)]
  /\ \A i, j \in D : g[i] = g[j] => i = j
  /\ \A i \in D : y[g[i]] = x[i]

\* Boxes that are found are found when no entry of their account is lost.
LEMMA FindsMoved ==
  ASSUME NEW x, NEW y, NEW D, NEW g, MovesBy(x, y, D, g),
         NEW a, NEW bs, NEW k \in Nat, Finds(x, a, bs, k),
         \A i \in 1..Len(x) : x[i].addr = a => i \in D
  PROVE  Finds(y, a, bs, k)
<1>1. PICK f : FindsBy(x, a, bs, k, f)
  BY DEF Finds
<1>2. \A i \in 1..k : f[i] \in D
  <2> TAKE i \in 1..k
  <2>1. f[i] \in 1..Len(x) /\ x[f[i]] = [addr |-> a, price |-> bs[i].gasprice]
    BY <1>1 DEF FindsBy
  <2>2. x[f[i]].addr = a
    BY <2>1
  <2>3. QED
    BY <2>1, <2>2
<1> DEFINE h == [i \in 1..k |-> g[f[i]]]
<1>3. h \in [1..k -> 1..Len(y)]
  BY <1>2 DEF MovesBy
<1>4. \A i \in 1..k : h[i] = g[f[i]]
  OBVIOUS
<1> HIDE DEF h
<1>5. \A i, j \in 1..k : h[i] = h[j] => i = j
  BY <1>1, <1>2, <1>4 DEF MovesBy, FindsBy
<1>6. \A i \in 1..k : y[h[i]] = [addr |-> a, price |-> bs[i].gasprice]
  BY <1>1, <1>2, <1>4 DEF MovesBy, FindsBy
<1>7. FindsBy(y, a, bs, k, h)
  BY <1>3, <1>5, <1>6 DEF FindsBy
<1>8. QED
  BY <1>7 DEF Finds

\* One box more is found when an entry is added for it.
LEMMA FindsNext ==
  ASSUME NEW x, NEW y, NEW g, MovesBy(x, y, 1..Len(x), g),
         NEW a, NEW bs, NEW k \in Nat, Finds(x, a, bs, k),
         NEW l \in 1..Len(y), \A i \in 1..Len(x) : g[i] # l,
         y[l] = [addr |-> a, price |-> bs[k + 1].gasprice]
  PROVE  Finds(y, a, bs, k + 1)
<1>1. PICK f : FindsBy(x, a, bs, k, f)
  BY DEF Finds
<1>2. /\ f \in [1..k -> 1..Len(x)]
      /\ \A i, j \in 1..k : f[i] = f[j] => i = j
      /\ \A i \in 1..k : x[f[i]] = [addr |-> a, price |-> bs[i].gasprice]
  BY <1>1 DEF FindsBy
<1>3. /\ g \in [1..Len(x) -> 1..Len(y)]
      /\ \A i, j \in 1..Len(x) : g[i] = g[j] => i = j
      /\ \A i \in 1..Len(x) : y[g[i]] = x[i]
  BY DEF MovesBy
<1> DEFINE h == [i \in 1..k + 1 |-> IF i = k + 1 THEN l ELSE g[f[i]]]
<1>4. \A i \in 1..k + 1 : i = k + 1 \/ (i \in 1..k /\ i # k + 1)
  OBVIOUS
<1>5. \A i \in 1..k : f[i] \in 1..Len(x)
  BY <1>2
<1>6. h \in [1..k + 1 -> 1..Len(y)]
  <2>1. \A i \in 1..k : g[f[i]] \in 1..Len(y)
    BY <1>3, <1>5
  <2>2. QED
    BY <1>4, <2>1
<1>7. h[k + 1] = l /\ \A i \in 1..k : h[i] = g[f[i]]
  OBVIOUS
<1> HIDE DEF h
<1>8. ASSUME NEW i \in 1..k + 1, NEW j \in 1..k + 1, h[i] = h[j] PROVE i = j
  <2>1. CASE i = k + 1 /\ j = k + 1
    BY <2>1
  <2>2. CASE i = k + 1 /\ j \in 1..k
    BY <1>5, <1>7, <1>8, <2>2
  <2>3. CASE i \in 1..k /\ j = k + 1
    BY <1>5, <1>7, <1>8, <2>3
  <2>4. CASE i \in 1..k /\ j \in 1..k
    <3>1. g[f[i]] = g[f[j]]
      BY <1>7, <1>8, <2>4
    <3>2. f[i] = f[j]
      BY <1>3, <1>5, <2>4, <3>1
    <3>3. QED
      BY <1>2, <2>4, <3>2
  <2>5. QED
    BY <1>4, <2>1, <2>2, <2>3, <2>4
<1>9. \A i \in 1..k + 1 : y[h[i]] = [addr |-> a, price |-> bs[i].gasprice]
  <2>1. \A i \in 1..k : y[h[i]] = x[f[i]]
    BY <1>3, <1>5, <1>7
  <2>2. QED
    BY <1>2, <1>4, <1>7, <2>1
<1>10. FindsBy(y, a, bs, k + 1, h)
  BY <1>6, <1>8, <1>9 DEF FindsBy
<1>11. QED
  BY <1>10 DEF Finds

\* Only the prices of boxes are looked up, wherever the boxes stand.
LEMMA FindsSame ==
  ASSUME NEW x, NEW a, NEW bs, NEW k, Finds(x, a, bs, k), NEW m \in Nat, NEW d \in Nat,
         m + d = k, NEW cs, \A i \in 1..m : cs[i].gasprice = bs[i + d].gasprice
  PROVE  Finds(x, a, cs, m)
<1>1. PICK f : FindsBy(x, a, bs, k, f)
  BY DEF Finds
<1> DEFINE h == [i \in 1..m |-> f[i + d]]
<1>2. \A i \in 1..m : i + d \in 1..k
  OBVIOUS
<1>3. h \in [1..m -> 1..Len(x)]
  BY <1>1, <1>2 DEF FindsBy
<1>4. \A i \in 1..m : h[i] = f[i + d]
  OBVIOUS
<1> HIDE DEF h
<1>5. \A i, j \in 1..m : h[i] = h[j] => i = j
  <2>1. SUFFICES ASSUME NEW i \in 1..m, NEW j \in 1..m, h[i] = h[j] PROVE i = j
    OBVIOUS
  <2>2. f[i + d] = f[j + d]
    BY <1>4, <2>1
  <2>3. i + d = j + d
    BY <1>1, <1>2, <2>2 DEF FindsBy
  <2>4. QED
    BY <2>3
<1>6. \A i \in 1..m : x[h[i]] = [addr |-> a, price |-> cs[i].gasprice]
  <2> TAKE i \in 1..m
  <2>1. x[f[i + d]] = [addr |-> a, price |-> bs[i + d].gasprice]
    BY <1>1, <1>2 DEF FindsBy
  <2>2. QED
    BY <1>4, <2>1
<1>7. FindsBy(x, a, cs, m, h)
  BY <1>3, <1>5, <1>6 DEF FindsBy
<1>8. QED
  BY <1>7 DEF Finds

\* Sorting in keeps the order and moves the entries, and adds one for the box.
LEMMA SortInMoves ==
  ASSUME NEW index \in Seq(Entry), Ordered(index), NEW a \in Addr,
         NEW b, b.gasprice \in Price
  PROVE  LET x == SortIn(index, a, b)
         IN  /\ x \in Seq(Entry) /\ Ordered(x)
             /\ \E g, l : /\ MovesBy(index, x, 1..Len(index), g)
                          /\ l \in 1..Len(x)
                          /\ \A i \in 1..Len(index) : g[i] # l
                          /\ x[l] = [addr |-> a, price |-> b.gasprice]
<1> DEFINE n == Len(index)
           c == Cardinality({i \in DOMAIN index : index[i].price <= b.gasprice})
           e == [addr |-> a, price |-> b.gasprice]
           x == SortIn(index, a, b)
<1>1. x \in Seq(Entry) /\ Ordered(x)
  BY SortInOrdered
<1>2. n \in Nat /\ e \in Entry
  BY LenProperties DEF Entry
<1>3. c \in 0..n
  BY CheaperFirst
<1>4. x = InsertAt(index, c + 1, e)
  BY DEF SortIn
<1> HIDE DEF c, e, x
<1>5. /\ Len(x) = n + 1
      /\ \A j \in 1..n + 1 :
           x[j] = IF j <= c THEN index[j] ELSE IF j = c + 1 THEN e ELSE index[j - 1]
  <2> DEFINE y == InsertAt(index, c + 1, e)
  <2>1. /\ Len(y) = Len(index) + 1
        /\ \A j \in 1..Len(index) + 1 :
             y[j] = IF j <= c THEN index[j] ELSE IF j = c + 1 THEN e ELSE index[j - 1]
    <3>1. c \in 0..Len(index)
      BY <1>3
    <3> HIDE DEF n
    <3>2. QED
      BY <1>2, <3>1, InsertAtProperties
  <2> HIDE DEF y
  <2>2. QED
    BY <1>4, <2>1 DEF y
<1> HIDE DEF n
<1> DEFINE g == [i \in 1..n |-> IF i <= c THEN i ELSE i + 1]
<1>6. /\ g \in [1..n -> 1..n + 1]
      /\ \A i \in 1..n : g[i] = IF i <= c THEN i ELSE i + 1
  BY <1>2, <1>3
<1> HIDE DEF g
<1>7. \A i, j \in 1..n : g[i] = g[j] => i = j
  BY <1>2, <1>3, <1>6
<1>8. \A i \in 1..n : x[g[i]] = index[i] /\ g[i] # c + 1
  <2> TAKE i \in 1..n
  <2>1. CASE i <= c
    <3>1. g[i] = i /\ i \in 1..n + 1 /\ i # c + 1
      BY <1>2, <1>3, <1>6, <2>1
    <3>2. QED
      BY <1>5, <2>1, <3>1
  <2>2. CASE ~(i <= c)
    <3>1. /\ g[i] = i + 1 /\ i + 1 \in 1..n + 1 /\ i + 1 # c + 1
          /\ ~(i + 1 <= c) /\ (i + 1) - 1 = i
      BY <1>2, <1>3, <1>6, <2>2
    <3>2. x[i + 1] = index[(i + 1) - 1]
      BY <1>5, <3>1
    <3>3. QED
      BY <3>1, <3>2
  <2>3. QED
    BY <2>1, <2>2
<1>9. c + 1 \in 1..n + 1 /\ x[c + 1] = e
  BY <1>2, <1>3, <1>5
<1>10. MovesBy(index, x, 1..n, g)
  BY <1>5, <1>6, <1>7, <1>8 DEF MovesBy, n
<1>11. QED
  BY <1>1, <1>5, <1>8, <1>9, <1>10 DEF n, x, e


-----------------------------------------------------------------------------
(* Placing transactions *)

\* The index finds the first k of the boxes bs of a, and all of the others'.
IndexFor(x, a, bs, k) ==
  /\ x \in Seq(Entry) /\ Ordered(x)
  /\ Finds(x, a, bs, k)
  /\ \A b \in Addr \ {a} : Finds(x, b, pending[b], Len(pending[b]))

\* Sorting in another box.
LEMMA SortInIndex ==
  ASSUME pending \in [Addr -> Seq(Box)], NEW a \in Addr, NEW bs, NEW k \in Nat,
         NEW x, IndexFor(x, a, bs, k),
         NEW b, b.gasprice \in Price, b.gasprice = bs[k + 1].gasprice
  PROVE  IndexFor(SortIn(x, a, b), a, bs, k + 1)
<1> DEFINE y == SortIn(x, a, b)
<1>1. x \in Seq(Entry) /\ Ordered(x) /\ Finds(x, a, bs, k)
  BY DEF IndexFor
<1>2. /\ y \in Seq(Entry) /\ Ordered(y)
      /\ \E g, l : /\ MovesBy(x, y, 1..Len(x), g)
                   /\ l \in 1..Len(y)
                   /\ \A i \in 1..Len(x) : g[i] # l
                   /\ y[l] = [addr |-> a, price |-> b.gasprice]
  BY <1>1, SortInMoves
<1> HIDE DEF y
<1>3. PICK g, l : /\ MovesBy(x, y, 1..Len(x), g)
                  /\ l \in 1..Len(y)
                  /\ \A i \in 1..Len(x) : g[i] # l
                  /\ y[l] = [addr |-> a, price |-> b.gasprice]
  BY <1>2
<1>4. Finds(y, a, bs, k + 1)
  BY <1>1, <1>3, FindsNext
<1>5. ASSUME NEW c \in Addr \ {a}
      PROVE  Finds(y, c, pending[c], Len(pending[c]))
  <2> DEFINE cs == pending[c]
             m == Len(cs)
  <2>1. m \in Nat /\ Finds(x, c, cs, m)
    BY LenProperties DEF IndexFor
  <2> HIDE DEF m, cs
  <2>2. Finds(y, c, cs, m)
    BY <1>3, <2>1, FindsMoved
  <2>3. QED
    BY <2>2 DEF cs, m
<1>6. QED
  BY <1>2, <1>4, <1>5 DEF IndexFor, y

\* The parts of the invariant that a placement may disturb.
LotSound(a, p) ==
  /\ p \in Lot
  /\ Sound(Boxes(p.boxes))
  /\ IndexFor(p.index, a, p.boxes, Len(p.boxes))

\* One transaction is placed.
LEMMA PlaceSound ==
  ASSUME pending \in [Addr -> Seq(Box)],
         NEW a \in Addr, NEW p, LotSound(a, p), NEW t \in Tx,
         Len(p.boxes) # 0 => t.nonce = p.boxes[Len(p.boxes)].lastnonce + 1
  PROVE  LET q == Place(a, p, t)
         IN  /\ LotSound(a, q)
             /\ Len(q.boxes) # 0
             /\ q.boxes[Len(q.boxes)].lastnonce = t.nonce
<1> DEFINE bs == p.boxes
           n == Len(bs)
           q == Place(a, p, t)
<1>1. /\ bs \in Seq(Box) /\ p.index \in Seq(Entry) /\ Sound(Boxes(bs))
      /\ IndexFor(p.index, a, bs, n)
      /\ p = [boxes |-> bs, index |-> p.index]
  BY DEF LotSound, Lot
<1>2. n \in Nat /\ (bs # <<>> <=> n # 0)
  BY <1>1, LenProperties, EmptySeq
<1>3. Sound(Boxes(bs) \cup {})
  BY <1>1
<1>4. CASE bs # <<>> /\ t.price >= bs[n].gasprice
  <2> DEFINE cs == WriteBox(bs, Enqueue(bs[n], t))
  <2>1. /\ cs \in Seq(Box) /\ Len(cs) = n
        /\ cs[Len(cs)].lastnonce = t.nonce
        /\ \A i \in 1..n : cs[i].gasprice = bs[i].gasprice
        /\ Sound(Boxes(cs) \cup {})
    BY <1>1, <1>2, <1>3, <1>4, JoinSound
  <2>2. q = [boxes |-> cs, index |-> p.index]
    <3>1. q = [p EXCEPT !.boxes = cs]
      BY <1>4 DEF Place, Last
    <3> HIDE DEF cs, bs, q
    <3>2. QED
      BY <1>1, <3>1
  <2> HIDE DEF cs, q, bs, n
  <2>3. q.boxes = cs /\ q.index = p.index /\ q \in Lot
    BY <1>1, <2>1, <2>2 DEF Lot
  <2>4. IndexFor(p.index, a, cs, n)
    <3>1. Finds(p.index, a, bs, n)
      BY <1>1 DEF IndexFor
    <3>2. 0 \in Nat /\ n + 0 = n /\ \A i \in 1..n : cs[i].gasprice = bs[i + 0].gasprice
      BY <1>2, <2>1
    <3>3. Finds(p.index, a, cs, n)
      BY <1>2, <3>1, <3>2, FindsSame
    <3>4. QED
      BY <1>1, <3>3 DEF IndexFor
  <2>5. Sound(Boxes(cs))
    BY <2>1, SoundSubset
  <2>6. QED
    BY <1>2, <1>4, <2>1, <2>3, <2>4, <2>5 DEF LotSound, q
<1>5. CASE ~(bs # <<>> /\ t.price >= bs[n].gasprice)
  <2> DEFINE id == FreshId(bs)
             b == NewTxBox(id, t)
             cs == Append(bs, b)
             x == SortIn(p.index, a, b)
  <2>1. id \in Nat \ {0} /\ \A c \in Boxes(bs) \cup {} : c.id # id
    BY <1>1, FreshIdNew
  <2>2. b.gasprice \in Price
    BY DEF NewTxBox, Tx
  <2>3. q = [boxes |-> cs, index |-> x]
    BY <1>5 DEF Place, Last
  <2> HIDE DEF id
  <2>4. /\ cs \in Seq(Box) /\ Len(cs) = n + 1
        /\ cs[Len(cs)] = b /\ b.lastnonce = t.nonce
        /\ \A i \in 1..n : cs[i] = bs[i]
        /\ Sound(Boxes(cs) \cup {})
    BY <1>1, <1>3, <2>1, OpenSound
  <2> HIDE DEF b, cs, bs, n
  <2>5. IndexFor(x, a, cs, n + 1)
    <3> DEFINE index == p.index
    <3>1. Finds(index, a, bs, n)
      BY <1>1 DEF IndexFor
    <3>2. 0 \in Nat /\ n + 0 = n /\ \A i \in 1..n : cs[i].gasprice = bs[i + 0].gasprice
      BY <1>2, <2>4
    <3> HIDE DEF index
    <3>3. Finds(index, a, cs, n)
      BY <1>2, <3>1, <3>2, FindsSame
    <3>4. IndexFor(index, a, cs, n)
      BY <1>1, <3>3 DEF IndexFor, index
    <3>5. b.gasprice = cs[n + 1].gasprice
      BY <2>4
    <3>6. IndexFor(SortIn(index, a, b), a, cs, n + 1)
      BY <1>2, <2>2, <3>4, <3>5, SortInIndex
    <3>7. QED
      BY <3>6 DEF index
  <2> HIDE DEF x, q
  <2>6. q.boxes = cs /\ q.index = x /\ q \in Lot
    BY <2>3, <2>4, <2>5 DEF Lot, IndexFor
  <2>7. Sound(Boxes(cs))
    BY <2>4, SoundSubset
  <2>8. QED
    BY <1>2, <2>4, <2>5, <2>6, <2>7 DEF LotSound, q
<1>6. QED
  BY <1>4, <1>5

\* The nonces up to the last one are placed one after the other.
LEMMA PlacesSound ==
  ASSUME PoolFound, NEW a \in Addr, NEW t \in Tx, t.nonce = Base(a) + 1,
         NEW g, Places(a, t, Reached(a, t), g)
  PROVE  \A n \in t.nonce..Reached(a, t) :
           /\ LotSound(a, g[n])
           /\ Len(g[n].boxes) # 0
           /\ g[n].boxes[Len(g[n].boxes)].lastnonce = n
<1> DEFINE k0 == t.nonce
           m == Reached(a, t)
           Good(n) == /\ LotSound(a, g[n])
                      /\ Len(g[n].boxes) # 0
                      /\ g[n].boxes[Len(g[n].boxes)].lastnonce = n
           C == {n \in Nat : n \in k0..m /\ ~Good(n)}
<1>0. QueueOK /\ pending \in [Addr -> Seq(Box)]
  BY DEF PoolFound, QueueOK
<1>1. k0 \in Nat /\ m \in Nat /\ Reaches(queue[a], k0, m)
  BY <1>0, ReachedReaches, BoundsAssumption DEF Tx, Nonce
<1>2. SUFFICES ASSUME C # {} PROVE FALSE
  BY <1>1
<1>3. PICK n \in C : \A k \in C : n <= k
  <2>1. C \subseteq Nat
    OBVIOUS
  <2> HIDE DEF C
  <2>2. QED
    BY <1>2, <2>1, LeastNatural
<1>4. n \in k0..m /\ n \in Nat /\ ~Good(n)
  BY <1>3
<1>5. g[n] = Place(a, IF n = k0 THEN OldLot(a) ELSE g[n - 1], NextTx(a, t, n))
  BY <1>4 DEF Places
<1>6. CASE n = k0
  <2>1. NextTx(a, t, n) = t
    BY <1>6 DEF NextTx
  <2>2. Len(pending[a]) # 0 => t.nonce = pending[a][Len(pending[a])].lastnonce + 1
    <3>1. Len(pending[a]) # 0 => pending[a] # <<>>
      OBVIOUS
    <3>2. QED
      BY <3>1 DEF Base, Last
  <2> DEFINE p == OldLot(a)
  <2>3. p.boxes = pending[a] /\ p.index = Sortedboxes /\ g[n] = Place(a, p, t)
    BY <1>5, <1>6, <2>1 DEF OldLot
  <2>4. LotSound(a, p)
    BY DEF LotSound, OldLot, Lot, PoolFound, IndexFor
  <2> HIDE DEF p
  <2>5. Len(p.boxes) # 0 => t.nonce = p.boxes[Len(p.boxes)].lastnonce + 1
    BY <2>2, <2>3
  <2> DEFINE q == Place(a, p, t)
  <2>6. LotSound(a, q) /\ Len(q.boxes) # 0 /\ q.boxes[Len(q.boxes)].lastnonce = t.nonce
    BY <1>0, <2>4, <2>5, PlaceSound
  <2>7. QED
    BY <1>4, <1>6, <2>3, <2>6
<1>7. CASE n # k0
  <2> DEFINE p == g[n - 1]
             u == NextTx(a, t, n)
  <2>1. n - 1 \in k0..m /\ n - 1 \in Nat /\ ~(n <= n - 1)
    BY <1>1, <1>4, <1>7
  <2>2. Good(n - 1)
    BY <1>3, <2>1
  <2>3. u \in Tx /\ u.nonce = n
    <3>1. n \in k0 + 1..m
      BY <1>1, <1>4, <1>7
    <3>2. \E v \in queue[a] : v.nonce = n
      BY <1>1, <3>1 DEF Reaches
    <3>3. u \in queue[a] /\ u.nonce = n
      BY <1>7, <3>2 DEF NextTx
    <3>4. QED
      BY <1>0, <3>3 DEF QueueOK
  <2>4. g[n] = Place(a, p, u)
    BY <1>5, <1>7
  <2>5. /\ LotSound(a, p)
        /\ Len(p.boxes) # 0 => u.nonce = p.boxes[Len(p.boxes)].lastnonce + 1
    BY <1>4, <2>2, <2>3
  <2> HIDE DEF p, u, C
  <2> DEFINE q == Place(a, p, u)
  <2>6. LotSound(a, q) /\ Len(q.boxes) # 0 /\ q.boxes[Len(q.boxes)].lastnonce = u.nonce
    BY <1>0, <2>3, <2>5, PlaceSound
  <2>7. QED
    BY <1>4, <2>3, <2>4, <2>6
<1>8. QED
  BY <1>6, <1>7

\* A transaction that becomes pending, with the queued ones behind it.
LEMMA PlacedSound ==
  ASSUME PoolFound, NEW a \in Addr, NEW t \in Tx, t.nonce = Base(a) + 1
  PROVE  LotSound(a, Placed(a, t))
<1>1. QueueOK
  BY DEF PoolFound, QueueOK
<1>2. PICK g : Places(a, t, Reached(a, t), g) /\ Placed(a, t) = g[Reached(a, t)]
  BY <1>1, PlacedIsPlaces
<1>3. Reached(a, t) \in t.nonce..Reached(a, t)
  BY <1>1, ReachedReaches, BoundsAssumption DEF Tx, Nonce
<1>4. QED
  BY <1>2, <1>3, PlacesSound


-----------------------------------------------------------------------------
(* Steps that change the boxes of one account *)

\* Such a step keeps the invariant when the new boxes are sound and found.
LEMMA BoxesStep ==
  ASSUME PoolFound, NEW a \in Addr, NEW bs \in Seq(Box), Sound(Boxes(bs)),
         IndexFor(Sortedboxes', a, bs, Len(bs)),
         pending' = [pending EXCEPT ![a] = bs],
         queue' \in [Addr -> SUBSET Tx], crashed' \in BOOLEAN
  PROVE  PoolFound'
<1>1. pending \in [Addr -> Seq(Box)]
  BY DEF PoolFound
<1>2. /\ pending' \in [Addr -> Seq(Box)]
      /\ pending'[a] = bs
      /\ \A b \in Addr \ {a} : pending'[b] = pending[b]
  BY <1>1
<1>3. Sortedboxes' \in Seq(Entry) /\ Ordered(Sortedboxes')
  BY DEF IndexFor
<1>4. ASSUME NEW b \in Addr
      PROVE  /\ Sound(Boxes(pending'[b]))
             /\ Finds(Sortedboxes', b, pending'[b], Len(pending'[b]))
  <2>1. CASE b = a
    BY <1>2, <2>1 DEF IndexFor
  <2>2. CASE b # a
    <3>1. pending'[b] = pending[b] /\ Sound(Boxes(pending[b]))
      BY <1>2, <2>2 DEF PoolFound
    <3>2. Finds(Sortedboxes', b, pending[b], Len(pending[b]))
      BY <2>2 DEF IndexFor
    <3>3. QED
      BY <3>1, <3>2
  <2>3. QED
    BY <2>1, <2>2
<1>5. QED
  BY <1>2, <1>3, <1>4 DEF PoolFound

\* What the invariant says of an account.
LEMMA AccountFound ==
  ASSUME PoolFound, NEW a \in Addr
  PROVE  /\ pending[a] \in Seq(Box) /\ Sound(Boxes(pending[a]))
         /\ IndexFor(Sortedboxes, a, pending[a], Len(pending[a]))
BY DEF PoolFound, IndexFor

\* Queueing keeps the invariant.
LEMMA AddQueueFound ==
  ASSUME PoolFound, NEW a \in Addr, NEW t \in Tx, addQueueTx(a, t)
  PROVE  PoolFound'
<1>1. queue' \in [Addr -> SUBSET Tx]
  BY DEF addQueueTx, PoolFound
<1>2. pending' = pending /\ Sortedboxes' = Sortedboxes /\ crashed' = crashed
  BY DEF addQueueTx
<1>3. QED
  BY <1>1, <1>2 DEF PoolFound

\* Adding to the pending transactions keeps the invariant.
LEMMA AddPendingFound ==
  ASSUME PoolFound, NEW a \in Addr, NEW t \in Tx, addPendingTx(a, t)
  PROVE  PoolFound'
<1> DEFINE p == Placed(a, t)
           bs == p.boxes
<1>1. /\ t.nonce = Base(a) + 1
      /\ pending' = [pending EXCEPT ![a] = bs]
      /\ Sortedboxes' = p.index
      /\ queue' = [queue EXCEPT ![a] = {u \in @ : u.nonce > Reached(a, t)}]
      /\ crashed' = crashed
  BY DEF addPendingTx
<1>2. LotSound(a, p)
  BY <1>1, PlacedSound
<1> HIDE DEF p
<1>3. /\ bs \in Seq(Box) /\ Sound(Boxes(bs))
      /\ IndexFor(Sortedboxes', a, bs, Len(bs))
  BY <1>1, <1>2 DEF LotSound, Lot
<1>4. queue' \in [Addr -> SUBSET Tx] /\ crashed' \in BOOLEAN
  BY <1>1 DEF PoolFound
<1> HIDE DEF bs
<1>5. QED
  BY <1>1, <1>3, <1>4, BoxesStep

\* The account Pop looks at, and what it returns.
LEMMA PoppedFound ==
  ASSUME PoolFound, CanPop
  PROVE  /\ PopAddr \in Addr /\ pending[PopAddr] \in Seq(Box)
         /\ Len(pending[PopAddr]) \in Nat \ {0}
         /\ Popped # NoTx => Popped \in Tx
<1> DEFINE a == PopAddr
           bs == pending[a]
           b == bs[1]
<1>1. PopAddr \in Addr
  <2>1. Sortedboxes \in Seq(Entry) /\ Sortedboxes # <<>>
    BY DEF PoolFound, CanPop
  <2>2. 1 \in 1..Len(Sortedboxes)
    BY <2>1, EmptySeq, LenProperties
  <2>3. Sortedboxes[1] \in Entry
    BY <2>1, <2>2, ElementOfSeq
  <2>4. QED
    BY <2>3 DEF PopAddr, Entry
<1> HIDE DEF a
<1>2. bs \in Seq(Box) /\ bs # <<>>
  BY <1>1 DEF PoolFound, CanPop, a
<1>3. Len(bs) # 0 /\ Len(bs) \in Nat /\ 1 \in 1..Len(bs)
  BY <1>2, EmptySeq, LenProperties
<1>4. b \in Box /\ b.txs \in Seq(Tx)
  <2> HIDE DEF bs
  <2>1. b \in Box
    BY <1>2, <1>3, ElementOfSeq
  <2>2. QED
    BY <2>1 DEF Box
<1>5. ASSUME Popped # NoTx PROVE Popped \in Tx
  <2>1. Popped = b.txs[1] /\ b.txs # <<>>
    BY <1>5 DEF Popped, a
  <2> HIDE DEF b
  <2>2. 1 \in 1..Len(b.txs)
    BY <1>4, <2>1, EmptySeq, LenProperties
  <2>3. QED
    BY <1>4, <2>1, <2>2, ElementOfSeq
<1>6. QED
  BY <1>1, <1>2, <1>3, <1>5 DEF a

\* A transaction that leaves a box, also when the box is empty.
LEMMA LeaveSound ==
  ASSUME NEW V, NEW bs \in Seq(Box), Sound(Boxes(bs) \cup V),
         NEW k \in 1..Len(bs)
  PROVE  LET ws == WriteBox(bs, Dequeue(bs[k]))
         IN  /\ ws \in Seq(Box) /\ Len(ws) = Len(bs)
             /\ \A i \in 1..Len(bs) : ws[i].gasprice = bs[i].gasprice
             /\ Sound(Boxes(ws) \cup V)
<1> DEFINE b == bs[k]
           c == Dequeue(b)
<1>1. b \in Box /\ Len(bs) \in Nat /\ k \in 1..Len(bs)
  BY ElementOfSeq, LenProperties
<1>2. InOrder(b)
  BY DEF Sound, Boxes
<1> HIDE DEF b
<1>3. c \in Box /\ InOrder(c) /\ c.id = b.id /\ c.gasprice = b.gasprice
  BY <1>1, <1>2, DequeueInOrder
<1> DEFINE ws == WriteBox(bs, c)
<1> HIDE DEF c
<1>4. /\ ws \in Seq(Box) /\ Len(ws) = Len(bs) /\ ws[k] = c
      /\ \A i \in 1..Len(bs) : ws[i].gasprice = bs[i].gasprice
      /\ Sound(Boxes(ws) \cup V)
  BY <1>1, <1>3, WriteSound DEF b
<1> HIDE DEF ws
<1>5. QED
  BY <1>4 DEF ws, c, b

\* Taking the first transaction of an account's first box, also when the box is
\* empty or has aliases.
LEMMA PopBoxesSound ==
  ASSUME NEW bs \in Seq(Box), Sound(Boxes(bs)), Len(bs) # 0,
         NEW x, NEW a, Finds(x, a, bs, Len(bs))
  PROVE  LET cs == PopBoxes(bs)
         IN  cs \in Seq(Box) /\ Sound(Boxes(cs)) /\ Finds(x, a, cs, Len(cs))
<1> DEFINE n == Len(bs)
           b == bs[1]
           c == Dequeue(b)
           ws == WriteBox(bs, c)
           cs == PopBoxes(bs)
<1>1. n \in Nat /\ 1 \in 1..n
  BY LenProperties
<1>2. PICK k \in 1..Len(bs) : k = 1
  BY <1>1
<1> HIDE DEF c
<1>3. c = Dequeue(bs[k])
  BY <1>2 DEF c
<1>4. \A V : Sound(Boxes(bs) \cup V) =>
        /\ ws \in Seq(Box) /\ Len(ws) = n
        /\ \A i \in 1..n : ws[i].gasprice = bs[i].gasprice
        /\ Sound(Boxes(ws) \cup V)
  BY <1>3, LeaveSound
<1>5. /\ ws \in Seq(Box) /\ Len(ws) = n
      /\ \A i \in 1..n : ws[i].gasprice = bs[i].gasprice
      /\ Sound(Boxes(ws) \cup {})
  <2>1. Sound(Boxes(bs) \cup {})
    OBVIOUS
  <2> HIDE DEF ws
  <2>2. QED
    BY <1>4, <2>1
<1> HIDE DEF ws
<1>6. Sound(Boxes(ws))
  BY <1>5, SoundSubset
<1>7. cs = IF ws[1].txs = <<>> THEN Tail(ws) ELSE ws
  BY DEF PopBoxes, ws, c, b
<1> HIDE DEF cs, n
<1>8. CASE cs = ws
  <2>1. 0 \in Nat /\ n + 0 = n /\ \A i \in 1..n : ws[i].gasprice = bs[i + 0].gasprice
    BY <1>1, <1>5
  <2>2. Finds(x, a, ws, n)
    BY <1>1, <2>1, FindsSame DEF n
  <2>3. QED
    BY <1>5, <1>6, <1>8, <2>2 DEF cs
<1>9. CASE cs = Tail(ws)
  <2>1. ws # <<>>
    BY <1>1, <1>5, EmptySeq
  <2>2. /\ cs \in Seq(Box) /\ Len(cs) = n - 1
        /\ \A i \in 1..n - 1 : cs[i] = ws[i + 1]
    BY <1>5, <1>9, <2>1, HeadTailProperties
  <2>3. n - 1 \in Nat /\ 1 \in Nat /\ (n - 1) + 1 = n
    BY <1>1
  <2>4. \A i \in 1..n - 1 : cs[i].gasprice = bs[i + 1].gasprice
    <3>1. \A i \in 1..n - 1 : i + 1 \in 1..n
      BY <1>1
    <3>2. QED
      BY <1>5, <2>2, <3>1
  <2> DEFINE m == n - 1
  <2>5. Finds(x, a, cs, m)
    <3>1. m \in Nat /\ m + 1 = n /\ \A i \in 1..m : cs[i].gasprice = bs[i + 1].gasprice
      BY <2>3, <2>4
    <3>2. Finds(x, a, bs, n)
      BY DEF n
    <3> HIDE DEF m
    <3>3. QED
      BY <2>3, <3>1, <3>2, FindsSame
  <2>6. Boxes(cs) \subseteq Boxes(ws)
    <3>1. \A i \in 1..Len(cs) : cs[i] = ws[i + 1] /\ i + 1 \in 1..Len(ws)
      BY <1>1, <1>5, <2>2
    <3>2. QED
      BY <3>1 DEF Boxes
  <2>7. Sound(Boxes(cs))
    BY <1>6, <2>6, SoundSubset
  <2>8. QED
    BY <2>2, <2>5, <2>7 DEF cs
<1>10. QED
  BY <1>7, <1>8, <1>9

\* Pop keeps the invariant.
LEMMA PopFound ==
  ASSUME PoolFound, Pop
  PROVE  PoolFound'
<1> DEFINE a == PopAddr
           bs == pending[a]
           cs == PopBoxes(bs)
<1>1. /\ CanPop /\ queue' = queue /\ Sortedboxes' = Sortedboxes /\ crashed' = crashed
      /\ pending' = [pending EXCEPT ![a] = cs]
  BY DEF Pop, PopBoxes
<1>2. a \in Addr /\ Len(bs) # 0
  BY <1>1, PoppedFound
<1> HIDE DEF a
<1>3. /\ bs \in Seq(Box) /\ Sound(Boxes(bs))
      /\ IndexFor(Sortedboxes, a, bs, Len(bs))
  BY <1>2, AccountFound
<1> HIDE DEF bs
<1>4. Finds(Sortedboxes, a, bs, Len(bs))
  BY <1>3 DEF IndexFor
<1>5. cs \in Seq(Box) /\ Sound(Boxes(cs)) /\ Finds(Sortedboxes, a, cs, Len(cs))
  BY <1>2, <1>3, <1>4, PopBoxesSound
<1> HIDE DEF cs
<1>6. IndexFor(Sortedboxes', a, cs, Len(cs))
  BY <1>1, <1>3, <1>5 DEF IndexFor
<1>7. queue' \in [Addr -> SUBSET Tx] /\ crashed' \in BOOLEAN
  BY <1>1 DEF PoolFound
<1>8. QED
  BY <1>1, <1>2, <1>5, <1>6, <1>7, BoxesStep



-----------------------------------------------------------------------------
(* A replacement sorts all boxes of the account into the index *)

\* What the index comes to.
SortedIn(x, a, bs) == FoldLeft(LAMBDA y, b : SortIn(y, a, b), x, bs)

\* There is a run that comes to it.
LEMMA SortedInRun ==
  ASSUME NEW a \in Addr, NEW bs \in Seq(Box), NEW x \in Seq(Entry), Ordered(x)
  PROVE  \E g : /\ g[0] = x
                /\ \A k \in 1..Len(bs) : g[k] = SortIn(g[k - 1], a, bs[k])
                /\ g[Len(bs)] = SortedIn(x, a, bs)
<1> DEFINE n == Len(bs)
           St == {y \in Seq(Entry) : Ordered(y)}
           step == [y \in St \X (1..n) |-> SortIn(y[1], a, bs[y[2]])]
<1>1. n \in Nat /\ DOMAIN bs = 1..n /\ \A k \in 1..n : bs[k].gasprice \in Price
  <2>1. n \in Nat /\ DOMAIN bs = 1..n /\ \A k \in 1..n : bs[k] \in Box
    BY LenProperties, ElementOfSeq
  <2>2. QED
    BY <2>1 DEF Box
<1>2. x \in St
  OBVIOUS
<1> HIDE DEF n
<1>3. \A y \in St, k \in 1..n : step[<<y, k>>] = SortIn(y, a, bs[k])
  OBVIOUS
<1>4. ASSUME NEW y \in St, NEW k \in 1..n PROVE SortIn(y, a, bs[k]) \in St
  <2> DEFINE b == bs[k]
  <2>1. y \in Seq(Entry) /\ Ordered(y) /\ b.gasprice \in Price
    BY <1>1
  <2> HIDE DEF b
  <2>2. SortIn(y, a, b) \in Seq(Entry) /\ Ordered(SortIn(y, a, b))
    BY <2>1, SortInOrdered
  <2>3. QED
    BY <2>2 DEF b
<1> HIDE DEF St
<1>5. \A y \in St, k \in 1..n : step[<<y, k>>] \in St
  BY <1>3, <1>4
<1> HIDE DEF step
<1>6. PICK it \in [SUBSET (1..n) -> St] : Folds(x, step, 1..n, it)
  BY <1>1, <1>2, <1>5, FoldsExist
<1> DEFINE Is(f) == f = [s \in SUBSET DOMAIN bs |->
                           IF s = {} THEN x
                           ELSE SortIn(f[s \ {Max(s)}], a, bs[Max(s)])]
           F == CHOOSE f : Is(f)
<1>7. Is(it)
  <2>1. \A s \in SUBSET (1..n) :
          s # {} => /\ Max(s) \in 1..n /\ it[s \ {Max(s)}] \in St
    <3>1. SUFFICES ASSUME NEW s \in SUBSET (1..n), s # {}
                   PROVE  Max(s) \in 1..n /\ it[s \ {Max(s)}] \in St
      OBVIOUS
    <3>2. Max(s) \in s
      BY <1>1, <3>1, LargestIndex
    <3>3. QED
      BY <1>6, <3>2
  <2>2. QED
    BY <1>1, <1>3, <1>6, <2>1, ZenonT(60) DEF Folds
<1>8. Is(F)
  BY <1>7
<1>9. SortedIn(x, a, bs) = F[DOMAIN bs]
  BY DEF SortedIn, FoldLeft, MapThenFoldSet
<1> HIDE DEF F
<1>10. F[{}] = x
  <2>1. {} \in SUBSET DOMAIN bs
    OBVIOUS
  <2>2. QED
    BY <1>8, <2>1
<1>11. ASSUME NEW k \in 1..n PROVE F[1..k] = SortIn(F[1..(k - 1)], a, bs[k])
  <2>1. /\ 1..k \in SUBSET (1..n) /\ 1..k # {}
        /\ Max(1..k) = k /\ (1..k) \ {k} = 1..(k - 1)
    BY <1>1, LastIndex
  <2>2. F[1..k] = SortIn(F[(1..k) \ {Max(1..k)}], a, bs[Max(1..k)])
    BY <1>1, <1>8, <2>1
  <2>3. QED
    BY <2>1, <2>2
<1>12. TakesSteps(x, step, St, n, F)
  BY <1>3, <1>10, <1>11 DEF TakesSteps
<1>13. PICK g : RunOf(x, step, St, n, g) /\ g[n] = F[1..n]
  <2>1. RunsTo(x, step, St, n, F[1..n])
    BY <1>1, <1>2, <1>5, <1>12, FoldRuns
  <2>2. QED
    BY <2>1 DEF RunsTo
<1>14. \A k \in 1..n : g[k] = SortIn(g[k - 1], a, bs[k])
  <2>1. \A k \in 1..n : k - 1 \in 0..n
    BY <1>1
  <2>2. QED
    BY <1>3, <1>13, <2>1 DEF RunOf
<1>15. QED
  BY <1>1, <1>9, <1>13, <1>14 DEF RunOf, n

\* The index then finds all of them, and no other account's is lost.
LEMMA SortedInFinds ==
  ASSUME pending \in [Addr -> Seq(Box)], NEW a \in Addr, NEW bs \in Seq(Box),
         NEW x, IndexFor(x, a, bs, 0)
  PROVE  IndexFor(SortedIn(x, a, bs), a, bs, Len(bs))
<1> DEFINE n == Len(bs)
<1>1. n \in Nat /\ \A k \in 1..n : bs[k].gasprice \in Price
  <2>1. n \in Nat /\ \A k \in 1..n : bs[k] \in Box
    BY LenProperties, ElementOfSeq
  <2>2. QED
    BY <2>1 DEF Box
<1>2. x \in Seq(Entry) /\ Ordered(x)
  BY DEF IndexFor
<1>3. PICK g : /\ g[0] = x
               /\ \A k \in 1..n : g[k] = SortIn(g[k - 1], a, bs[k])
               /\ g[n] = SortedIn(x, a, bs)
  BY <1>2, SortedInRun
<1> DEFINE C == {k \in Nat : k <= n /\ ~IndexFor(g[k], a, bs, k)}
<1>4. SUFFICES ASSUME C # {} PROVE FALSE
  BY <1>1, <1>3
<1>5. PICK k \in C : \A l \in C : k <= l
  <2>1. C \subseteq Nat
    OBVIOUS
  <2> HIDE DEF C
  <2>2. QED
    BY <1>4, <2>1, LeastNatural
<1> HIDE DEF n
<1>6. k # 0
  BY <1>3, <1>5
<1>7. k \in 1..n /\ k - 1 \in Nat /\ k - 1 <= n /\ ~(k <= k - 1) /\ (k - 1) + 1 = k
  BY <1>1, <1>5, <1>6
<1>8. IndexFor(g[k - 1], a, bs, k - 1)
  BY <1>5, <1>7
<1> DEFINE m == k - 1
           b == bs[k]
           y == g[k - 1]
<1>9. m \in Nat /\ IndexFor(y, a, bs, m) /\ b.gasprice \in Price
  BY <1>1, <1>7, <1>8
<1>10. b.gasprice = bs[m + 1].gasprice
  BY <1>7
<1>11. g[k] = SortIn(y, a, b) /\ m + 1 = k
  BY <1>3, <1>7
<1> HIDE DEF m, b, y, C
<1>12. IndexFor(SortIn(y, a, b), a, bs, m + 1)
  BY <1>9, <1>10, SortInIndex
<1>13. IndexFor(g[k], a, bs, k)
  BY <1>11, <1>12
<1>14. QED
  BY <1>5, <1>13 DEF C


-----------------------------------------------------------------------------
(* Before that it deletes the account's entries from the index *)

\* No boxes are found everywhere.
LEMMA FindsNone ==
  ASSUME NEW x, NEW a, NEW bs
  PROVE  Finds(x, a, bs, 0)
<1> DEFINE f == [i \in 1..0 |-> 1]
<1>1. 1..0 = {}
  OBVIOUS
<1>2. f \in [1..0 -> 1..Len(x)]
  BY <1>1
<1> HIDE DEF f
<1>3. FindsBy(x, a, bs, 0, f)
  BY <1>1, <1>2 DEF FindsBy
<1>4. QED
  BY <1>3 DEF Finds

\* An entry of the account that is deleted loses no other account's box.
LEMMA DeleteFinds ==
  ASSUME pending \in [Addr -> Seq(Box)], NEW a \in Addr, NEW x,
         IndexFor(x, a, <<>>, 0), NEW i \in 1..Len(x), x[i].addr = a,
         NEW y \in Seq(Entry), Len(y) = Len(x) - 1,
         \A j \in 1..Len(y) : y[j] = IF j < i THEN x[j] ELSE x[j + 1]
  PROVE  IndexFor(y, a, <<>>, 0)
<1> DEFINE n == Len(x)
           D == (1..n) \ {i}
           g == [j \in D |-> IF j < i THEN j ELSE j - 1]
<1>1. /\ x \in Seq(Entry) /\ Ordered(x) /\ n \in Nat
      /\ \A j \in 1..n : x[j].price \in Int
  <2>1. x \in Seq(Entry) /\ Ordered(x)
    BY DEF IndexFor
  <2>2. n \in Nat /\ \A j \in 1..n : x[j] \in Entry
    BY <2>1, LenProperties, ElementOfSeq
  <2>3. QED
    BY <2>1, <2>2 DEF Entry, Price
<1> HIDE DEF n
<1>2. Len(y) = n - 1 /\ i \in 1..n
  BY DEF n
<1>3. \A j \in D : g[j] = IF j < i THEN j ELSE j - 1
  OBVIOUS
<1>4. g \in [D -> 1..Len(y)]
  <2>1. \A j \in D : (IF j < i THEN j ELSE j - 1) \in 1..n - 1
    BY <1>1, <1>2
  <2>2. QED
    BY <1>2, <2>1
<1> HIDE DEF g
<1>5. ASSUME NEW j \in D, NEW k \in D, g[j] = g[k] PROVE j = k
  <2>1. j \in Int /\ k \in Int /\ j # i /\ k # i /\ i \in Int
    BY <1>2
  <2>2. (IF j < i THEN j ELSE j - 1) = (IF k < i THEN k ELSE k - 1)
    BY <1>3, <1>5
  <2>3. QED
    BY <2>1, <2>2
<1>6. ASSUME NEW j \in D PROVE y[g[j]] = x[j]
  <2>1. j \in 1..n /\ j # i
    OBVIOUS
  <2>2. CASE j < i
    <3>1. g[j] = j /\ j \in 1..Len(y)
      BY <1>1, <1>2, <1>3, <2>1, <2>2
    <3>2. QED
      BY <2>2, <3>1
  <2>3. CASE ~(j < i)
    <3>1. g[j] = j - 1 /\ j - 1 \in 1..Len(y) /\ ~(j - 1 < i) /\ (j - 1) + 1 = j
      BY <1>1, <1>2, <1>3, <2>1, <2>3
    <3>2. y[j - 1] = x[(j - 1) + 1]
      BY <3>1
    <3>3. QED
      BY <3>1, <3>2
  <2>4. QED
    BY <2>2, <2>3
<1>7. D \subseteq 1..Len(x)
  BY DEF n
<1>8. MovesBy(x, y, D, g)
  BY <1>4, <1>5, <1>6, <1>7 DEF MovesBy
<1>9. Ordered(y)
  <2>1. SUFFICES ASSUME NEW j \in 1..Len(y), NEW k \in 1..Len(y), j <= k
                 PROVE  y[j].price <= y[k].price
    BY DEF Ordered
  <2> DEFINE p == IF j < i THEN j ELSE j + 1
             q == IF k < i THEN k ELSE k + 1
  <2>2. p \in 1..n /\ q \in 1..n /\ p <= q
    BY <1>1, <1>2, <2>1
  <2>3. y[j] = x[p] /\ y[k] = x[q]
    OBVIOUS
  <2> HIDE DEF p, q
  <2>4. QED
    BY <1>1, <2>2, <2>3 DEF Ordered, n
<1>10. ASSUME NEW b \in Addr \ {a}
       PROVE  Finds(y, b, pending[b], Len(pending[b]))
  <2> DEFINE bs == pending[b]
             k == Len(bs)
  <2>1. k \in Nat /\ Finds(x, b, bs, k)
    BY LenProperties DEF IndexFor
  <2>2. \A j \in 1..Len(x) : x[j].addr = b => j \in D
    BY DEF n
  <2> HIDE DEF k, bs, D
  <2>3. Finds(y, b, bs, k)
    BY <1>8, <2>1, <2>2, FindsMoved
  <2>4. QED
    BY <2>3 DEF bs, k
<1>11. QED
  BY <1>9, <1>10, FindsNone DEF IndexFor

\* What the loop over the index keeps: what is left of it finds the boxes of the
\* other accounts.
WithoutState(index, a) ==
  {r \in [array : [1..Len(index) -> Entry], len : 0..Len(index), panics : BOOLEAN] :
     IndexFor(SubSeq(r.array, 1, r.len), a, <<>>, 0)}

\* One iteration of it.
WithoutStep(index, a, r, i) ==
  IF r.panics \/ r.array[i].addr # a THEN r
  ELSE IF i > r.len THEN [r EXCEPT !.panics = TRUE]
  ELSE [array |-> [j \in DOMAIN index |->
                     IF i <= j /\ j < r.len THEN r.array[j + 1] ELSE r.array[j]],
        len |-> r.len - 1, panics |-> FALSE]

\* The elements of a sequence up to one of them.
LEMMA FirstOf ==
  ASSUME NEW S, NEW n \in Nat, NEW s \in [1..n -> S], NEW m \in 0..n
  PROVE  LET x == SubSeq(s, 1, m)
         IN  x \in Seq(S) /\ Len(x) = m /\ \A j \in 1..m : x[j] = s[j]
<1> DEFINE x == SubSeq(s, 1, m)
<1>1. \A j \in 1..m : s[j] \in S
  OBVIOUS
<1>2. /\ x \in Seq(S)
      /\ Len(x) = IF 1 <= m THEN m - 1 + 1 ELSE 0
      /\ \A j \in 1..m - 1 + 1 : x[j] = s[1 + j - 1]
  BY <1>1, SubSeqProperties
<1> HIDE DEF x
<1>3. m - 1 + 1 = m /\ \A j \in 1..m : 1 + j - 1 = j
  OBVIOUS
<1>4. Len(x) = m
  BY <1>2
<1>5. \A j \in 1..m : x[j] = s[j]
  BY <1>2, <1>3
<1>6. QED
  BY <1>2, <1>4, <1>5 DEF x

\* An iteration keeps it.
LEMMA WithoutStepKeeps ==
  ASSUME pending \in [Addr -> Seq(Box)], NEW a \in Addr, NEW index,
         Len(index) \in Nat, DOMAIN index = 1..Len(index),
         NEW r \in WithoutState(index, a), NEW i \in 1..Len(index)
  PROVE  WithoutStep(index, a, r, i) \in WithoutState(index, a)
<1> DEFINE n == Len(index)
           array == [j \in DOMAIN index |-> IF i <= j /\ j < r.len
                                            THEN r.array[j + 1] ELSE r.array[j]]
           new == [array |-> array, len |-> r.len - 1, panics |-> FALSE]
           x == SubSeq(r.array, 1, r.len)
           y == SubSeq(array, 1, r.len - 1)
<1>1. /\ r \in [array : [1..n -> Entry], len : 0..n, panics : BOOLEAN]
      /\ r.array \in [1..n -> Entry] /\ r.len \in 0..n /\ r.panics \in BOOLEAN
      /\ IndexFor(x, a, <<>>, 0)
  BY DEF WithoutState
<1>2. CASE r.panics \/ r.array[i].addr # a
  BY <1>2 DEF WithoutStep
<1>3. CASE ~(r.panics \/ r.array[i].addr # a) /\ i > r.len
  <2> DEFINE s == [r EXCEPT !.panics = TRUE]
  <2>1. WithoutStep(index, a, r, i) = s
    BY <1>3 DEF WithoutStep
  <2>2. /\ s \in [array : [1..n -> Entry], len : 0..n, panics : BOOLEAN]
        /\ s.array = r.array /\ s.len = r.len
    BY <1>1
  <2> HIDE DEF s
  <2>3. s \in WithoutState(index, a)
    BY <1>1, <2>2 DEF WithoutState
  <2>4. QED
    BY <2>1, <2>3
<1>4. CASE ~(r.panics \/ r.array[i].addr # a) /\ ~(i > r.len)
  <2>1. WithoutStep(index, a, r, i) = new
    BY <1>4 DEF WithoutStep
  <2>2. i \in 1..r.len /\ r.len \in 1..n /\ r.len - 1 \in 0..n /\ r.array[i].addr = a
    BY <1>1, <1>4
  <2>3. \A j \in 1..n : array[j] = IF i <= j /\ j < r.len
                                   THEN r.array[j + 1] ELSE r.array[j]
    OBVIOUS
  <2>4. array \in [1..n -> Entry]
    <3>1. \A j \in 1..n : (IF i <= j /\ j < r.len
                           THEN r.array[j + 1] ELSE r.array[j]) \in Entry
      <4>1. \A j \in 1..n : j < r.len => j + 1 \in 1..n
        BY <2>2
      <4>2. QED
        BY <1>1, <4>1
    <3>2. QED
      BY <3>1
  <2> DEFINE l == r.len
             o == r.array
             m == l - 1
  <2>5. x \in Seq(Entry) /\ Len(x) = l /\ \A j \in 1..l : x[j] = o[j]
    <3>1. o \in [1..n -> Entry] /\ l \in 0..n
      BY <1>1
    <3> HIDE DEF o, l, n
    <3>2. LET z == SubSeq(o, 1, l)
          IN  z \in Seq(Entry) /\ Len(z) = l /\ \A j \in 1..l : z[j] = o[j]
      BY <3>1, FirstOf DEF n
    <3>3. QED
      BY <3>2 DEF o, l
  <2>6. y \in Seq(Entry) /\ Len(y) = m /\ \A j \in 1..m : y[j] = array[j]
    <3>1. m \in 0..n
      BY <2>2
    <3> HIDE DEF m, n, array
    <3>2. LET z == SubSeq(array, 1, m)
          IN  z \in Seq(Entry) /\ Len(z) = m /\ \A j \in 1..m : z[j] = array[j]
      BY <2>4, <3>1, FirstOf DEF n
    <3>3. QED
      BY <3>2 DEF m
  <2>7. new.array = array /\ new.len = m /\ new.panics = FALSE
    OBVIOUS
  <2>8. \A j \in 1..Len(y) : y[j] = IF j < i THEN x[j] ELSE x[j + 1]
    <3>1. SUFFICES ASSUME NEW j \in 1..m
                   PROVE  y[j] = IF j < i THEN x[j] ELSE x[j + 1]
      BY <2>6
    <3>2. j \in 1..n /\ j < l /\ j \in 1..l /\ j + 1 \in 1..l
      BY <2>2
    <3>3. y[j] = IF i <= j THEN o[j + 1] ELSE o[j]
      BY <2>3, <2>6, <3>2
    <3>4. j < i <=> ~(i <= j)
      BY <2>2
    <3> HIDE DEF x, y, o, l, m
    <3>5. QED
      BY <2>5, <3>2, <3>3, <3>4
  <2>9. IndexFor(y, a, <<>>, 0)
    <3>1. i \in 1..Len(x) /\ x[i].addr = a /\ Len(y) = Len(x) - 1
      <4> HIDE DEF x, y
      <4>1. QED
        BY <2>2, <2>5, <2>6
    <3> HIDE DEF x, y
    <3>2. QED
      BY <1>1, <2>6, <2>8, <3>1, DeleteFinds
  <2> HIDE DEF array, x
  <2>10. new \in [array : [1..n -> Entry], len : 0..n, panics : BOOLEAN]
    BY <2>2, <2>4
  <2>11. IndexFor(SubSeq(new.array, 1, new.len), a, <<>>, 0)
    BY <2>7, <2>9
  <2> HIDE DEF new
  <2>12. QED
    BY <2>1, <2>10, <2>11 DEF WithoutState
<1>5. QED
  BY <1>2, <1>3, <1>4

\* What is left of the index finds the boxes of the other accounts.
LEMMA WithoutFinds ==
  ASSUME pending \in [Addr -> Seq(Box)], NEW a \in Addr, NEW index,
         IndexFor(index, a, <<>>, 0)
  PROVE  Without(index, a) \in WithoutState(index, a)
<1> DEFINE n == Len(index)
           is == [i \in DOMAIN index |-> i]
           St == WithoutState(index, a)
           base == [array |-> index, len |-> Len(index), panics |-> FALSE]
           step == [x \in St \X (1..n) |-> WithoutStep(index, a, x[1], is[x[2]])]
<1>1. /\ index \in Seq(Entry) /\ n \in Nat /\ DOMAIN index = 1..n
      /\ index \in [1..n -> Entry]
  BY LenProperties DEF IndexFor
<1>2. base \in St
  <2>1. SubSeq(index, 1, n) = index
    <3>1. LET z == SubSeq(index, 1, n)
          IN  z \in Seq(Entry) /\ Len(z) = n /\ \A j \in 1..n : z[j] = index[j]
      <4>1. n \in 0..n
        BY <1>1
      <4> HIDE DEF n
      <4>2. QED
        BY <1>1, <4>1, FirstOf
    <3> DEFINE z == SubSeq(index, 1, n)
    <3> HIDE DEF z
    <3>2. z \in Seq(Entry) /\ Len(z) = n /\ \A j \in 1..n : z[j] = index[j]
      BY <3>1 DEF z
    <3>3. z = index
      BY <1>1, <3>2, SeqEqual DEF n
    <3>4. QED
      BY <3>3 DEF z
  <2>2. base \in [array : [1..n -> Entry], len : 0..n, panics : BOOLEAN]
    BY <1>1
  <2>3. IndexFor(SubSeq(base.array, 1, base.len), a, <<>>, 0)
    BY <2>1
  <2> HIDE DEF base
  <2>4. QED
    BY <2>2, <2>3 DEF WithoutState
<1>3. DOMAIN is = 1..n /\ \A k \in 1..n : is[k] = k
  BY <1>1
<1> HIDE DEF St
<1>4. \A x \in St, k \in 1..n : step[<<x, k>>] = WithoutStep(index, a, x, is[k])
  OBVIOUS
<1>5. \A x \in St, k \in 1..n : WithoutStep(index, a, x, k) \in St
  BY <1>1, WithoutStepKeeps DEF St
<1> HIDE DEF n, is, base
<1>6. \A x \in St, k \in 1..n : step[<<x, k>>] \in St
  BY <1>3, <1>4, <1>5
<1> HIDE DEF step
<1>7. PICK it \in [SUBSET (1..n) -> St] : Folds(base, step, 1..n, it)
  BY <1>1, <1>2, <1>6, FoldsExist
<1> DEFINE Is(f) == f = [s \in SUBSET DOMAIN is |->
                           IF s = {} THEN base
                           ELSE WithoutStep(index, a, f[s \ {Max(s)}], is[Max(s)])]
           F == CHOOSE f : Is(f)
<1>8. Is(it)
  <2>1. \A s \in SUBSET (1..n) :
          s # {} => /\ Max(s) \in 1..n /\ it[s \ {Max(s)}] \in St
    <3>1. SUFFICES ASSUME NEW s \in SUBSET (1..n), s # {}
                   PROVE  Max(s) \in 1..n /\ it[s \ {Max(s)}] \in St
      OBVIOUS
    <3>2. Max(s) \in s
      BY <1>1, <3>1, LargestIndex
    <3>3. QED
      BY <1>7, <3>2
  <2>2. DOMAIN is = 1..n
    BY <1>3
  <2>3. QED
    BY <1>4, <1>7, <2>1, <2>2, ZenonT(60) DEF Folds
<1>9. Is(F)
  BY <1>8
<1>10. Without(index, a) = F[DOMAIN is]
  BY DEF Without, FoldLeft, MapThenFoldSet, WithoutStep, is, base
<1> HIDE DEF F
<1>11. F[{}] = base
  <2>1. {} \in SUBSET DOMAIN is
    OBVIOUS
  <2>2. QED
    BY <1>9, <2>1
<1>12. ASSUME NEW k \in 1..n
       PROVE  F[1..k] = WithoutStep(index, a, F[1..(k - 1)], is[k])
  <2>1. /\ 1..k \in SUBSET (1..n) /\ 1..k # {}
        /\ Max(1..k) = k /\ (1..k) \ {k} = 1..(k - 1)
    BY <1>1, LastIndex
  <2>2. F[1..k] = WithoutStep(index, a, F[(1..k) \ {Max(1..k)}], is[Max(1..k)])
    BY <1>3, <1>9, <2>1
  <2>3. QED
    BY <2>1, <2>2
<1>13. TakesSteps(base, step, St, n, F)
  BY <1>4, <1>11, <1>12 DEF TakesSteps
<1>14. PICK g : RunOf(base, step, St, n, g) /\ g[n] = F[1..n]
  <2>1. RunsTo(base, step, St, n, F[1..n])
    BY <1>1, <1>2, <1>6, <1>13, FoldRuns
  <2>2. QED
    BY <2>1 DEF RunsTo
<1>15. F[1..n] \in St
  <2>1. n \in 0..n
    BY <1>1
  <2>2. QED
    BY <1>14, <2>1 DEF RunOf
<1>16. QED
  BY <1>3, <1>10, <1>15 DEF St


-----------------------------------------------------------------------------
(* Rebuilding a box *)

\* A box that may have been enqueued into after a panic.
Loose == [id : Nat \ {0}, txs : Seq(Tx), firstnonce : Nonce, lastnonce : Nat,
          gasprice : Price]

\* A write to loose boxes.
LEMMA WriteLoose ==
  ASSUME NEW bs \in Seq(Loose), NEW c \in Loose
  PROVE  WriteBox(bs, c) \in Seq(Loose)
<1> DEFINE ws == WriteBox(bs, c)
           n == Len(bs)
<1>1. n \in Nat /\ DOMAIN bs = 1..n /\ \A i \in 1..n : bs[i] \in Loose
  BY LenProperties, ElementOfSeq
<1>2. ws = [i \in 1..n |-> IF bs[i].id = c.id THEN c ELSE bs[i]]
  BY <1>1 DEF WriteBox
<1>3. ws \in [1..n -> Loose]
  BY <1>1, <1>2
<1>4. QED
  BY <1>1, <1>3

\* Enqueueing into a loose box.
LEMMA EnqueueLoose ==
  ASSUME NEW b \in Loose, NEW t \in Tx
  PROVE  Enqueue(b, t) \in Loose
<1> DEFINE c == Enqueue(b, t)
           txs == Append(b.txs, t)
           last == b.lastnonce + 1
<1>1. b.txs \in Seq(Tx) /\ b.lastnonce \in Nat
  BY DEF Loose
<1>2. txs \in Seq(Tx) /\ last \in Nat
  BY <1>1, AppendProperties
<1>3. c = [b EXCEPT !.txs = txs, !.lastnonce = last]
  BY DEF Enqueue, Loose
<1> HIDE DEF c, txs, last
<1>4. c \in Loose
  BY <1>2, <1>3 DEF Loose
<1>5. QED
  BY <1>4 DEF c

\* Boxes are loose boxes.
LEMMA BoxesLoose ==
  ASSUME NEW bs \in Seq(Box)
  PROVE  bs \in Seq(Loose)
<1>1. \A b \in Box : b \in Loose
  BY DEF Box, Loose, Nonce
<1>2. Len(bs) \in Nat /\ bs \in [1..Len(bs) -> Box]
  BY LenProperties
<1>3. bs \in [1..Len(bs) -> Loose]
  BY <1>1, <1>2
<1>4. QED
  BY <1>2, <1>3

\* What the loop over the transactions of a box keeps: as long as it does not
\* panic, the boxes it has built are sound among all that were there before.
CutState(olds, m) ==
  {p \in [boxes : Seq(Loose), used : {olds}, panics : BOOLEAN] :
     ~p.panics => /\ p.boxes \in Seq(Box)
                  /\ Sound(Boxes(p.boxes) \cup Boxes(olds))
                  /\ Len(p.boxes) >= m}

\* An iteration keeps it.
LEMMA CutKeeps ==
  ASSUME NEW olds \in Seq(Box), NEW m \in Nat, NEW p \in CutState(olds, m),
         NEW t \in Tx
  PROVE  cutPending(p, t) \in CutState(olds, m)
<1> DEFINE bs == p.boxes
           n == Len(bs)
           V == Boxes(olds)
<1>1. /\ p \in [boxes : Seq(Loose), used : {olds}, panics : BOOLEAN]
      /\ bs \in Seq(Loose) /\ p.used = olds /\ p.panics \in BOOLEAN
      /\ ~p.panics => bs \in Seq(Box) /\ Sound(Boxes(bs) \cup V) /\ n >= m
  BY DEF CutState
<1>2. n \in Nat /\ (bs # <<>> <=> n # 0)
  BY <1>1, LenProperties, EmptySeq
<1>3. CASE bs # <<>> /\ t.price >= Last(bs).gasprice
  <2> DEFINE cs == WriteBox(bs, Enqueue(bs[n], t))
             panics == \/ p.panics
                       \/ EnqueuePanics(Last(bs), t)
                       \/ cs[1].txs = <<>>
             q == [p EXCEPT !.boxes = cs, !.panics = panics]
  <2>1. cutPending(p, t) = q
    BY <1>3 DEF cutPending, Last
  <2>2. cs \in Seq(Loose)
    <3>1. n \in 1..n /\ bs[n] \in Loose
      BY <1>1, <1>2, <1>3, ElementOfSeq
    <3>2. Enqueue(bs[n], t) \in Loose
      BY <3>1, EnqueueLoose
    <3>3. QED
      BY <1>1, <3>2, WriteLoose
  <2>3. ASSUME ~panics
        PROVE  cs \in Seq(Box) /\ Sound(Boxes(cs) \cup V) /\ Len(cs) >= m
    <3>1. ~p.panics /\ t.nonce = bs[n].lastnonce + 1
      BY <2>3 DEF EnqueuePanics, Last
    <3>2. bs \in Seq(Box) /\ Sound(Boxes(bs) \cup V) /\ n >= m /\ Len(bs) # 0
      BY <1>1, <1>2, <1>3, <3>1
    <3> HIDE DEF V, bs, panics
    <3>3. /\ cs \in Seq(Box) /\ Len(cs) = Len(bs)
          /\ cs[Len(cs)].lastnonce = t.nonce
          /\ \A i \in 1..Len(bs) : cs[i].gasprice = bs[i].gasprice
          /\ Sound(Boxes(cs) \cup V)
      BY <3>1, <3>2, JoinSound
    <3>4. QED
      BY <3>2, <3>3
  <2>4. panics \in BOOLEAN
    BY <1>1
  <2> HIDE DEF cs, panics
  <2>5. /\ q \in [boxes : Seq(Loose), used : {olds}, panics : BOOLEAN]
        /\ q.boxes = cs /\ q.panics = panics
    BY <1>1, <2>2, <2>4
  <2> HIDE DEF q
  <2>6. q \in CutState(olds, m)
    BY <2>3, <2>5 DEF CutState
  <2>7. QED
    BY <2>1, <2>6
<1>4. CASE ~(bs # <<>> /\ t.price >= Last(bs).gasprice)
  <2> DEFINE all == olds \o bs
             id == FreshId(all)
             b == NewTxBox(id, t)
             cs == Append(bs, b)
             panics == p.panics \/ (bs # <<>> /\ bs[1].txs = <<>>)
             q == [p EXCEPT !.boxes = cs, !.panics = panics]
  <2>1. cutPending(p, t) = q
    BY <1>1, <1>4 DEF cutPending
  <2>2. /\ id \in Nat \ {0}
        /\ \A c \in Boxes(bs) \cup V : c.id # id
    <3>1. olds \in Seq(Loose) /\ Len(olds) \in Nat
      BY BoxesLoose, LenProperties
    <3>2. /\ all \in Seq(Loose) /\ Len(all) = Len(olds) + n
          /\ \A i \in 1..Len(olds) + n :
               all[i] = IF i <= Len(olds) THEN olds[i] ELSE bs[i - Len(olds)]
      BY <1>1, <3>1, ConcatProperties
    <3> HIDE DEF all
    <3>3. /\ id \in 1..Len(all) + 1
          /\ \A i \in 1..Len(all) : all[i].id # id
      BY <3>2, FreshIdFree
    <3> HIDE DEF id
    <3>4. \A i \in 1..Len(olds) : olds[i].id # id
      <4>1. SUFFICES ASSUME NEW i \in 1..Len(olds) PROVE olds[i].id # id
        OBVIOUS
      <4>2. i \in 1..Len(olds) + n /\ i <= Len(olds)
        BY <1>2, <3>1
      <4>3. QED
        BY <3>2, <3>3, <4>2
    <3>5. \A i \in 1..n : bs[i].id # id
      <4>1. SUFFICES ASSUME NEW i \in 1..n PROVE bs[i].id # id
        OBVIOUS
      <4> DEFINE j == i + Len(olds)
      <4>2. j \in 1..Len(olds) + n /\ ~(j <= Len(olds)) /\ j - Len(olds) = i
        BY <1>2, <3>1
      <4> HIDE DEF j, bs, n
      <4>3. all[j] = bs[i]
        BY <3>2, <4>2
      <4>4. QED
        BY <3>2, <3>3, <4>2, <4>3
    <3>6. QED
      BY <1>2, <3>1, <3>2, <3>3, <3>4, <3>5 DEF Boxes
  <2> HIDE DEF id
  <2>3. b \in Loose
    <3>1. b \in Box
      BY <2>2, NewTxBoxInOrder
    <3>2. QED
      BY <3>1 DEF Box, Loose, Nonce
  <2>4. cs \in Seq(Loose)
    BY <1>1, <2>3, AppendProperties
  <2>5. ASSUME ~panics
        PROVE  cs \in Seq(Box) /\ Sound(Boxes(cs) \cup V) /\ Len(cs) >= m
    <3>1. bs \in Seq(Box) /\ Sound(Boxes(bs) \cup V) /\ n >= m
      BY <1>1, <2>5
    <3> HIDE DEF V, bs, panics
    <3>2. LET d  == NewTxBox(id, t)
              ds == Append(bs, d)
          IN  /\ ds \in Seq(Box) /\ Len(ds) = Len(bs) + 1
              /\ ds[Len(ds)] = d /\ d.lastnonce = t.nonce
              /\ \A i \in 1..Len(bs) : ds[i] = bs[i]
              /\ Sound(Boxes(ds) \cup V)
      BY <2>2, <3>1, OpenSound
    <3>3. cs \in Seq(Box) /\ Len(cs) = n + 1 /\ Sound(Boxes(cs) \cup V)
      BY <3>2
    <3>4. QED
      BY <1>2, <3>1, <3>3
  <2>6. panics \in BOOLEAN
    BY <1>1
  <2> HIDE DEF cs, panics
  <2>7. /\ q \in [boxes : Seq(Loose), used : {olds}, panics : BOOLEAN]
        /\ q.boxes = cs /\ q.panics = panics
    BY <1>1, <2>4, <2>6
  <2> HIDE DEF q
  <2>8. q \in CutState(olds, m)
    BY <2>5, <2>7 DEF CutState
  <2>9. QED
    BY <2>1, <2>8
<1>5. QED
  BY <1>3, <1>4

\* So does the loop.
LEMMA CutFinds ==
  ASSUME NEW olds \in Seq(Box), NEW m \in Nat, NEW base \in CutState(olds, m),
         NEW txs \in Seq(Tx)
  PROVE  FoldLeft(cutPending, base, txs) \in CutState(olds, m)
<1> DEFINE n == Len(txs)
           St == CutState(olds, m)
           step == [x \in St \X (1..n) |-> cutPending(x[1], txs[x[2]])]
           result == FoldLeft(cutPending, base, txs)
<1>1. n \in Nat
  BY LenProperties
<1>2. DOMAIN txs = 1..n
  BY LenProperties
<1>3. \A k \in 1..n : txs[k] \in Tx
  BY ElementOfSeq
<1>4. \A p \in St, t \in Tx : cutPending(p, t) \in St
  BY CutKeeps
<1> HIDE DEF St
<1>5. \A x \in St, k \in 1..n : step[<<x, k>>] = cutPending(x, txs[k])
  OBVIOUS
<1>6. base \in St
  BY DEF St
<1> HIDE DEF n
<1>7. \A x \in St, k \in 1..n : step[<<x, k>>] \in St
  BY <1>3, <1>4, <1>5
<1> HIDE DEF step
<1>8. PICK it \in [SUBSET (1..n) -> St] : Folds(base, step, 1..n, it)
  BY <1>1, <1>6, <1>7, FoldsExist
<1> DEFINE Is(f) == f = [s \in SUBSET DOMAIN txs |->
                           IF s = {} THEN base
                           ELSE cutPending(f[s \ {Max(s)}], txs[Max(s)])]
           F == CHOOSE f : Is(f)
<1>9. Is(it)
  <2>1. \A s \in SUBSET (1..n) :
          s # {} => /\ Max(s) \in 1..n /\ it[s \ {Max(s)}] \in St
    <3>1. SUFFICES ASSUME NEW s \in SUBSET (1..n), s # {}
                   PROVE  Max(s) \in 1..n /\ it[s \ {Max(s)}] \in St
      OBVIOUS
    <3>2. Max(s) \in s
      BY <1>1, <3>1, LargestIndex
    <3>3. QED
      BY <1>8, <3>2
  <2>2. QED
    BY <1>2, <1>5, <1>8, <2>1, ZenonT(60) DEF Folds
<1>10. Is(F)
  BY <1>9
<1>11. result = F[DOMAIN txs]
  BY DEF FoldLeft, MapThenFoldSet
<1> HIDE DEF F, result
<1>12. F[{}] = base
  <2>1. {} \in SUBSET DOMAIN txs
    OBVIOUS
  <2>2. QED
    BY <1>10, <2>1
<1>13. ASSUME NEW k \in 1..n PROVE F[1..k] = cutPending(F[1..(k - 1)], txs[k])
  <2>1. /\ 1..k \in SUBSET (1..n) /\ 1..k # {}
        /\ Max(1..k) = k /\ (1..k) \ {k} = 1..(k - 1)
    BY <1>1, LastIndex
  <2>2. F[1..k] = cutPending(F[(1..k) \ {Max(1..k)}], txs[Max(1..k)])
    BY <1>2, <1>10, <2>1
  <2>3. QED
    BY <2>1, <2>2
<1>14. TakesSteps(base, step, St, n, F)
  BY <1>5, <1>12, <1>13 DEF TakesSteps
<1>15. PICK g : RunOf(base, step, St, n, g) /\ g[n] = F[1..n]
  <2>1. RunsTo(base, step, St, n, F[1..n])
    BY <1>1, <1>6, <1>7, <1>14, FoldRuns
  <2>2. QED
    BY <2>1 DEF RunsTo
<1>16. F[1..n] \in St
  <2>1. n \in 0..n
    BY <1>1
  <2>2. QED
    BY <1>15, <2>1 DEF RunOf
<1>17. QED
  BY <1>2, <1>11, <1>16 DEF St, result


\* A box stays in order when a transaction of its first nonce takes the place
\* of its first one.
LEMMA OverwriteInOrder ==
  ASSUME NEW b \in Box, InOrder(b), b.txs # <<>>, NEW t \in Tx,
         t.nonce = b.firstnonce
  PROVE  LET c == [b EXCEPT !.txs[1] = t]
         IN  /\ c \in Box /\ InOrder(c) /\ c.id = b.id /\ c.gasprice = b.gasprice
             /\ c.txs \in Seq(Tx)
<1> DEFINE c == [b EXCEPT !.txs[1] = t]
           txs == [b.txs EXCEPT ![1] = t]
           n == Len(b.txs)
<1>1. /\ b.txs \in Seq(Tx) /\ b.firstnonce \in Nat /\ b.lastnonce \in Nat
      /\ n \in Nat /\ n # 0
  <2>1. b.txs \in Seq(Tx) /\ b.firstnonce \in Nat /\ b.lastnonce \in Nat
    BY DEF Box, Nonce
  <2>2. QED
    BY <2>1, LenProperties, EmptySeq
<1>2. b.txs \in [1..n -> Tx]
  BY <1>1, LenProperties
<1> HIDE DEF n
<1>3. /\ txs \in [1..n -> Tx] /\ 1 \in 1..n /\ txs[1] = t
      /\ \A j \in 2..n : txs[j] = b.txs[j]
  BY <1>1, <1>2
<1>4. c = [b EXCEPT !.txs = txs]
  OBVIOUS
<1> HIDE DEF txs, c
<1>5. txs \in Seq(Tx) /\ Len(txs) = n
  BY <1>1, <1>3
<1>6. /\ c \in Box /\ c.id = b.id /\ c.gasprice = b.gasprice /\ c.txs = txs
      /\ c.firstnonce = b.firstnonce /\ c.lastnonce = b.lastnonce
  BY <1>4, <1>5 DEF Box
<1>7. /\ \A j \in 2..n : b.txs[j].nonce = b.lastnonce - (n - j)
      /\ b.txs[1].nonce \in b.firstnonce..b.lastnonce - (n - 1)
      /\ b.firstnonce <= b.lastnonce
  BY <1>1 DEF InOrder, n
<1>8. b.firstnonce \in b.firstnonce..b.lastnonce - (n - 1)
  BY <1>1, <1>7
<1>9. InOrder(c)
  BY <1>3, <1>5, <1>6, <1>7, <1>8 DEF InOrder
<1>10. QED
  BY <1>5, <1>6, <1>9 DEF c

\* The boxes of an account behind a replacement that does not panic.
LEMMA RebuiltSound ==
  ASSUME NEW old \in Seq(Box), Sound(Boxes(old)), NEW i \in 1..Len(old),
         old[i].txs # <<>>, NEW t \in Tx, t.nonce = old[i].firstnonce,
         NEW inPlace, ~Rebuilt(old, i, t, inPlace).panics
  PROVE  LET bs == Rebuilt(old, i, t, inPlace).boxes
         IN  bs \in Seq(Box) /\ Sound(Boxes(bs))
<1> DEFINE box  == [old[i] EXCEPT !.txs[1] = t]
           olds == WriteBox(old, box)
           base == [boxes |-> SubSeq(olds, 1, i - 1), used |-> olds, panics |-> FALSE]
           cut  == FoldLeft(cutPending, base, box.txs)
           n    == Len(old)
           seen == [j \in 1..n |->
                      IF j <= Len(cut.boxes) THEN cut.boxes[j]
                      ELSE IF i > 1 /\ olds[j].id = olds[i - 1].id
                           THEN cut.boxes[i - 1] ELSE olds[j]]
           lastbox == cut.boxes \o SubSeq(seen, i, n)
           again == IF inPlace THEN lastbox ELSE seen
           bs == lastbox \o SubSeq(again, i, n)
           m == i - 1
<1>1. Rebuilt(old, i, t, inPlace) = [boxes |-> bs, panics |-> cut.panics]
  BY DEF Rebuilt
<1>2. n \in Nat /\ i \in 1..n /\ m \in Nat /\ m \in 0..n
  BY LenProperties
<1>3. /\ box \in Box /\ InOrder(box) /\ box.id = old[i].id
      /\ box.gasprice = old[i].gasprice /\ box.txs \in Seq(Tx)
  <2> DEFINE b == old[i]
  <2>1. b \in Box
    BY ElementOfSeq
  <2>2. InOrder(b)
    BY <2>1 DEF Sound, Boxes
  <2>3. b.txs # <<>> /\ t.nonce = b.firstnonce
    OBVIOUS
  <2> HIDE DEF b
  <2>4. LET c == [b EXCEPT !.txs[1] = t]
        IN  /\ c \in Box /\ InOrder(c) /\ c.id = b.id /\ c.gasprice = b.gasprice
            /\ c.txs \in Seq(Tx)
    BY <2>1, <2>2, <2>3, OverwriteInOrder
  <2>5. QED
    BY <2>4 DEF b
<1> HIDE DEF box
<1>4. olds \in Seq(Box) /\ Len(olds) = n /\ Sound(Boxes(olds))
  <2> DEFINE V == {}
  <2>1. \A W : Sound(Boxes(old) \cup W) =>
          olds \in Seq(Box) /\ Len(olds) = Len(old) /\ Sound(Boxes(olds) \cup W)
    <3>1. SUFFICES ASSUME NEW W, Sound(Boxes(old) \cup W)
                   PROVE  /\ olds \in Seq(Box) /\ Len(olds) = Len(old)
                          /\ Sound(Boxes(olds) \cup W)
      OBVIOUS
    <3>2. /\ olds \in Seq(Box) /\ Len(olds) = Len(old) /\ olds[i] = box
          /\ \A j \in 1..Len(old) : olds[j].gasprice = old[j].gasprice
          /\ Sound(Boxes(olds) \cup W)
      BY <1>2, <1>3, <3>1, WriteSound
    <3>3. QED
      BY <3>2
  <2>2. Sound(Boxes(old) \cup {})
    OBVIOUS
  <2> HIDE DEF olds
  <2>3. Sound(Boxes(olds) \cup {}) /\ olds \in Seq(Box) /\ Len(olds) = n
    BY <2>1, <2>2
  <2>4. QED
    BY <2>3, SoundSubset
<1> HIDE DEF olds
<1>5. base \in CutState(olds, m)
  <2> DEFINE x == SubSeq(olds, 1, m)
  <2>1. x \in Seq(Box) /\ Len(x) = m /\ \A j \in 1..m : x[j] = olds[j]
    <3>1. olds \in [1..n -> Box]
      BY <1>4, LenProperties
    <3> HIDE DEF m, n
    <3>2. LET z == SubSeq(olds, 1, m)
          IN  z \in Seq(Box) /\ Len(z) = m /\ \A j \in 1..m : z[j] = olds[j]
      BY <1>2, <3>1, FirstOf
    <3>3. QED
      BY <3>2
  <2>2. base.boxes = x /\ base.used = olds /\ base.panics = FALSE
    OBVIOUS
  <2> HIDE DEF x, m, n
  <2>3. Boxes(x) \cup Boxes(olds) \subseteq Boxes(olds)
    <3>1. \A j \in 1..m : j \in 1..Len(olds)
      BY <1>2, <1>4
    <3>2. QED
      BY <2>1, <3>1 DEF Boxes
  <2>4. Sound(Boxes(x) \cup Boxes(olds))
    BY <1>4, <2>3, SoundSubset
  <2>5. x \in Seq(Loose)
    BY <2>1, BoxesLoose
  <2>6. base \in [boxes : Seq(Loose), used : {olds}, panics : BOOLEAN]
    BY <2>2, <2>5 DEF x, m
  <2>7. m >= m
    BY <1>2
  <2> HIDE DEF base
  <2>8. QED
    BY <2>1, <2>2, <2>4, <2>6, <2>7 DEF CutState
<1> HIDE DEF base
<1>6. cut \in CutState(olds, m)
  <2> HIDE DEF m
  <2>1. QED
    BY <1>2, <1>3, <1>4, <1>5, CutFinds
<1> HIDE DEF cut
<1> DEFINE cs == cut.boxes
           U == Boxes(cs) \cup Boxes(olds)
<1>7. ~cut.panics
  <2> HIDE DEF bs
  <2>1. QED
    BY <1>1
<1>8. cs \in Seq(Box) /\ Sound(U) /\ Len(cs) >= m
  BY <1>6, <1>7 DEF CutState
<1>9. Len(cs) \in Nat
  BY <1>8, LenProperties
<1> HIDE DEF cs
<1>10. seen \in [1..n -> U]
  <2>1. \A j \in 1..n : j <= Len(cs) => cs[j] \in U
    <3>1. \A j \in 1..n : j <= Len(cs) => j \in 1..Len(cs)
      BY <1>9
    <3>2. QED
      BY <3>1 DEF Boxes
  <2>2. i > 1 => cs[i - 1] \in U
    <3>1. i > 1 => i - 1 \in 1..Len(cs)
      BY <1>2, <1>8, <1>9
    <3>2. QED
      BY <3>1 DEF Boxes
  <2>3. \A j \in 1..n : olds[j] \in U
    BY <1>4 DEF Boxes
  <2> HIDE DEF U
  <2>4. seen = [j \in 1..n |->
                  IF j <= Len(cs) THEN cs[j]
                  ELSE IF i > 1 /\ olds[j].id = olds[i - 1].id
                       THEN cs[i - 1] ELSE olds[j]]
    BY DEF cs
  <2> HIDE DEF seen
  <2>5. QED
    BY <2>1, <2>2, <2>3, <2>4
<1> HIDE DEF seen
<1>11. SubSeq(seen, i, n) \in Seq(U) /\ Len(SubSeq(seen, i, n)) = n - m
  <2> HIDE DEF n, U
  <2>1. \A j \in i..n : seen[j] \in U
    BY <1>2, <1>10
  <2>2. i \in Int /\ n \in Int /\ i <= n
    BY <1>2
  <2>3. /\ SubSeq(seen, i, n) \in Seq(U)
        /\ Len(SubSeq(seen, i, n)) = IF i <= n THEN n - i + 1 ELSE 0
    BY <2>1, <2>2, SubSeqProperties
  <2>4. n - i + 1 = n - m
    BY <1>2
  <2>5. QED
    BY <2>2, <2>3, <2>4
<1>12. lastbox \in Seq(U) /\ Len(lastbox) \in Nat /\ n <= Len(lastbox)
  <2> DEFINE x == SubSeq(seen, i, n)
  <2>1. x \in Seq(U) /\ Len(x) = n - m
    BY <1>11
  <2>2. lastbox = cs \o x
    BY DEF cs
  <2> HIDE DEF x, lastbox
  <2>3. cs \in Seq(U)
    <3>1. cs \in Seq(Boxes(cs))
      BY <1>8, BoxesIn
    <3>2. Len(cs) \in Nat /\ cs \in [1..Len(cs) -> Boxes(cs)]
      BY <3>1, LenProperties
    <3>3. cs \in [1..Len(cs) -> U]
      BY <3>2
    <3>4. QED
      BY <3>2, <3>3
  <2> HIDE DEF U
  <2>4. cs \o x \in Seq(U) /\ Len(cs \o x) = Len(cs) + Len(x)
    BY <2>1, <2>3, ConcatProperties
  <2>5. QED
    BY <1>2, <1>8, <1>9, <2>1, <2>2, <2>4
<1> HIDE DEF lastbox
<1>13. bs \in Seq(U)
  <2> DEFINE x == SubSeq(again, i, n)
  <2>1. \A j \in i..n : again[j] \in U
    <3>1. \A j \in i..n : seen[j] \in U
      BY <1>2, <1>10
    <3>2. \A j \in i..n : lastbox[j] \in U
      <4>1. \A j \in i..n : j \in 1..Len(lastbox)
        BY <1>2, <1>12
      <4> HIDE DEF U
      <4>2. QED
        BY <1>12, <4>1, ElementOfSeq
    <3>3. QED
      BY <3>1, <3>2
  <2> HIDE DEF again, U
  <2>2. x \in Seq(U)
    <3>1. i \in Int /\ n \in Int
      BY <1>2
    <3> HIDE DEF n
    <3>2. QED
      BY <2>1, <3>1, SubSeqProperties
  <2> HIDE DEF x
  <2>3. lastbox \o x \in Seq(U)
    BY <1>12, <2>2, ConcatProperties
  <2>4. QED
    BY <2>3 DEF x
<1> HIDE DEF bs, U
<1>14. bs \in Seq(Box) /\ Sound(Boxes(bs))
  BY <1>8, <1>13, SoundSeq
<1>15. QED
  BY <1>1, <1>14


-----------------------------------------------------------------------------
(* Every step *)

\* The boxes and the index behind a replacement that does not panic.
LEMMA ReplacedSound ==
  ASSUME PoolFound, NEW a \in Addr, NEW t \in Tx, NEW inPlace,
         ~Replacement(a, t, inPlace).panics
  PROVE  LET r == Replacement(a, t, inPlace)
         IN  /\ r.boxes \in Seq(Box) /\ Sound(Boxes(r.boxes))
             /\ IndexFor(r.index, a, r.boxes, Len(r.boxes))
<1> DEFINE old   == pending[a]
           hits  == Heads(a, t.nonce)
           i     == Min(hits)
           new   == IF hits = {} THEN [boxes |-> old, panics |-> FALSE]
                    ELSE IF old[i].txs = <<>> THEN [boxes |-> old, panics |-> TRUE]
                    ELSE Rebuilt(old, i, t, inPlace)
           index == Without(Sortedboxes, a)
           left  == SubSeq(index.array, 1, index.len)
           bs    == new.boxes
           r     == Replacement(a, t, inPlace)
<1>1. r = [boxes |-> bs, index |-> SortedIn(left, a, bs),
           panics |-> new.panics \/ index.panics]
  BY DEF Replacement, SortedIn
<1>2. /\ pending \in [Addr -> Seq(Box)]
      /\ old \in Seq(Box) /\ Sound(Boxes(old))
      /\ IndexFor(Sortedboxes, a, old, Len(old))
  BY AccountFound DEF PoolFound
<1>3. ~new.panics /\ ~r.panics
  <2> HIDE DEF new, r, index
  <2>1. ~r.panics
    BY DEF r
  <2>2. QED
    BY <1>1, <2>1
<1>4. IndexFor(left, a, <<>>, 0)
  <2>1. IndexFor(Sortedboxes, a, <<>>, 0)
    BY <1>2, FindsNone DEF IndexFor
  <2>2. index \in WithoutState(Sortedboxes, a)
    BY <1>2, <2>1, WithoutFinds
  <2>3. QED
    BY <2>2 DEF WithoutState
<1>5. bs \in Seq(Box) /\ Sound(Boxes(bs))
  <2>1. CASE hits = {}
    <3>1. bs = old
      BY <2>1
    <3> HIDE DEF bs, old
    <3>2. QED
      BY <1>2, <3>1
  <2>2. CASE hits # {}
    <3>1. i \in 1..Len(old) /\ old[i].firstnonce = t.nonce
      <4>1. hits \subseteq 1..Len(old) /\ Len(old) \in Nat /\ DOMAIN old = 1..Len(old)
        BY <1>2, LenProperties DEF Heads
      <4>2. \A k \in hits : old[k].firstnonce = t.nonce
        BY DEF Heads
      <4> HIDE DEF hits
      <4>3. hits \subseteq Nat
        BY <4>1
      <4>4. \E x \in hits : \A y \in hits : x <= y
        BY <2>2, <4>3, LeastNatural
      <4>5. i \in hits
        BY <4>4 DEF Min
      <4>6. QED
        BY <4>1, <4>2, <4>5
    <3> HIDE DEF hits, i, old, r, index
    <3>2. old[i].txs # <<>> /\ new = Rebuilt(old, i, t, inPlace)
      BY <1>3, <2>2
    <3>3. ~Rebuilt(old, i, t, inPlace).panics
      BY <1>3, <3>2
    <3>4. /\ Rebuilt(old, i, t, inPlace).boxes \in Seq(Box)
          /\ Sound(Boxes(Rebuilt(old, i, t, inPlace).boxes))
      BY <1>2, <3>1, <3>2, <3>3, RebuiltSound
    <3>5. QED
      BY <3>2, <3>4
  <2>3. QED
    BY <2>1, <2>2
<1> HIDE DEF left, new
<1>6. IndexFor(left, a, bs, 0)
  BY <1>4, FindsNone DEF IndexFor
<1> DEFINE x == SortedIn(left, a, bs)
<1>7. r.boxes = bs /\ r.index = x
  <2> HIDE DEF x, bs, r
  <2>1. r = [boxes |-> bs, index |-> x, panics |-> new.panics \/ index.panics]
    BY <1>1 DEF x, bs
  <2>2. QED
    BY <2>1
<1> HIDE DEF bs
<1>8. IndexFor(x, a, bs, Len(bs))
  BY <1>2, <1>5, <1>6, SortedInFinds
<1> HIDE DEF x, r
<1>9. r.boxes \in Seq(Box) /\ Sound(Boxes(r.boxes))
      /\ IndexFor(r.index, a, r.boxes, Len(r.boxes))
  BY <1>5, <1>7, <1>8
<1>10. QED
  BY <1>9 DEF r

\* A replacement keeps the invariant.
LEMMA ReplaceFound ==
  ASSUME PoolFound, NEW a \in Addr, NEW t \in Tx, NEW inPlace,
         replacePendingTx(a, t, inPlace)
  PROVE  PoolFound'
<1> DEFINE r == Replacement(a, t, inPlace)
           bs == r.boxes
<1>1. queue' = queue
  BY DEF replacePendingTx
<1>2. CASE crashed' = TRUE /\ UNCHANGED <<pending, Sortedboxes>>
  BY <1>1, <1>2 DEF PoolFound
<1>3. CASE /\ ~r.panics
           /\ pending' = [pending EXCEPT ![a] = bs]
           /\ Sortedboxes' = r.index
           /\ crashed' = crashed
  <2>1. bs \in Seq(Box) /\ Sound(Boxes(bs)) /\ IndexFor(r.index, a, bs, Len(bs))
    BY <1>3, ReplacedSound
  <2>2. queue' \in [Addr -> SUBSET Tx] /\ crashed' \in BOOLEAN
    BY <1>1, <1>3 DEF PoolFound
  <2> HIDE DEF r
  <2>3. IndexFor(Sortedboxes', a, bs, Len(bs)) /\ pending' = [pending EXCEPT ![a] = bs]
    BY <1>3, <2>1
  <2> HIDE DEF bs
  <2>4. QED
    BY <2>1, <2>2, <2>3, BoxesStep
<1>4. QED
  BY <1>2, <1>3 DEF replacePendingTx

\* NewTX keeps the invariant.
LEMMA NewTXFound ==
  ASSUME PoolFound, NEW a \in Addr, NEW t \in Tx, NewTX(a, t)
  PROVE  PoolFound'
<1>1. CASE addQueueTx(a, t)
  BY <1>1, AddQueueFound
<1>2. CASE addPendingTx(a, t)
  BY <1>2, AddPendingFound
<1>3. ASSUME NEW inPlace \in BOOLEAN, replacePendingTx(a, t, inPlace)
      PROVE  PoolFound'
  BY <1>3, ReplaceFound
<1>4. QED
  BY <1>1, <1>2, <1>3 DEF NewTX

\* execute_one keeps the invariant.
LEMMA ExecuteFound ==
  ASSUME FoundInv, NEW ok \in BOOLEAN, execute_one(ok)
  PROVE  FoundInv'
<1>1. Popped # NoTx /\ Pop /\ CanPop
  BY DEF execute_one, Pop
<1>2. /\ exists' = exists
      /\ popped' = [popped EXCEPT ![PopAddr] = Popped.nonce]
      /\ nonce' = IF ok THEN [nonce EXCEPT ![PopAddr] = @ + 1] ELSE nonce
      /\ failed' = IF ok THEN failed ELSE failed \cup {PopAddr}
  BY DEF execute_one
<1>3. PopAddr \in Addr /\ Popped.nonce \in 0..MaxNonce
  <2>1. PopAddr \in Addr /\ Popped \in Tx
    BY <1>1, PoppedFound DEF FoundInv
  <2>2. QED
    BY <2>1, BoundsAssumption DEF Tx, Nonce
<1>4. /\ nonce' \in [Addr -> Nat] /\ popped' \in [Addr -> 0..MaxNonce]
      /\ failed' \subseteq Addr
  BY <1>2, <1>3 DEF FoundInv
<1>5. PoolFound'
  BY <1>1, PopFound DEF FoundInv
<1>6. QED
  BY <1>2, <1>4, <1>5 DEF FoundInv

\* Every step keeps the invariant.
LEMMA NextFound ==
  ASSUME FoundInv, Next
  PROVE  FoundInv'
<1>1. ASSUME NEW a \in Addr, CreateAccount(a) PROVE FoundInv'
  <2>1. /\ exists' = exists \cup {a} /\ nonce' = nonce /\ popped' = popped
        /\ failed' = failed /\ pending' = pending /\ queue' = queue
        /\ Sortedboxes' = Sortedboxes /\ crashed' = crashed
    BY <1>1 DEF CreateAccount, poolVars, historyVars
  <2>2. PoolFound'
    BY <2>1 DEF FoundInv, PoolFound
  <2>3. QED
    BY <2>1, <2>2 DEF FoundInv
<1>2. ASSUME NEW a \in Addr, NEW t \in Tx, NewTX(a, t) PROVE FoundInv'
  <2>1. UNCHANGED <<stateVars, historyVars>>
    BY <1>2 DEF NewTX
  <2>2. PoolFound'
    BY <1>2, NewTXFound DEF FoundInv
  <2>3. QED
    BY <2>1, <2>2 DEF stateVars, historyVars, FoundInv
<1>3. ASSUME execute_none PROVE FoundInv'
  <2>1. Pop /\ UNCHANGED <<stateVars, historyVars>>
    BY <1>3 DEF execute_none
  <2>2. PoolFound'
    BY <2>1, PopFound DEF FoundInv
  <2>3. QED
    BY <2>1, <2>2 DEF stateVars, historyVars, FoundInv
<1>4. ASSUME NEW ok \in BOOLEAN, execute_one(ok) PROVE FoundInv'
  BY <1>4, ExecuteFound
<1>5. QED
  BY <1>1, <1>2, <1>3, <1>4 DEF Next

\* A pool that does not change keeps the invariant.
LEMMA StutterFound ==
  ASSUME FoundInv, UNCHANGED vars
  PROVE  FoundInv'
<1>1. PoolFound'
  BY DEF vars, poolVars, FoundInv, PoolFound
<1>2. QED
  BY <1>1 DEF vars, stateVars, historyVars, FoundInv

\* Initially there is nothing in the pool.
LEMMA InitFound == Init => FoundInv
<1> SUFFICES ASSUME Init PROVE FoundInv
  OBVIOUS
<1>1. 0 \in 0..MaxNonce
  BY BoundsAssumption
<1>2. /\ exists = {} /\ nonce = [a \in Addr |-> 0] /\ pending = [a \in Addr |-> <<>>]
      /\ queue = [a \in Addr |-> {}] /\ Sortedboxes = <<>> /\ crashed = FALSE
      /\ popped = [a \in Addr |-> 0] /\ failed = {}
  BY DEF Init
<1>3. <<>> \in Seq(Box) /\ <<>> \in Seq(Entry) /\ Len(<<>>) = 0
  BY EmptySeq
<1>4. Ordered(Sortedboxes)
  BY <1>2, <1>3 DEF Ordered
<1>5. ASSUME NEW a \in Addr
      PROVE  /\ Sound(Boxes(pending[a]))
             /\ Finds(Sortedboxes, a, pending[a], Len(pending[a]))
  <2> DEFINE bs == pending[a]
  <2>1. bs = <<>> /\ Len(bs) = 0
    BY <1>2, <1>3
  <2> HIDE DEF bs
  <2>2. Boxes(bs) = {}
    BY <2>1 DEF Boxes
  <2>3. Sound(Boxes(bs))
    BY <2>2 DEF Sound
  <2>4. Finds(Sortedboxes, a, bs, 0)
    BY FindsNone
  <2>5. QED
    BY <2>1, <2>3, <2>4 DEF bs
<1>6. /\ pending \in [Addr -> Seq(Box)] /\ queue \in [Addr -> SUBSET Tx]
      /\ Sortedboxes \in Seq(Entry)
  BY <1>2, <1>3
<1>7. PoolFound
  BY <1>2, <1>4, <1>5, <1>6 DEF PoolFound
<1>8. nonce \in [Addr -> Nat] /\ popped \in [Addr -> 0..MaxNonce]
  BY <1>1, <1>2
<1>9. QED
  BY <1>2, <1>7, <1>8 DEF FoundInv

\* Whatever is resubmitted and whatever the VM refuses, the nonces in each box
\* stay in order, elements that point to one box agree on its price, and the
\* index is ordered and has an entry for each element.
THEOREM FoundInvariant == Spec => []FoundInv
<1>1. Init => FoundInv
  BY InitFound
<1>2. FoundInv /\ [Next]_vars => FoundInv'
  BY NextFound, StutterFound
<1>3. QED
  BY <1>1, <1>2, PTL DEF Spec

-----------------------------------------------------------------------------
(* What follows from the invariant *)

\* The inductive invariant contains the types.
LEMMA FoundTypeOK == FoundInv => TypeOK
<1> SUFFICES ASSUME FoundInv PROVE TypeOK
  OBVIOUS
<1>1. ASSUME NEW a \in Addr, NEW i \in DOMAIN pending[a]
      PROVE  LET b == pending[a][i]
             IN  /\ b.id \in Nat \ {0}
                 /\ b.firstnonce \in Nonce /\ b.lastnonce \in Nonce
                 /\ b.gasprice \in Price
                 /\ \A j \in DOMAIN b.txs : b.txs[j] \in Tx
  <2> DEFINE b == pending[a][i]
  <2>1. pending[a] \in Seq(Box)
    BY DEF FoundInv, PoolFound
  <2>2. /\ i \in 1..Len(pending[a]) /\ b \in Box /\ b.id \in Nat \ {0}
        /\ b.txs \in Seq(Tx) /\ b.firstnonce \in Nonce /\ b.lastnonce \in Nonce
        /\ b.gasprice \in Price
    BY <2>1, BoxesType
  <2> HIDE DEF b
  <2>3. \A j \in DOMAIN b.txs : b.txs[j] \in Tx
    BY <2>2, LenProperties, ElementOfSeq
  <2>4. QED
    BY <2>2, <2>3 DEF b
<1>2. ASSUME NEW i \in DOMAIN Sortedboxes
      PROVE  Sortedboxes[i].addr \in Addr /\ Sortedboxes[i].price \in Price
  <2>1. Sortedboxes \in Seq(Entry)
    BY DEF FoundInv, PoolFound
  <2>2. Sortedboxes[i] \in Entry
    BY <2>1, LenProperties, ElementOfSeq
  <2>3. QED
    BY <2>2 DEF Entry
<1>3. QED
  BY <1>1, <1>2 DEF FoundInv, PoolFound, TypeOK

\* The boxes of every account are in order.
LEMMA FoundInOrder == PoolFound => BoxesInOrder
<1> SUFFICES ASSUME PoolFound, NEW a \in Addr, NEW i \in DOMAIN pending[a]
             PROVE  LET b == pending[a][i]
                        n == Len(b.txs)
                    IN  /\ \A j \in 2..n : b.txs[j].nonce = b.lastnonce - (n - j)
                        /\ n > 0 =>
                             b.txs[1].nonce \in b.firstnonce..b.lastnonce - (n - 1)
  BY DEF BoxesInOrder
<1> DEFINE b == pending[a][i]
<1>1. pending[a] \in Seq(Box) /\ Sound(Boxes(pending[a]))
  BY DEF PoolFound
<1>2. i \in 1..Len(pending[a])
  BY <1>1, LenProperties
<1>3. InOrder(b)
  BY <1>1, <1>2 DEF Sound, Boxes
<1> HIDE DEF b
<1>4. QED
  BY <1>3 DEF InOrder, b

\* Boxes of one price have as many entries of that price.
LEMMA FoundCovers == PoolFound => IndexCoversPending
<1> SUFFICES ASSUME PoolFound PROVE IndexCoversPending
  OBVIOUS
<1> DEFINE x == Sortedboxes
           n == Len(x)
<1>1. x \in Seq(Entry) /\ n \in Nat /\ DOMAIN x = 1..n /\ Ordered(x)
  BY LenProperties DEF PoolFound
<1>2. ASSUME NEW i \in 1..n - 1 PROVE x[i].price <= x[i + 1].price
  <2> HIDE DEF n
  <2>1. i \in 1..n /\ i + 1 \in 1..n /\ i <= i + 1
    BY <1>1
  <2>2. QED
    BY <1>1, <2>1 DEF Ordered, n
<1>3. ASSUME NEW a \in Addr, NEW p \in Price
      PROVE  Cardinality({i \in DOMAIN pending[a] : pending[a][i].gasprice = p})
               <= Cardinality({i \in DOMAIN x : x[i] = [addr |-> a, price |-> p]})
  <2> DEFINE bs == pending[a]
             B == {i \in DOMAIN bs : bs[i].gasprice = p}
             X == {i \in DOMAIN x : x[i] = [addr |-> a, price |-> p]}
  <2>1. bs \in Seq(Box) /\ Finds(x, a, bs, Len(bs))
    BY DEF PoolFound
  <2>2. PICK f : FindsBy(x, a, bs, Len(bs), f)
    BY <2>1 DEF Finds
  <2>3. DOMAIN bs = 1..Len(bs) /\ Len(bs) \in Nat
    BY <2>1, LenProperties
  <2>4. IsFiniteSet(X)
    <3>1. IsFiniteSet(1..n)
      BY <1>1, FS_Interval
    <3>2. X \subseteq 1..n
      BY <1>1
    <3> HIDE DEF X, n
    <3>3. QED
      BY <3>1, <3>2, FS_Subset
  <2> DEFINE g == [i \in B |-> f[i]]
  <2>5. \A i \in B : i \in 1..Len(bs) /\ bs[i].gasprice = p
    BY <2>3
  <2>6. \A i \in B : f[i] \in X
    <3>1. SUFFICES ASSUME NEW i \in B PROVE f[i] \in X
      OBVIOUS
    <3>2. i \in 1..Len(bs) /\ bs[i].gasprice = p
      BY <2>5
    <3> HIDE DEF B, bs
    <3>3. f[i] \in 1..Len(x) /\ x[f[i]] = [addr |-> a, price |-> bs[i].gasprice]
      BY <2>2, <3>2 DEF FindsBy
    <3>4. QED
      BY <1>1, <3>2, <3>3
  <2> HIDE DEF B, X, bs
  <2>7. g \in [B -> X] /\ \A i \in B : g[i] = f[i]
    BY <2>6
  <2> HIDE DEF g
  <2>8. \A i, j \in B : g[i] = g[j] => i = j
    BY <2>2, <2>5, <2>7 DEF FindsBy
  <2>9. g \in Injection(B, X)
    BY <2>7, <2>8 DEF Injection, IsInjective
  <2>10. Cardinality(B) <= Cardinality(X)
    BY <2>4, <2>9, FS_Injection
  <2>11. QED
    BY <2>10 DEF B, X, bs
<1>4. QED
  BY <1>2, <1>3 DEF IndexCoversPending

\* The state of the pool stays well typed, whatever is resubmitted.
THEOREM PoolAlwaysTyped == Spec => []TypeOK
BY FoundInvariant, FoundTypeOK, PTL

\* The nonces in each box stay in order under every replacement, however the
\* boxes are aliased and wherever their transactions were copied.
THEOREM BoxesAlwaysInOrder == Spec => []BoxesInOrder
<1>1. FoundInv => BoxesInOrder
  BY FoundInOrder DEF FoundInv
<1>2. QED
  BY <1>1, FoundInvariant, PTL

\* The index stays ordered by price and holds as many entries under an account
\* and a price as the account has boxes of that price, aliases counted.
THEOREM IndexAlwaysCovers == Spec => []IndexCoversPending
<1>1. FoundInv => IndexCoversPending
  BY FoundCovers DEF FoundInv
<1>2. QED
  BY <1>1, FoundInvariant, PTL

=============================================================================
