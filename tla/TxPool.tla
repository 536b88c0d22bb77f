------------------------------- MODULE TxPool -------------------------------
(***************************************************************************)
(* The transaction pool, src/tx/txpool.go and src/tx/txbox.go.             *)
(*                                                                         *)
(* pending keeps, for each account, a sequence of boxes, each a sequence   *)
(* of transactions and the price they are sorted under.  The code holds    *)
(* pointers to boxes: the boxes of an account carry an id here, and        *)
(* records with one id are one box.  Sortedboxes holds copies of boxes     *)
(* ordered by price; nothing but the address and the price of a copy is    *)
(* ever read, so those are all that is kept.                               *)
(*                                                                         *)
(* The pool takes no lock and starts no goroutine: an action is one call.  *)
(* A call that is refused (unknown account, nonce not above the account's) *)
(* changes nothing and has no action.                                      *)
(***************************************************************************)
EXTENDS Integers, SequencesExt

CONSTANTS
  Addr,        \* the accounts that send transactions
  Payload,     \* what a transaction carries besides its nonce and gas price
  NoTx,        \* the nil *Transaction
  MaxNonce,    \* bound: the largest nonce a client uses
  MaxPrice,    \* bound: the largest gas price
  MaxBoxes,    \* bound: the boxes of an account, aliases counted
  MaxIndex,    \* bound: the length of Sortedboxes (sort.Sort is stable to 12)
  Resubmits,   \* the accounts that submit nonces they have pending already
  Refuses      \* those of whose transactions the VM may refuse one

ASSUME BoundsAssumption ==
  /\ MaxNonce \in Nat \ {0} /\ MaxPrice \in Nat \ {0}
  /\ MaxBoxes \in Nat \ {0} /\ MaxIndex \in Nat \ {0} /\ MaxIndex <= 12
  /\ Resubmits \subseteq Addr /\ Refuses \subseteq Addr
  /\ NoTx \notin [nonce : 1..MaxNonce, price : 1..MaxPrice, pay : Payload]

VARIABLES
  exists,      \* accounts with an entry in the state (the pool's StatDB)
  nonce,       \* their nonces there
  pending,     \* pool.pending
  queue,       \* pool.queue: at most one transaction for a nonce
  Sortedboxes, \* pool.Sortedboxes
  crashed,     \* a call ended in a panic, and with it the process
  popped,      \* history: the last nonce the VM was given, 0 at first
  failed       \* history: accounts one of whose transactions the VM refused

poolVars == <<pending, queue, Sortedboxes, crashed>>
stateVars == <<exists, nonce>>
historyVars == <<popped, failed>>
vars == <<poolVars, stateVars, historyVars>>

Nonce == 1..MaxNonce
Price == 1..MaxPrice
Tx == [nonce : Nonce, price : Price, pay : Payload]

-----------------------------------------------------------------------------
(* Boxes, txbox.go *)

FreshId(used) ==
  CHOOSE i \in 1..Len(used) + 1 :
    /\ \A b \in ToSet(used) : b.id # i
    /\ \A j \in 1..i - 1 : \E b \in ToSet(used) : b.id = j

\* Fault: the price of a new box is not set.
NewTxBox_unpriced(id, t) ==
  [id |-> id, txs |-> <<t>>, firstnonce |-> t.nonce, lastnonce |-> t.nonce,
   gasprice |-> 0]

NewTxBox(id, t) ==
  [id |-> id, txs |-> <<t>>, firstnonce |-> t.nonce, lastnonce |-> t.nonce,
   gasprice |-> t.price]

\* Enqueue panics on a price below the box's and on a nonce out of order.
EnqueuePanics(b, t) == t.price < b.gasprice \/ t.nonce # b.lastnonce + 1

\* Fault: the last nonce of the box stays behind.
Enqueue_stale(b, t) == [b EXCEPT !.txs = Append(@, t)]

Enqueue(b, t) == [b EXCEPT !.txs = Append(@, t), !.lastnonce = @ + 1]

\* The first nonce of a box that runs empty stays what it was.
Dequeue(b) ==
  IF b.txs = <<>> THEN b
  ELSE [b EXCEPT !.txs = Tail(@),
                 !.firstnonce = IF Len(b.txs) > 1 THEN b.txs[2].nonce ELSE @]

\* A write through a box pointer shows in every element that points to it.
WriteBox(bs, b) == [i \in DOMAIN bs |-> IF bs[i].id = b.id THEN b ELSE bs[i]]

\* Fault: the index is appended to and not sorted.
SortIn_unsorted(index, a, b) ==
  Append(index, [addr |-> a, price |-> b.gasprice])

\* Appending to Sortedboxes and sorting it: behind the entries of its price.
SortIn(index, a, b) ==
  LET cheaper == {i \in DOMAIN index : index[i].price <= b.gasprice}
  IN  InsertAt(index, Cardinality(cheaper) + 1,
               [addr |-> a, price |-> b.gasprice])

-----------------------------------------------------------------------------
(* NewTX, txpool.go *)

\* Fault: what is pending already is not looked at.
Base_account(a) == nonce[a]

\* The nonce NewTX compares with: that of the last box, else the account's.
Base(a) == IF pending[a] = <<>> THEN nonce[a] ELSE Last(pending[a]).lastnonce

CreateAccount(a) ==
  /\ a \notin exists
  /\ exists' = exists \cup {a}
  /\ UNCHANGED <<nonce, poolVars, historyVars>>

\* A later transaction of the same nonce takes the place of the earlier one.
addQueueTx(a, t) ==
  /\ t.nonce > Base(a) + 1
  /\ queue' = [queue EXCEPT ![a] = {u \in @ : u.nonce # t.nonce} \cup {t}]
  /\ UNCHANGED <<pending, Sortedboxes, crashed>>

\* Fault: a cheaper transaction joins the last box too.
Place_any(a, p, t) ==
  IF p.boxes # <<>>
  THEN [p EXCEPT !.boxes = WriteBox(@, Enqueue(Last(@), t))]
  ELSE LET b == NewTxBox(FreshId(p.boxes), t)
       IN  [boxes |-> Append(p.boxes, b), index |-> SortIn(p.index, a, b)]

\* One transaction joins the last box, or opens one if it pays less.
Place(a, p, t) ==
  IF p.boxes # <<>> /\ t.price >= Last(p.boxes).gasprice
  THEN [p EXCEPT !.boxes = WriteBox(@, Enqueue(Last(@), t))]
  ELSE LET b == NewTxBox(FreshId(p.boxes), t)
       IN  [boxes |-> Append(p.boxes, b), index |-> SortIn(p.index, a, b)]

\* Fault: the queue is not looked at when a gap closes.
Reaches_none(q, n, m) == m = n

\* The queue holds every nonce after n up to m, and not the one after m.
Reaches(q, n, m) ==
  /\ \A k \in n + 1..m : \E u \in q : u.nonce = k
  /\ \A u \in q : u.nonce # m + 1

\* The last nonce that becomes pending with t.
Reached(a, t) ==
  CHOOSE m \in t.nonce..MaxNonce : Reaches(queue[a], t.nonce, m)

\* The transaction, then by recursion every queued one it makes consecutive.
Placed(a, t) ==
  LET next(n) == IF n = t.nonce THEN t
                 ELSE CHOOSE u \in queue[a] : u.nonce = n
      old == [boxes |-> pending[a], index |-> Sortedboxes]
      placed[n \in t.nonce..Reached(a, t)] ==
        Place(a, IF n = t.nonce THEN old ELSE placed[n - 1], next(n))
  IN  placed[Reached(a, t)]

addPendingTx(a, t) ==
  LET p == Placed(a, t)
  IN  /\ t.nonce = Base(a) + 1
      /\ Len(p.boxes) <= MaxBoxes
      /\ Len(p.index) <= MaxIndex
      /\ pending' = [pending EXCEPT ![a] = p.boxes]
      /\ Sortedboxes' = p.index
      /\ queue' = [queue EXCEPT ![a] = {u \in @ : u.nonce > Reached(a, t)}]
      /\ UNCHANGED crashed

\* A box is rebuilt behind the boxes before it, one transaction at a time.
\* After each, the code prints the first transaction of the first box.
cutPending(p, t) ==
  IF p.boxes # <<>> /\ t.price >= Last(p.boxes).gasprice
  THEN LET bs == WriteBox(p.boxes, Enqueue(Last(p.boxes), t))
       IN  [p EXCEPT !.boxes = bs,
                     !.panics = \/ @
                                \/ EnqueuePanics(Last(p.boxes), t)
                                \/ bs[1].txs = <<>>]
  ELSE [p EXCEPT !.boxes = Append(@, NewTxBox(FreshId(p.used \o @), t)),
                 !.panics = @ \/ (p.boxes # <<>> /\ p.boxes[1].txs = <<>>)]

\* The boxes of an account after txpool.go:184-207, t taking the place of the
\* first transaction of box i.  lastbox is a slice of the old array: what is
\* appended to it overwrites the old boxes from i on, which are read again
\* afterwards, twice.  Whether the second append still fits into the array
\* (inPlace) depends on the capacity Go has given it.
Rebuilt(old, i, t, inPlace) ==
  LET box  == [old[i] EXCEPT !.txs[1] = t]
      olds == WriteBox(old, box)
      cut  == FoldLeft(cutPending,
                       [boxes |-> SubSeq(olds, 1, i - 1), used |-> olds,
                        panics |-> FALSE],
                       box.txs)
      n    == Len(old)
      \* the old array: a merge wrote through pointers, an append over elements
      seen == [j \in 1..n |->
                 IF j <= Len(cut.boxes) THEN cut.boxes[j]
                 ELSE IF i > 1 /\ olds[j].id = olds[i - 1].id
                      THEN cut.boxes[i - 1] ELSE olds[j]]
      lastbox == cut.boxes \o SubSeq(seen, i, n)
      again   == IF inPlace THEN lastbox ELSE seen
  IN  [boxes |-> lastbox \o SubSeq(again, i, n), panics |-> cut.panics]

\* txpool.go:209-216: entries are deleted from the slice that is ranged over.
\* The one that moves into a deleted place is skipped, and the range runs to
\* the old length, where the deletion is out of bounds.
Without(index, a) ==
  FoldLeft(LAMBDA r, i :
             IF r.panics \/ r.array[i].addr # a THEN r
             ELSE IF i > r.len THEN [r EXCEPT !.panics = TRUE]
             ELSE [array |-> [j \in DOMAIN index |->
                                IF i <= j /\ j < r.len THEN r.array[j + 1]
                                ELSE r.array[j]],
                   len |-> r.len - 1, panics |-> FALSE],
           [array |-> index, len |-> Len(index), panics |-> FALSE],
           [i \in DOMAIN index |-> i])

\* The boxes that begin with a nonce, by their places.
Heads(a, n) == {i \in DOMAIN pending[a] : pending[a][i].firstnonce = n}

\* What becomes of the pool when a resubmits a pending nonce.  Only a box
\* whose first nonce it is gets rebuilt; for any other nonce the transaction
\* is dropped, and the index is rebuilt all the same.
Replacement(a, t, inPlace) ==
  LET old   == pending[a]
      hits  == Heads(a, t.nonce)
      i     == Min(hits)
      new   == IF hits = {} THEN [boxes |-> old, panics |-> FALSE]
               ELSE IF old[i].txs = <<>> THEN [boxes |-> old, panics |-> TRUE]
               ELSE Rebuilt(old, i, t, inPlace)
      index == Without(Sortedboxes, a)
  IN  [boxes  |-> new.boxes,
       index  |-> FoldLeft(LAMBDA x, b : SortIn(x, a, b),
                           SubSeq(index.array, 1, index.len), new.boxes),
       panics |-> new.panics \/ index.panics]

\* NewTX takes the nonce for one that is pending already.
Resubmitted(a, t) == nonce[a] < t.nonce /\ t.nonce <= Base(a)

replacePendingTx(a, t, inPlace) ==
  LET r == Replacement(a, t, inPlace)
  IN  /\ Resubmitted(a, t)
      /\ Len(r.boxes) <= MaxBoxes
      /\ Len(r.index) <= MaxIndex
      /\ \/ /\ r.panics
            /\ crashed' = TRUE
            /\ UNCHANGED <<pending, Sortedboxes>>
         \/ /\ ~r.panics
            /\ pending' = [pending EXCEPT ![a] = r.boxes]
            /\ Sortedboxes' = r.index
            /\ UNCHANGED crashed
      /\ UNCHANGED queue

\* A transaction without a valid sender, of an account that is not in the
\* state, or with a nonce the account has used is refused with an error.
NewTX(a, t) ==
  /\ a \in exists
  /\ nonce[a] < t.nonce
  /\ \/ addQueueTx(a, t)
     \/ addPendingTx(a, t)
     \/ a \in Resubmits /\ \E inPlace \in BOOLEAN : replacePendingTx(a, t, inPlace)
  /\ UNCHANGED <<stateVars, historyVars>>

-----------------------------------------------------------------------------
(* Pop and execute_one, txpool.go *)

\* The account Pop looks at: that of the first entry, which is never removed.
PopAddr == Sortedboxes[1].addr

\* Pop has a box to take from.
CanPop == Sortedboxes # <<>> /\ pending[PopAddr] # <<>>

\* What Pop returns.
Popped ==
  IF CanPop /\ pending[PopAddr][1].txs # <<>>
  THEN pending[PopAddr][1].txs[1] ELSE NoTx

\* Fault: a box that runs empty is not taken off the front.
Pop_keep ==
  /\ CanPop
  /\ pending' = [pending EXCEPT ![PopAddr] =
                    WriteBox(@, Dequeue(pending[PopAddr][1]))]
  /\ UNCHANGED <<queue, Sortedboxes, crashed>>

Pop ==
  /\ CanPop
  /\ LET bs == WriteBox(pending[PopAddr], Dequeue(pending[PopAddr][1]))
     IN  pending' = [pending EXCEPT ![PopAddr] =
                       IF bs[1].txs = <<>> THEN Tail(bs) ELSE bs]
  /\ UNCHANGED <<queue, Sortedboxes, crashed>>

\* Pop comes upon a box that was emptied under another of its pointers.
execute_none ==
  /\ Popped = NoTx
  /\ Pop
  /\ UNCHANGED <<stateVars, historyVars>>

\* A transaction leaves the pool before the VM has accepted it.
execute_one(ok) ==
  /\ Popped # NoTx
  /\ ok \/ PopAddr \in Refuses
  /\ Pop
  /\ popped' = [popped EXCEPT ![PopAddr] = Popped.nonce]
  /\ nonce' = IF ok THEN [nonce EXCEPT ![PopAddr] = @ + 1] ELSE nonce
  /\ failed' = IF ok THEN failed ELSE failed \cup {PopAddr}
  /\ UNCHANGED exists

-----------------------------------------------------------------------------

Init ==
  /\ exists = {}
  /\ nonce = [a \in Addr |-> 0]
  /\ pending = [a \in Addr |-> <<>>]
  /\ queue = [a \in Addr |-> {}]
  /\ Sortedboxes = <<>>
  /\ crashed = FALSE
  /\ popped = [a \in Addr |-> 0]
  /\ failed = {}

Next ==
  /\ ~crashed
  /\ \/ \E a \in Addr : CreateAccount(a)
     \/ \E a \in Addr, t \in Tx : NewTX(a, t)
     \/ execute_none
     \/ \E ok \in BOOLEAN : execute_one(ok)

Spec == Init /\ [][Next]_vars

\* The scheduler keeps calling Execute (or Pack) while there is anything to pop.
FairSpec == Spec /\ WF_vars(~crashed /\ (execute_none \/ \E ok \in BOOLEAN : execute_one(ok)))

-----------------------------------------------------------------------------

\* The transactions in a sequence of boxes, in the order they would be popped.
Flattened(bs) == FlattenSeq([i \in DOMAIN bs |-> bs[i].txs])

\* The pending transactions of an account.
Lane(a) == Flattened(pending[a])

\* Type invariant.
TypeOK ==
  /\ exists \subseteq Addr
  /\ \A a \in Addr : nonce[a] \in Nat /\ popped[a] \in 0..MaxNonce
  /\ \A a \in Addr : \A i \in DOMAIN pending[a] :
       LET b == pending[a][i]
       IN  /\ b.id \in Nat \ {0}
           /\ b.firstnonce \in Nonce /\ b.lastnonce \in Nonce
           /\ b.gasprice \in Price
           /\ \A j \in DOMAIN b.txs : b.txs[j] \in Tx
  /\ \A a \in Addr : queue[a] \subseteq Tx
  /\ \A i \in DOMAIN Sortedboxes :
       Sortedboxes[i].addr \in Addr /\ Sortedboxes[i].price \in Price
  /\ crashed \in BOOLEAN
  /\ failed \subseteq Addr

\* The pending transactions of an account have consecutive nonces, through
\* promotions from the queue, new boxes and drained ones.
PendingContiguous ==
  \A a \in Addr : \A i \in 1..Len(Lane(a)) - 1 :
    Lane(a)[i + 1].nonce = Lane(a)[i].nonce + 1

\* No transaction pays less than the price its box is sorted under, and the
\* boxes of an account get cheaper towards its tail.
BoxesByPrice ==
  \A a \in Addr :
    /\ \A i \in DOMAIN pending[a] : \A t \in ToSet(pending[a][i].txs) :
         t.price >= pending[a][i].gasprice
    /\ \A i \in 1..Len(pending[a]) - 1 :
         pending[a][i + 1].gasprice < pending[a][i].gasprice

\* The nonces in a box stay in order under every replacement, however it is
\* aliased and wherever its transactions were copied: from the second on they
\* are consecutive and end at lastnonce.  The first may be any nonce before them
\* that is not before firstnonce: a box that is enqueued into after it ran empty
\* under an alias begins behind its firstnonce, and a replacement then writes a
\* transaction of that nonce over the first one.
BoxesInOrder ==
  \A a \in Addr : \A i \in DOMAIN pending[a] :
    LET b == pending[a][i]
        n == Len(b.txs)
    IN  /\ \A j \in 2..n : b.txs[j].nonce = b.lastnonce - (n - j)
        /\ n > 0 => b.txs[1].nonce \in b.firstnonce..b.lastnonce - (n - 1)

\* Every pending box can be found: the index is ordered by price and holds an
\* entry of its own for each box, under the box's account and price.
IndexCoversPending ==
  /\ \A i \in 1..Len(Sortedboxes) - 1 :
       Sortedboxes[i].price <= Sortedboxes[i + 1].price
  /\ \A a \in Addr : \A p \in Price :
       Cardinality({i \in DOMAIN pending[a] : pending[a][i].gasprice = p})
         <= Cardinality({i \in DOMAIN Sortedboxes :
                           Sortedboxes[i] = [addr |-> a, price |-> p]})

\* Pop returns nil, which the miner reports as "no transaction to pack"
\* (block_maker.go:94-96), only when nothing is pending.
NilMeansEmpty ==
  Popped = NoTx /\ ~crashed => \A a \in Addr : Lane(a) = <<>>

\* What Pop misses is only what other accounts have pending: it returns nil
\* with an entry in the index only when the account of the first entry has
\* nothing pending, and without one only when no account has.
NilMeansFrontEmpty ==
  Popped = NoTx /\ ~crashed =>
    \A a \in Addr : Lane(a) # <<>> => Sortedboxes # <<>> /\ PopAddr # a

\* A nonce is pending, and the account is the one Pop looks at.
InLine(a, n) ==
  Sortedboxes # <<>> /\ PopAddr = a /\ \E t \in ToSet(Lane(a)) : t.nonce = n

\* What is pending in the account Pop looks at does not stay there: under fair
\* execution each of its nonces is given to the VM eventually, or a cheaper
\* box of another account has come before it.
PendingExecutes ==
  \A a \in Addr, n \in Nonce : InLine(a, n) ~> ~InLine(a, n)

\* The boxes aside, the pool keeps the promise of PoolLanes.
Lanes == INSTANCE PoolLanes WITH
  head <- [a \in Addr |-> IF Lane(a) = <<>> THEN 1 ELSE Lane(a)[1].nonce],
  tail <- [a \in Addr |-> IF Lane(a) = <<>> THEN 0 ELSE Last(Lane(a)).nonce],
  queue <- [a \in Addr |-> {t.nonce : t \in queue[a]}]

\* Every step of the pool is a step of PoolLanes or leaves the lanes alone.
ImplementsLanes == Lanes!Spec

\* A replacement takes effect ("replace the transaction in pending",
\* txpool.go:69): NewTX of a nonce that is pending, unless it panics, leaves
\* the new transaction as the one pending under its nonce and the pending
\* transactions of other nonces as they were.
ReplacementTakesEffect ==
  ~crashed =>
    \A a \in Addr, t \in Tx, inPlace \in BOOLEAN :
      LET before == ToSet(Lane(a))
          r      == Replacement(a, t, inPlace)
      IN  /\ Resubmitted(a, t)
          /\ \E u \in before : u.nonce = t.nonce
          /\ ~r.panics
          => ToSet(Flattened(r.boxes)) =
               {u \in before : u.nonce # t.nonce} \cup {t}

=============================================================================
