----------------------------- MODULE PoolLanes -----------------------------
(***************************************************************************)
(* What the transaction pool promises its callers, without its price boxes *)
(* (src/tx/txpool.go).  Each account has a lane: a run head..tail of       *)
(* consecutive nonces that are pending, and a set of nonces that arrived   *)
(* too early and wait in the queue.  A lane is filled at its tail only and *)
(* emptied at its head only.  Module TxPool is the pool as it is written;  *)
(* it implements this one while no pending nonce is resubmitted.           *)
(***************************************************************************)
EXTENDS Integers

CONSTANTS
  Addr,       \* the accounts
  MaxNonce    \* bound: the largest nonce a client uses (2^64 - 1 in the code)

ASSUME MaxNonceAssumption == MaxNonce \in Nat \ {0}

VARIABLES
  exists,     \* accounts that have an entry in the state
  nonce,      \* the nonce of each account in the state, 0 without an entry
  head,       \* first pending nonce of each lane
  tail,       \* last pending nonce of each lane; head > tail: nothing pending
  queue,      \* nonces that wait for a gap to close
  popped,     \* history: the nonce handed to the VM last, 0 at first
  failed      \* history: accounts one of whose transactions the VM refused

vars == <<exists, nonce, head, tail, queue, popped, failed>>

Nonce == 1..MaxNonce

Busy(a) == head[a] <= tail[a]

\* The nonce NewTX compares with: the last pending one, else the account's.
Base(a) == IF Busy(a) THEN tail[a] ELSE nonce[a]

Init ==
  /\ exists = {}
  /\ nonce = [a \in Addr |-> 0]
  /\ head = [a \in Addr |-> 1]
  /\ tail = [a \in Addr |-> 0]
  /\ queue = [a \in Addr |-> {}]
  /\ popped = [a \in Addr |-> 0]
  /\ failed = {}

\* The VM writes the account for the first time (minting, a transfer to it).
CreateAccount(a) ==
  /\ a \notin exists
  /\ exists' = exists \cup {a}
  /\ UNCHANGED <<nonce, head, tail, queue, popped, failed>>

\* NewTX with a nonce beyond the next one: keep it for later.
addQueueTx(a, n) ==
  /\ a \in exists
  /\ n > Base(a) + 1
  /\ queue' = [queue EXCEPT ![a] = @ \cup {n}]
  /\ UNCHANGED <<exists, nonce, head, tail, popped, failed>>

\* Fault: the queue is not looked at again when a gap closes.
Reaches_none(q, n, m) == m = n

\* The queue covers every nonce after n up to m, and not the one after m.
Reaches(q, n, m) ==
  /\ n <= m
  /\ \A k \in Nonce : n < k /\ k <= m => k \in q
  /\ m + 1 \notin q

\* NewTX with the next nonce: append it and everything it makes consecutive.
addPendingTx(a, n) ==
  /\ a \in exists
  /\ n = Base(a) + 1
  /\ \E m \in Nonce :
       /\ Reaches(queue[a], n, m)
       /\ head' = IF Busy(a) THEN head ELSE [head EXCEPT ![a] = n]
       /\ tail' = [tail EXCEPT ![a] = m]
       /\ queue' = [queue EXCEPT ![a] = {k \in @ : k > m}]
  /\ UNCHANGED <<exists, nonce, popped, failed>>

\* Fault: the emptied lane is left at tail + 1 .. tail.
execute_one_noreset(a, ok) ==
  /\ Busy(a)
  /\ popped' = [popped EXCEPT ![a] = head[a]]
  /\ nonce' = IF ok THEN [nonce EXCEPT ![a] = @ + 1] ELSE nonce
  /\ failed' = IF ok THEN failed ELSE failed \cup {a}
  /\ head' = [head EXCEPT ![a] = @ + 1]
  /\ UNCHANGED <<exists, tail, queue>>

\* Fault: the head is executed and left in the pool.
execute_one_peek(a, ok) ==
  /\ Busy(a)
  /\ popped' = [popped EXCEPT ![a] = head[a]]
  /\ nonce' = IF ok THEN [nonce EXCEPT ![a] = @ + 1] ELSE nonce
  /\ failed' = IF ok THEN failed ELSE failed \cup {a}
  /\ nonce[a] < MaxNonce
  /\ UNCHANGED <<exists, head, tail, queue>>

\* Fault: the newest pending transaction is executed, not the oldest.
execute_one_newest(a, ok) ==
  /\ Busy(a)
  /\ popped' = [popped EXCEPT ![a] = tail[a]]
  /\ nonce' = IF ok THEN [nonce EXCEPT ![a] = @ + 1] ELSE nonce
  /\ failed' = IF ok THEN failed ELSE failed \cup {a}
  /\ tail' = [tail EXCEPT ![a] = @ - 1]
  /\ UNCHANGED <<exists, head, queue>>

\* Fault: a refused transaction raises the account's nonce, an accepted one
\* does not.
execute_one_swapped(a, ok) ==
  /\ Busy(a)
  /\ popped' = [popped EXCEPT ![a] = head[a]]
  /\ nonce' = IF ok THEN nonce ELSE [nonce EXCEPT ![a] = @ + 1]
  /\ failed' = IF ok THEN failed ELSE failed \cup {a}
  /\ head' = [head EXCEPT ![a] = IF head[a] < tail[a] THEN @ + 1 ELSE 1]
  /\ tail' = [tail EXCEPT ![a] = IF head[a] < tail[a] THEN @ ELSE 0]
  /\ UNCHANGED <<exists, queue>>

\* Pop the head of a lane and execute it.  A transaction the VM refuses is
\* gone from the pool and leaves the account's nonce where it was.
execute_one(a, ok) ==
  /\ Busy(a)
  /\ popped' = [popped EXCEPT ![a] = head[a]]
  /\ nonce' = IF ok THEN [nonce EXCEPT ![a] = @ + 1] ELSE nonce
  /\ failed' = IF ok THEN failed ELSE failed \cup {a}
  /\ \/ /\ head[a] < tail[a]
        /\ head' = [head EXCEPT ![a] = @ + 1]
        /\ UNCHANGED tail
     \/ /\ head[a] = tail[a]
        /\ head' = [head EXCEPT ![a] = 1]
        /\ tail' = [tail EXCEPT ![a] = 0]
  /\ UNCHANGED <<exists, queue>>

Next ==
  \E a \in Addr :
    \/ CreateAccount(a)
    \/ \E n \in Nonce : addQueueTx(a, n) \/ addPendingTx(a, n)
    \/ \E ok \in BOOLEAN : execute_one(a, ok)

Spec == Init /\ [][Next]_vars

-----------------------------------------------------------------------------

\* Type invariant: an empty lane is written 1..0.
TypeOK ==
  /\ exists \subseteq Addr
  /\ nonce \in [Addr -> 0..MaxNonce]
  /\ head \in [Addr -> Nonce]
  /\ tail \in [Addr -> 0..MaxNonce]
  /\ queue \in [Addr -> SUBSET Nonce]
  /\ popped \in [Addr -> 0..MaxNonce]
  /\ failed \subseteq Addr

\* The state's nonce of an account never catches up with its pending ones, so
\* nothing pending can be refused as too old.
AccountBehind == \A a \in Addr : Busy(a) => nonce[a] < head[a]

\* Nothing in the queue is executable: every queued nonce still has a gap
\* before it, also after a lane has run dry behind a failed transaction.
QueueGapped == \A a \in Addr : \A n \in queue[a] : n > Base(a) + 1

\* While the VM has refused nothing of an account, the state's nonce is the
\* last nonce executed and the lane continues right after it.
HeadIsNext ==
  \A a \in Addr \ failed :
    /\ nonce[a] = popped[a]
    /\ Busy(a) => head[a] = nonce[a] + 1

LaneInv == AccountBehind /\ QueueGapped /\ HeadIsNext

\* While the VM has refused nothing of an account, its nonces execute one by
\* one with none skipped or repeated: a pop after a pop of n takes n + 1.
NoncesInOrder ==
  [][\A a \in Addr :
       a \notin failed /\ popped'[a] # popped[a] => popped'[a] = popped[a] + 1]_vars

=============================================================================
