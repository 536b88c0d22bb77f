-------------------------- MODULE PoolLanes_proof --------------------------
(***************************************************************************)
(* Proofs about the pool's promise, for any set of accounts and any bound  *)
(* on the nonces.  TypeOK is not inductive: that executing a transaction   *)
(* keeps an account's nonce within the bound needs AccountBehind, and      *)
(* AccountBehind needs to know what an idle lane leaves behind.  The       *)
(* invariant that carries the induction is TypeOK /\ LaneInv.              *)
(***************************************************************************)
EXTENDS PoolLanes, TLAPS

IInv == TypeOK /\ LaneInv

\* The initial pool is empty and satisfies the invariant.
LEMMA InitIInv == Init => IInv
<1> SUFFICES ASSUME Init PROVE IInv
  OBVIOUS
<1> USE MaxNonceAssumption DEF Init
<1>1. TypeOK
  BY DEF TypeOK, Nonce
<1>2. AccountBehind
  BY DEF AccountBehind, Busy
<1>3. QueueGapped
  BY DEF QueueGapped
<1>4. HeadIsNext
  <2> SUFFICES ASSUME NEW b \in Addr
               PROVE  nonce[b] = popped[b] /\ ~Busy(b)
    BY DEF HeadIsNext
  <2>1. QED
    BY DEF Busy
<1>5. QED
  BY <1>1, <1>2, <1>3, <1>4 DEF IInv, LaneInv

\* A new account has an empty lane or one that is already consistent.
LEMMA CreateAccountIInv ==
  ASSUME NEW a \in Addr, IInv, CreateAccount(a)
  PROVE  IInv'
<1> USE DEF IInv, LaneInv, CreateAccount
<1>1. TypeOK'
  BY DEF TypeOK
<1>2. LaneInv'
  BY DEF AccountBehind, QueueGapped, HeadIsNext, Busy, Base
<1>3. QED
  BY <1>1, <1>2

\* Queueing touches the queue alone, and only beyond the gap.
LEMMA addQueueTxIInv ==
  ASSUME NEW a \in Addr, NEW n \in Nonce, IInv, addQueueTx(a, n)
  PROVE  IInv'
<1> USE DEF IInv, LaneInv, addQueueTx
<1>1. TypeOK'
  BY DEF TypeOK
<1>2. AccountBehind'
  BY DEF AccountBehind, Busy
<1>3. QueueGapped'
  BY DEF TypeOK, QueueGapped, Base, Busy
<1>4. HeadIsNext'
  BY DEF HeadIsNext, Busy
<1>5. QED
  BY <1>1, <1>2, <1>3, <1>4

\* A lane grows to the last nonce its queue reaches; what stays queued has a
\* gap before it because the queue does not hold the nonce after that one.
LEMMA addPendingTxIInv ==
  ASSUME NEW a \in Addr, NEW n \in Nonce, IInv, addPendingTx(a, n)
  PROVE  IInv'
<1> USE MaxNonceAssumption DEF IInv, LaneInv
<1>1. PICK m \in Nonce :
        /\ Reaches(queue[a], n, m)
        /\ head' = IF Busy(a) THEN head ELSE [head EXCEPT ![a] = n]
        /\ tail' = [tail EXCEPT ![a] = m]
        /\ queue' = [queue EXCEPT ![a] = {k \in @ : k > m}]
  BY DEF addPendingTx
<1>2. UNCHANGED <<exists, nonce, popped, failed>> /\ n = Base(a) + 1
  BY DEF addPendingTx
<1>3. n <= m /\ m + 1 \notin queue[a] /\ n \in Int /\ m \in Int
  BY <1>1 DEF Reaches, Nonce
<1>4. TypeOK'
  BY <1>1, <1>2 DEF TypeOK, Nonce
<1>5. /\ Busy(a)'
      /\ head'[a] = IF Busy(a) THEN head[a] ELSE nonce[a] + 1
      /\ nonce[a] \in Int /\ head[a] \in Int /\ tail[a] \in Int
  BY <1>1, <1>2, <1>3 DEF TypeOK, Nonce, Busy, Base
<1>6. \A b \in Addr \ {a} :
        /\ head'[b] = head[b] /\ tail'[b] = tail[b] /\ queue'[b] = queue[b]
        /\ nonce'[b] = nonce[b] /\ popped'[b] = popped[b]
  BY <1>1, <1>2 DEF TypeOK
<1>7. AccountBehind'
  BY <1>2, <1>5, <1>6 DEF AccountBehind, Busy
<1>8. QueueGapped'
  <2> SUFFICES ASSUME NEW b \in Addr, NEW k \in queue'[b]
               PROVE  k > Base(b)' + 1
    BY DEF QueueGapped
  <2>1. CASE b = a
    <3>1. Base(a)' = m
      BY <1>1, <1>5 DEF Base, TypeOK
    <3>2. k \in queue[a] /\ k > m /\ k \in Int
      BY <1>1, <2>1 DEF TypeOK, Nonce
    <3>3. QED
      BY <1>3, <2>1, <3>1, <3>2
  <2>2. CASE b # a
    BY <1>6, <2>2 DEF QueueGapped, Base, Busy
  <2>3. QED
    BY <2>1, <2>2
<1>9. HeadIsNext'
  BY <1>2, <1>5, <1>6 DEF HeadIsNext, Busy
<1>10. QED
  BY <1>4, <1>7, <1>8, <1>9

\* Executing the head raises the account's nonce by at most one, and only to
\* a nonce that was pending, so it stays behind the rest of the lane.
LEMMA execute_oneIInv ==
  ASSUME NEW a \in Addr, NEW ok \in BOOLEAN, IInv, execute_one(a, ok)
  PROVE  IInv'
<1> USE MaxNonceAssumption DEF IInv, LaneInv
<1>1. /\ nonce[a] \in Int /\ head[a] \in Int /\ tail[a] \in Int
      /\ nonce[a] >= 0 /\ nonce[a] < head[a] /\ head[a] <= tail[a]
      /\ tail[a] <= MaxNonce
  BY DEF execute_one, AccountBehind, Busy, TypeOK, Nonce
<1>2. \A b \in Addr \ {a} :
        /\ head'[b] = head[b] /\ tail'[b] = tail[b] /\ queue'[b] = queue[b]
        /\ nonce'[b] = nonce[b] /\ popped'[b] = popped[b]
        /\ b \in failed <=> b \in failed'
  BY DEF TypeOK, execute_one
<1>3. /\ nonce'[a] = IF ok THEN nonce[a] + 1 ELSE nonce[a]
      /\ popped'[a] = head[a]
      /\ queue'[a] = queue[a]
  BY DEF TypeOK, execute_one
<1>4. IF head[a] < tail[a]
        THEN head'[a] = head[a] + 1 /\ tail'[a] = tail[a]
        ELSE head'[a] = 1 /\ tail'[a] = 0 /\ head[a] = tail[a]
  BY <1>1 DEF TypeOK, execute_one
<1>5. TypeOK'
  <2>1. nonce' \in [Addr -> 0..MaxNonce]
    BY <1>1 DEF TypeOK, execute_one
  <2>2. head' \in [Addr -> Nonce] /\ tail' \in [Addr -> 0..MaxNonce]
    BY <1>1 DEF TypeOK, execute_one, Nonce
  <2>3. popped' \in [Addr -> 0..MaxNonce] /\ failed' \subseteq Addr
    BY <1>1 DEF TypeOK, execute_one, Nonce
  <2>4. QED
    BY <2>1, <2>2, <2>3 DEF TypeOK, execute_one
<1>6. AccountBehind'
  BY <1>1, <1>2, <1>3, <1>4 DEF AccountBehind, Busy
<1>7. QueueGapped'
  <2> SUFFICES ASSUME NEW b \in Addr, NEW k \in queue'[b]
               PROVE  k > Base(b)' + 1
    BY DEF QueueGapped
  <2>1. CASE b = a
    <3>1. k \in queue[a] /\ k \in Int /\ k > tail[a] + 1
      BY <1>1, <1>3, <2>1 DEF QueueGapped, Base, Busy, TypeOK, Nonce
    <3>2. Base(a)' <= tail[a] /\ Base(a)' \in Int
      BY <1>1, <1>3, <1>4 DEF Base, Busy
    <3>3. QED
      BY <1>1, <2>1, <3>1, <3>2
  <2>2. CASE b # a
    BY <1>2, <2>2 DEF QueueGapped, Base, Busy
  <2>3. QED
    BY <2>1, <2>2
<1>8. HeadIsNext'
  <2> SUFFICES ASSUME NEW b \in Addr, b \notin failed'
               PROVE  /\ nonce'[b] = popped'[b]
                      /\ Busy(b)' => head'[b] = nonce'[b] + 1
    BY DEF HeadIsNext
  <2>1. CASE b = a
    <3>1. ok /\ a \notin failed
      BY <2>1 DEF execute_one
    <3>2. head[a] = nonce[a] + 1
      BY <1>1, <3>1 DEF HeadIsNext, Busy
    <3>3. QED
      BY <1>1, <1>3, <1>4, <2>1, <3>1, <3>2 DEF Busy
  <2>2. CASE b # a
    BY <1>2, <2>2 DEF HeadIsNext, Busy
  <2>3. QED
    BY <2>1, <2>2
<1>9. QED
  BY <1>5, <1>6, <1>7, <1>8

\* The invariant is inductive.
LEMMA NextIInv == IInv /\ [Next]_vars => IInv'
<1> SUFFICES ASSUME IInv, [Next]_vars PROVE IInv'
  OBVIOUS
<1>1. CASE Next
  BY <1>1, CreateAccountIInv, addQueueTxIInv, addPendingTxIInv, execute_oneIInv
     DEF Next
<1>2. CASE UNCHANGED vars
  BY <1>2 DEF vars, IInv, TypeOK, LaneInv, AccountBehind, QueueGapped,
              HeadIsNext, Busy, Base
<1>3. QED
  BY <1>1, <1>2

\* The inductive invariant holds in all behaviours.
LEMMA Inductive == Spec => []IInv
BY InitIInv, NextIInv, PTL DEF Spec

-----------------------------------------------------------------------------

\* Every variable keeps its type in every behaviour of the pool.
THEOREM LanesTypeCorrect == Spec => []TypeOK
<1>1. IInv => TypeOK
  BY DEF IInv
<1>2. QED
  BY <1>1, Inductive, PTL

\* The state's nonce never catches up with a pending one.
THEOREM LanesAccountBehind == Spec => []AccountBehind
<1>1. IInv => AccountBehind
  BY DEF IInv, LaneInv
<1>2. QED
  BY <1>1, Inductive, PTL

\* Nothing executable ever waits in the queue.
THEOREM LanesQueueGapped == Spec => []QueueGapped
<1>1. IInv => QueueGapped
  BY DEF IInv, LaneInv
<1>2. QED
  BY <1>1, Inductive, PTL

\* While nothing of an account was refused its lane continues right after the
\* state's nonce, which is the last one executed.
THEOREM LanesHeadIsNext == Spec => []HeadIsNext
<1>1. IInv => HeadIsNext
  BY DEF IInv, LaneInv
<1>2. QED
  BY <1>1, Inductive, PTL

\* While nothing of an account was refused, its nonces execute one by one.
THEOREM LanesNoncesInOrder == Spec => NoncesInOrder
<1> DEFINE Step == \A a \in Addr :
             a \notin failed /\ popped'[a] # popped[a] =>
               popped'[a] = popped[a] + 1
<1>1. IInv /\ [Next]_vars => [Step]_vars
  <2> SUFFICES ASSUME IInv, Next PROVE Step
    OBVIOUS
  <2> SUFFICES ASSUME NEW b \in Addr, b \notin failed, popped'[b] # popped[b]
               PROVE  popped'[b] = popped[b] + 1
    OBVIOUS
  <2>1. PICK a \in Addr, ok \in BOOLEAN : execute_one(a, ok)
    BY DEF Next, CreateAccount, addQueueTx, addPendingTx
  <2>2. b = a /\ popped'[a] = head[a] /\ Busy(a)
    BY <2>1 DEF execute_one, IInv, TypeOK
  <2>3. head[a] = nonce[a] + 1 /\ nonce[a] = popped[a]
    BY <2>2 DEF IInv, LaneInv, HeadIsNext
  <2>4. QED
    BY <2>2, <2>3
<1>2. QED
  BY <1>1, Inductive, PTL DEF Spec, NoncesInOrder
=============================================================================
