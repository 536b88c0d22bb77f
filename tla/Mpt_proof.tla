----------------------------- MODULE Mpt_proof -----------------------------
(***************************************************************************)
(* Proofs about the trie of module Mpt.                                    *)
(***************************************************************************)
EXTENDS Mpt, FoldLemmas

-----------------------------------------------------------------------------
(* Each recursive function satisfies its equations.                        *)

\* A call with f for the calls it makes.
SaveDeeper(f) == [x \in Datum |-> Saved(f, x.node, x.store)]

\* One call of saveNode deeper.
LEMMA SavingSteps ==
  /\ saving[0] = <<>>
  /\ \A i \in 1..MaxDepth : saving[i] = SaveDeeper(saving[i - 1])
<1> DEFINE Obeys(g, k) == g = [i \in 0..k |-> IF i = 0 THEN <<>> ELSE SaveDeeper(g[i - 1])]
<1>1. \A k \in Nat : \E g : Obeys(g, k)
  <2> DEFINE C == {k \in Nat : ~\E g : Obeys(g, k)}
  <2>1. SUFFICES ASSUME C # {} PROVE FALSE
    OBVIOUS
  <2>2. PICK k \in C : \A m \in C : k <= m
    <3>1. C \subseteq Nat
      OBVIOUS
    <3> HIDE DEF C
    <3>2. QED
      BY <2>1, <3>1, LeastNatural
  <2>3. k \in Nat /\ ~\E g : Obeys(g, k)
    BY <2>2
  <2>4. CASE k = 0
    <3> DEFINE g == [i \in 0..0 |-> <<>>]
    <3>1. Obeys(g, 0)
      OBVIOUS
    <3>2. QED
      BY <2>3, <2>4, <3>1
  <2>5. CASE k # 0
    <3>1. k - 1 \in Nat /\ ~(k <= k - 1)
      BY <2>3, <2>5
    <3>2. PICK g : Obeys(g, k - 1)
      BY <2>2, <3>1
    <3> DEFINE h == [i \in 0..k |-> IF i = k THEN SaveDeeper(g[k - 1]) ELSE g[i]]
    <3>3. \A i \in 0..k - 1 : g[i] = IF i = 0 THEN <<>> ELSE SaveDeeper(g[i - 1])
      BY <3>2
    <3>4. \A i \in 0..k : h[i] = IF i = 0 THEN <<>> ELSE SaveDeeper(h[i - 1])
      BY <2>3, <2>5, <3>3
    <3>5. DOMAIN h = 0..k /\ h = [i \in 0..k |-> h[i]]
      OBVIOUS
    <3> HIDE DEF h
    <3>6. Obeys(h, k)
      BY <3>4, <3>5
    <3>7. QED
      BY <2>3, <3>6
  <2>6. QED
    BY <2>4, <2>5
<1>2. MaxDepth \in Nat
  BY MptAssumption
<1> DEFINE f == CHOOSE g : Obeys(g, MaxDepth)
<1>3. Obeys(f, MaxDepth)
  BY <1>1, <1>2
<1>4. saving = f
  BY Zenon DEF saving, SaveDeeper
<1> HIDE DEF f
<1>5. \A i \in 0..MaxDepth : f[i] = IF i = 0 THEN <<>> ELSE SaveDeeper(f[i - 1])
  BY <1>3
<1>6. 0 \in 0..MaxDepth /\ \A i \in 1..MaxDepth : i \in 0..MaxDepth /\ i # 0
  BY <1>2
<1>7. f[0] = <<>> /\ \A i \in 1..MaxDepth : f[i] = SaveDeeper(f[i - 1])
  BY <1>5, <1>6
<1>8. QED
  BY <1>4, <1>7

\* A call with f for the calls it makes.
InsertDeeper(f) == [x \in Datum |-> Inserted(f, x.node, x.nibbles, x.value, x.store)]

\* One call of insert deeper.
LEMMA InsertingSteps ==
  /\ inserting[0] = <<>>
  /\ \A i \in 1..MaxDepth : inserting[i] = InsertDeeper(inserting[i - 1])
<1> DEFINE Obeys(g, k) == g = [i \in 0..k |-> IF i = 0 THEN <<>> ELSE InsertDeeper(g[i - 1])]
<1>1. \A k \in Nat : \E g : Obeys(g, k)
  <2> DEFINE C == {k \in Nat : ~\E g : Obeys(g, k)}
  <2>1. SUFFICES ASSUME C # {} PROVE FALSE
    OBVIOUS
  <2>2. PICK k \in C : \A m \in C : k <= m
    <3>1. C \subseteq Nat
      OBVIOUS
    <3> HIDE DEF C
    <3>2. QED
      BY <2>1, <3>1, LeastNatural
  <2>3. k \in Nat /\ ~\E g : Obeys(g, k)
    BY <2>2
  <2>4. CASE k = 0
    <3> DEFINE g == [i \in 0..0 |-> <<>>]
    <3>1. Obeys(g, 0)
      OBVIOUS
    <3>2. QED
      BY <2>3, <2>4, <3>1
  <2>5. CASE k # 0
    <3>1. k - 1 \in Nat /\ ~(k <= k - 1)
      BY <2>3, <2>5
    <3>2. PICK g : Obeys(g, k - 1)
      BY <2>2, <3>1
    <3> DEFINE h == [i \in 0..k |-> IF i = k THEN InsertDeeper(g[k - 1]) ELSE g[i]]
    <3>3. \A i \in 0..k - 1 : g[i] = IF i = 0 THEN <<>> ELSE InsertDeeper(g[i - 1])
      BY <3>2
    <3>4. \A i \in 0..k : h[i] = IF i = 0 THEN <<>> ELSE InsertDeeper(h[i - 1])
      BY <2>3, <2>5, <3>3
    <3>5. DOMAIN h = 0..k /\ h = [i \in 0..k |-> h[i]]
      OBVIOUS
    <3> HIDE DEF h
    <3>6. Obeys(h, k)
      BY <3>4, <3>5
    <3>7. QED
      BY <2>3, <3>6
  <2>6. QED
    BY <2>4, <2>5
<1>2. MaxDepth \in Nat
  BY MptAssumption
<1> DEFINE f == CHOOSE g : Obeys(g, MaxDepth)
<1>3. Obeys(f, MaxDepth)
  BY <1>1, <1>2
<1>4. inserting = f
  BY Zenon DEF inserting, InsertDeeper
<1> HIDE DEF f
<1>5. \A i \in 0..MaxDepth : f[i] = IF i = 0 THEN <<>> ELSE InsertDeeper(f[i - 1])
  BY <1>3
<1>6. 0 \in 0..MaxDepth /\ \A i \in 1..MaxDepth : i \in 0..MaxDepth /\ i # 0
  BY <1>2
<1>7. f[0] = <<>> /\ \A i \in 1..MaxDepth : f[i] = InsertDeeper(f[i - 1])
  BY <1>5, <1>6
<1>8. QED
  BY <1>4, <1>7

\* A call with f for the calls it makes.
DeleteDeeper(f) == [x \in Datum |-> Deleted(f, x.node, x.nibbles, x.store)]

\* One call of delete deeper.
LEMMA DeletingSteps ==
  /\ deleting[0] = <<>>
  /\ \A i \in 1..MaxDepth : deleting[i] = DeleteDeeper(deleting[i - 1])
<1> DEFINE Obeys(g, k) == g = [i \in 0..k |-> IF i = 0 THEN <<>> ELSE DeleteDeeper(g[i - 1])]
<1>1. \A k \in Nat : \E g : Obeys(g, k)
  <2> DEFINE C == {k \in Nat : ~\E g : Obeys(g, k)}
  <2>1. SUFFICES ASSUME C # {} PROVE FALSE
    OBVIOUS
  <2>2. PICK k \in C : \A m \in C : k <= m
    <3>1. C \subseteq Nat
      OBVIOUS
    <3> HIDE DEF C
    <3>2. QED
      BY <2>1, <3>1, LeastNatural
  <2>3. k \in Nat /\ ~\E g : Obeys(g, k)
    BY <2>2
  <2>4. CASE k = 0
    <3> DEFINE g == [i \in 0..0 |-> <<>>]
    <3>1. Obeys(g, 0)
      OBVIOUS
    <3>2. QED
      BY <2>3, <2>4, <3>1
  <2>5. CASE k # 0
    <3>1. k - 1 \in Nat /\ ~(k <= k - 1)
      BY <2>3, <2>5
    <3>2. PICK g : Obeys(g, k - 1)
      BY <2>2, <3>1
    <3> DEFINE h == [i \in 0..k |-> IF i = k THEN DeleteDeeper(g[k - 1]) ELSE g[i]]
    <3>3. \A i \in 0..k - 1 : g[i] = IF i = 0 THEN <<>> ELSE DeleteDeeper(g[i - 1])
      BY <3>2
    <3>4. \A i \in 0..k : h[i] = IF i = 0 THEN <<>> ELSE DeleteDeeper(h[i - 1])
      BY <2>3, <2>5, <3>3
    <3>5. DOMAIN h = 0..k /\ h = [i \in 0..k |-> h[i]]
      OBVIOUS
    <3> HIDE DEF h
    <3>6. Obeys(h, k)
      BY <3>4, <3>5
    <3>7. QED
      BY <2>3, <3>6
  <2>6. QED
    BY <2>4, <2>5
<1>2. MaxDepth \in Nat
  BY MptAssumption
<1> DEFINE f == CHOOSE g : Obeys(g, MaxDepth)
<1>3. Obeys(f, MaxDepth)
  BY <1>1, <1>2
<1>4. deleting = f
  BY Zenon DEF deleting, DeleteDeeper
<1> HIDE DEF f
<1>5. \A i \in 0..MaxDepth : f[i] = IF i = 0 THEN <<>> ELSE DeleteDeeper(f[i - 1])
  BY <1>3
<1>6. 0 \in 0..MaxDepth /\ \A i \in 1..MaxDepth : i \in 0..MaxDepth /\ i # 0
  BY <1>2
<1>7. f[0] = <<>> /\ \A i \in 1..MaxDepth : f[i] = DeleteDeeper(f[i - 1])
  BY <1>5, <1>6
<1>8. QED
  BY <1>4, <1>7

\* What the loop of saveChildren does with child i.
NextChild(F, n, r, i) ==
  LET c == Call(F, Result(r.node.children[i], r.store))
  IN  IF i \notin DOMAIN n.children \/ ~r.store.ok THEN r
      ELSE Result([r.node EXCEPT !.children[i] = c.node], c.store)

\* The loop over the children of a full node.
LEMMA SaveChildrenSteps ==
  ASSUME NEW F, NEW n, NEW s
  PROVE  \E f : /\ SaveChildren(F, n, s) = f[16]
               /\ f[0] = Result(n, s)
               /\ \A i \in 1..16 : f[i] = NextChild(F, n, f[i - 1], i - 1)
<1> DEFINE Obeys(g, k) == g = [i \in 0..k |-> IF i = 0 THEN Result(n, s) ELSE NextChild(F, n, g[i - 1], i - 1)]
<1>1. \A k \in Nat : \E g : Obeys(g, k)
  <2> DEFINE C == {k \in Nat : ~\E g : Obeys(g, k)}
  <2>1. SUFFICES ASSUME C # {} PROVE FALSE
    OBVIOUS
  <2>2. PICK k \in C : \A m \in C : k <= m
    <3>1. C \subseteq Nat
      OBVIOUS
    <3> HIDE DEF C
    <3>2. QED
      BY <2>1, <3>1, LeastNatural
  <2>3. k \in Nat /\ ~\E g : Obeys(g, k)
    BY <2>2
  <2>4. CASE k = 0
    <3> DEFINE g == [i \in 0..0 |-> Result(n, s)]
    <3>1. Obeys(g, 0)
      OBVIOUS
    <3>2. QED
      BY <2>3, <2>4, <3>1
  <2>5. CASE k # 0
    <3>1. k - 1 \in Nat /\ ~(k <= k - 1)
      BY <2>3, <2>5
    <3>2. PICK g : Obeys(g, k - 1)
      BY <2>2, <3>1
    <3> DEFINE h == [i \in 0..k |-> IF i = k THEN NextChild(F, n, g[k - 1], k - 1) ELSE g[i]]
    <3>3. \A i \in 0..k - 1 : g[i] = IF i = 0 THEN Result(n, s) ELSE NextChild(F, n, g[i - 1], i - 1)
      BY <3>2
    <3>4. \A i \in 0..k : h[i] = IF i = 0 THEN Result(n, s) ELSE NextChild(F, n, h[i - 1], i - 1)
      BY <2>3, <2>5, <3>3
    <3>5. DOMAIN h = 0..k /\ h = [i \in 0..k |-> h[i]]
      OBVIOUS
    <3> HIDE DEF h
    <3>6. Obeys(h, k)
      BY <3>4, <3>5
    <3>7. QED
      BY <2>3, <3>6
  <2>6. QED
    BY <2>4, <2>5
<1>2. 16 \in Nat
  BY MptAssumption
<1> DEFINE f == CHOOSE g : Obeys(g, 16)
<1>3. Obeys(f, 16)
  BY <1>1, <1>2
<1>4. SaveChildren(F, n, s) = f[16]
  BY Zenon DEF SaveChildren, NextChild
<1> HIDE DEF f
<1>5. \A i \in 0..16 : f[i] = IF i = 0 THEN Result(n, s) ELSE NextChild(F, n, f[i - 1], i - 1)
  BY <1>3
<1>6. 0 \in 0..16 /\ \A i \in 1..16 : i \in 0..16 /\ i # 0
  BY <1>2
<1>7. f[0] = Result(n, s) /\ \A i \in 1..16 : f[i] = NextChild(F, n, f[i - 1], i - 1)
  BY <1>5, <1>6
<1>8. QED
  BY <1>4, <1>7

\* A step of the way of get.
NextOnWay(database, p) == IF Continues(p) THEN Onward(database, p) ELSE p

\* f are the steps of the way of get.
Way(f, database, n, nibbles) ==
  /\ Walk(database, n, nibbles) = f[MaxDepth]
  /\ f[0] = At(n, nibbles)
  /\ \A i \in 1..MaxDepth : f[i] = NextOnWay(database, f[i - 1])

LEMMA WalkSteps ==
  ASSUME NEW database, NEW n, NEW nibbles
  PROVE  \E f : Way(f, database, n, nibbles)
<1> DEFINE Obeys(g, k) == g = [i \in 0..k |-> IF i = 0 THEN At(n, nibbles) ELSE NextOnWay(database, g[i - 1])]
<1>1. \A k \in Nat : \E g : Obeys(g, k)
  <2> DEFINE C == {k \in Nat : ~\E g : Obeys(g, k)}
  <2>1. SUFFICES ASSUME C # {} PROVE FALSE
    OBVIOUS
  <2>2. PICK k \in C : \A m \in C : k <= m
    <3>1. C \subseteq Nat
      OBVIOUS
    <3> HIDE DEF C
    <3>2. QED
      BY <2>1, <3>1, LeastNatural
  <2>3. k \in Nat /\ ~\E g : Obeys(g, k)
    BY <2>2
  <2>4. CASE k = 0
    <3> DEFINE g == [i \in 0..0 |-> At(n, nibbles)]
    <3>1. Obeys(g, 0)
      OBVIOUS
    <3>2. QED
      BY <2>3, <2>4, <3>1
  <2>5. CASE k # 0
    <3>1. k - 1 \in Nat /\ ~(k <= k - 1)
      BY <2>3, <2>5
    <3>2. PICK g : Obeys(g, k - 1)
      BY <2>2, <3>1
    <3> DEFINE h == [i \in 0..k |-> IF i = k THEN NextOnWay(database, g[k - 1]) ELSE g[i]]
    <3>3. \A i \in 0..k - 1 : g[i] = IF i = 0 THEN At(n, nibbles) ELSE NextOnWay(database, g[i - 1])
      BY <3>2
    <3>4. \A i \in 0..k : h[i] = IF i = 0 THEN At(n, nibbles) ELSE NextOnWay(database, h[i - 1])
      BY <2>3, <2>5, <3>3
    <3>5. DOMAIN h = 0..k /\ h = [i \in 0..k |-> h[i]]
      OBVIOUS
    <3> HIDE DEF h
    <3>6. Obeys(h, k)
      BY <3>4, <3>5
    <3>7. QED
      BY <2>3, <3>6
  <2>6. QED
    BY <2>4, <2>5
<1>2. MaxDepth \in Nat
  BY MptAssumption
<1> DEFINE f == CHOOSE g : Obeys(g, MaxDepth)
<1>3. Obeys(f, MaxDepth)
  BY <1>1, <1>2
<1>4. Walk(database, n, nibbles) = f[MaxDepth]
  BY Zenon DEF Walk, NextOnWay
<1> HIDE DEF f
<1>5. \A i \in 0..MaxDepth : f[i] = IF i = 0 THEN At(n, nibbles) ELSE NextOnWay(database, f[i - 1])
  BY <1>3
<1>6. 0 \in 0..MaxDepth /\ \A i \in 1..MaxDepth : i \in 0..MaxDepth /\ i # 0
  BY <1>2
<1>7. f[0] = At(n, nibbles) /\ \A i \in 1..MaxDepth : f[i] = NextOnWay(database, f[i - 1])
  BY <1>5, <1>6
<1>8. QED
  BY <1>4, <1>7 DEF Way

\* A step of the way that Down goes.
FurtherDown(q) ==
  IF ~HasChild(q.at) THEN q
  ELSE [at |-> ToChild(q.at),
        others |-> DOMAIN q.at.node.children \ {Head(q.at.rest)}]

\* f are the steps of the way of delete through memory.
Descent(f, n, nibbles) ==
  /\ Down(n, nibbles) = f[MaxDepth]
  /\ f[0] = [at |-> At(n, nibbles), others |-> Nibble]
  /\ \A i \in 1..MaxDepth : f[i] = FurtherDown(f[i - 1])

LEMMA DownSteps ==
  ASSUME NEW n, NEW nibbles
  PROVE  \E f : Descent(f, n, nibbles)
<1> DEFINE Obeys(g, k) == g = [i \in 0..k |-> IF i = 0 THEN [at |-> At(n, nibbles), others |-> Nibble] ELSE FurtherDown(g[i - 1])]
<1>1. \A k \in Nat : \E g : Obeys(g, k)
  <2> DEFINE C == {k \in Nat : ~\E g : Obeys(g, k)}
  <2>1. SUFFICES ASSUME C # {} PROVE FALSE
    OBVIOUS
  <2>2. PICK k \in C : \A m \in C : k <= m
    <3>1. C \subseteq Nat
      OBVIOUS
    <3> HIDE DEF C
    <3>2. QED
      BY <2>1, <3>1, LeastNatural
  <2>3. k \in Nat /\ ~\E g : Obeys(g, k)
    BY <2>2
  <2>4. CASE k = 0
    <3> DEFINE g == [i \in 0..0 |-> [at |-> At(n, nibbles), others |-> Nibble]]
    <3>1. Obeys(g, 0)
      OBVIOUS
    <3>2. QED
      BY <2>3, <2>4, <3>1
  <2>5. CASE k # 0
    <3>1. k - 1 \in Nat /\ ~(k <= k - 1)
      BY <2>3, <2>5
    <3>2. PICK g : Obeys(g, k - 1)
      BY <2>2, <3>1
    <3> DEFINE h == [i \in 0..k |-> IF i = k THEN FurtherDown(g[k - 1]) ELSE g[i]]
    <3>3. \A i \in 0..k - 1 : g[i] = IF i = 0 THEN [at |-> At(n, nibbles), others |-> Nibble] ELSE FurtherDown(g[i - 1])
      BY <3>2
    <3>4. \A i \in 0..k : h[i] = IF i = 0 THEN [at |-> At(n, nibbles), others |-> Nibble] ELSE FurtherDown(h[i - 1])
      BY <2>3, <2>5, <3>3
    <3>5. DOMAIN h = 0..k /\ h = [i \in 0..k |-> h[i]]
      OBVIOUS
    <3> HIDE DEF h
    <3>6. Obeys(h, k)
      BY <3>4, <3>5
    <3>7. QED
      BY <2>3, <3>6
  <2>6. QED
    BY <2>4, <2>5
<1>2. MaxDepth \in Nat
  BY MptAssumption
<1> DEFINE f == CHOOSE g : Obeys(g, MaxDepth)
<1>3. Obeys(f, MaxDepth)
  BY <1>1, <1>2
<1>4. Down(n, nibbles) = f[MaxDepth]
  BY Zenon DEF Down, FurtherDown
<1> HIDE DEF f
<1>5. \A i \in 0..MaxDepth : f[i] = IF i = 0 THEN [at |-> At(n, nibbles), others |-> Nibble] ELSE FurtherDown(f[i - 1])
  BY <1>3
<1>6. 0 \in 0..MaxDepth /\ \A i \in 1..MaxDepth : i \in 0..MaxDepth /\ i # 0
  BY <1>2
<1>7. f[0] = [at |-> At(n, nibbles), others |-> Nibble] /\ \A i \in 1..MaxDepth : f[i] = FurtherDown(f[i - 1])
  BY <1>5, <1>6
<1>8. QED
  BY <1>4, <1>7 DEF Descent

\* The children of the full nodes of a set.
ChildrenOf(nodes) ==
  UNION {{m.children[j] : j \in DOMAIN m.children} : m \in {x \in nodes : x.type = "full"}}

\* f are the nodes in memory, level by level.
Levels(f, n) ==
  /\ InMemory(n) = UNION {f[i] : i \in 0..MaxDepth}
  /\ f[0] = {n}
  /\ \A i \in 1..MaxDepth : f[i] = ChildrenOf(f[i - 1])

LEMMA MemorySteps ==
  ASSUME NEW n
  PROVE  \E f : Levels(f, n)
<1> DEFINE Obeys(g, k) == g = [i \in 0..k |-> IF i = 0 THEN {n} ELSE ChildrenOf(g[i - 1])]
<1>1. \A k \in Nat : \E g : Obeys(g, k)
  <2> DEFINE C == {k \in Nat : ~\E g : Obeys(g, k)}
  <2>1. SUFFICES ASSUME C # {} PROVE FALSE
    OBVIOUS
  <2>2. PICK k \in C : \A m \in C : k <= m
    <3>1. C \subseteq Nat
      OBVIOUS
    <3> HIDE DEF C
    <3>2. QED
      BY <2>1, <3>1, LeastNatural
  <2>3. k \in Nat /\ ~\E g : Obeys(g, k)
    BY <2>2
  <2>4. CASE k = 0
    <3> DEFINE g == [i \in 0..0 |-> {n}]
    <3>1. Obeys(g, 0)
      OBVIOUS
    <3>2. QED
      BY <2>3, <2>4, <3>1
  <2>5. CASE k # 0
    <3>1. k - 1 \in Nat /\ ~(k <= k - 1)
      BY <2>3, <2>5
    <3>2. PICK g : Obeys(g, k - 1)
      BY <2>2, <3>1
    <3> DEFINE h == [i \in 0..k |-> IF i = k THEN ChildrenOf(g[k - 1]) ELSE g[i]]
    <3>3. \A i \in 0..k - 1 : g[i] = IF i = 0 THEN {n} ELSE ChildrenOf(g[i - 1])
      BY <3>2
    <3>4. \A i \in 0..k : h[i] = IF i = 0 THEN {n} ELSE ChildrenOf(h[i - 1])
      BY <2>3, <2>5, <3>3
    <3>5. DOMAIN h = 0..k /\ h = [i \in 0..k |-> h[i]]
      OBVIOUS
    <3> HIDE DEF h
    <3>6. Obeys(h, k)
      BY <3>4, <3>5
    <3>7. QED
      BY <2>3, <3>6
  <2>6. QED
    BY <2>4, <2>5
<1>2. MaxDepth \in Nat
  BY MptAssumption
<1> DEFINE f == CHOOSE g : Obeys(g, MaxDepth)
<1>3. Obeys(f, MaxDepth)
  BY <1>1, <1>2
<1>4. InMemory(n) = UNION {f[i] : i \in 0..MaxDepth}
  BY Zenon DEF InMemory, ChildrenOf
<1> HIDE DEF f
<1>5. \A i \in 0..MaxDepth : f[i] = IF i = 0 THEN {n} ELSE ChildrenOf(f[i - 1])
  BY <1>3
<1>6. 0 \in 0..MaxDepth /\ \A i \in 1..MaxDepth : i \in 0..MaxDepth /\ i # 0
  BY <1>2
<1>7. f[0] = {n} /\ \A i \in 1..MaxDepth : f[i] = ChildrenOf(f[i - 1])
  BY <1>5, <1>6
<1>8. QED
  BY <1>4, <1>7 DEF Levels


-----------------------------------------------------------------------------
(* Paths.                                                                  *)

\* What putting two paths together gives.
LEMMA LenSum ==
  ASSUME NEW p \in Seq(Nibble), NEW q \in Seq(Nibble)
  PROVE  /\ p \o q \in Seq(Nibble) /\ Len(p \o q) = Len(p) + Len(q)
         /\ Len(p) \in Nat /\ Len(q) \in Nat
OBVIOUS

LEMMA Joined ==
  ASSUME NEW p \in Seq(Nibble), NEW q \in Seq(Nibble)
  PROVE  /\ p \o q \in Seq(Nibble) /\ Len(p \o q) = Len(p) + Len(q)
         /\ Len(p) \in Nat /\ Len(q) \in Nat
         /\ \A i \in 1..Len(p) : (p \o q)[i] = p[i]
         /\ \A i \in 1..Len(q) : (p \o q)[Len(p) + i] = q[i]
<1>1. Len(p) \in Nat /\ Len(q) \in Nat
  OBVIOUS
<1>2. \A i \in 1..Len(p) + Len(q) :
        (p \o q)[i] = IF i <= Len(p) THEN p[i] ELSE q[i - Len(p)]
  BY ConcatProperties
<1>3. \A i \in 1..Len(p) : (p \o q)[i] = p[i]
  BY <1>1, <1>2
<1>4. ASSUME NEW i \in 1..Len(q) PROVE (p \o q)[Len(p) + i] = q[i]
  <2>1. /\ Len(p) + i \in 1..Len(p) + Len(q) /\ ~(Len(p) + i <= Len(p))
        /\ (Len(p) + i) - Len(p) = i
    BY <1>1
  <2>2. QED
    BY <1>2, <2>1
<1>5. QED
  BY <1>1, <1>3, <1>4, LenSum

LEMMA JoinedAll ==
  \A p, q \in Seq(Nibble) :
    /\ p \o q \in Seq(Nibble) /\ Len(p \o q) = Len(p) + Len(q)
    /\ Len(p) \in Nat /\ Len(q) \in Nat
BY Joined

\* Where the brackets are does not matter.
LEMMA Associated ==
  \A p, q, r \in Seq(Nibble) : (p \o q) \o r = p \o (q \o r)
BY ConcatAssociative

\* A path that begins with another is that one and the rest.
LEMMA RestOfPath ==
  ASSUME NEW p \in Seq(Nibble), NEW x \in Seq(Nibble), IsPrefix(p, x)
  PROVE  /\ SubSeq(x, Len(p) + 1, Len(x)) \in Seq(Nibble)
         /\ x = p \o SubSeq(x, Len(p) + 1, Len(x))
<1> DEFINE q == SubSeq(x, Len(p) + 1, Len(x))
<1>1. Len(p) \in Nat /\ Len(x) \in Nat /\ Len(p) <= Len(x)
  BY DEF IsPrefix
<1>2. \A i \in Len(p) + 1..Len(x) : x[i] \in Nibble
  BY <1>1, ElementOfSeq
<1>3. q \in Seq(Nibble)
  BY <1>1, <1>2, SubSeqProperties
<1>4. SubSeq(x, 1, Len(p)) \o q = SubSeq(x, 1, Len(x))
  <2>1. 1 \in 1..Len(x) + 1 /\ Len(p) \in 1 - 1..Len(x) /\ Len(x) \in Len(p)..Len(x)
    BY <1>1
  <2>2. QED
    BY <2>1, ConcatAdjacentSubSeq
<1>5. SubSeq(x, 1, Len(x)) = x /\ SubSeq(p, 1, Len(p)) = p
  BY SubSeqFull
<1>6. SubSeq(p, 1, Len(p)) = SubSeq(x, 1, Len(p))
  BY DEF IsPrefix
<1>7. QED
  BY <1>3, <1>4, <1>5, <1>6

\* A path that is not empty is its first nibble and the others.
LEMMA FirstAndRest ==
  ASSUME NEW x \in Seq(Nibble), x # <<>>
  PROVE  /\ Head(x) \in Nibble /\ Tail(x) \in Seq(Nibble)
         /\ <<Head(x)>> \in Seq(Nibble) /\ x = <<Head(x)>> \o Tail(x)
<1>1. Head(x) \in Nibble /\ Tail(x) \in Seq(Nibble)
  BY HeadTailProperties
<1>2. Len(x) \in Nat \ {0}
  BY EmptySeq
<1>3. SubSeq(x, 1, Len(x)) = <<x[1]>> \o SubSeq(x, 2, Len(x))
  BY <1>2, SubSeqRecursiveFirst
<1>4. SubSeq(x, 1, Len(x)) = x /\ Tail(x) = SubSeq(x, 2, Len(x)) /\ Head(x) = x[1]
  BY <1>2, SubSeqFull, TailIsSubSeq
<1>5. <<Head(x)>> \in Seq(Nibble)
  BY <1>1
<1>6. QED
  BY <1>1, <1>3, <1>4, <1>5

\* What two paths share, and what each has after it: where both go on, they
\* go on differently.
LEMMA Parting ==
  ASSUME NEW p \in Seq(Nibble), NEW x \in Seq(Nibble)
  PROVE  LET common == findCommonPrefix(p, x)
             old == SubSeq(p, Len(common) + 1, Len(p))
             new == SubSeq(x, Len(common) + 1, Len(x))
         IN  /\ common \in Seq(Nibble) /\ old \in Seq(Nibble) /\ new \in Seq(Nibble)
             /\ p = common \o old /\ x = common \o new
             /\ old # <<>> /\ new # <<>> => Head(old) # Head(new)
<1> DEFINE common == findCommonPrefix(p, x)
           old == SubSeq(p, Len(common) + 1, Len(p))
           new == SubSeq(x, Len(common) + 1, Len(x))
           Fit(n) == /\ n <= Len(x) /\ \A i \in 1..n : p[i] = x[i]
                     /\ n < Len(p) /\ n < Len(x) => p[n + 1] # x[n + 1]
<1>1. Len(p) \in Nat /\ Len(x) \in Nat
  OBVIOUS
<1>2. \E n \in 0..Len(p) : Fit(n)
  <2> DEFINE D == {n \in Nat : n >= Len(p) \/ n >= Len(x) \/ p[n + 1] # x[n + 1]}
  <2>1. Len(p) \in D
    BY <1>1
  <2>2. PICK n \in D : \A m \in D : n <= m
    <3>1. D \subseteq Nat /\ D # {}
      BY <2>1
    <3> HIDE DEF D
    <3>2. QED
      BY <3>1, LeastNatural
  <2>3. n \in Nat /\ n <= Len(p)
    BY <2>1, <2>2
  <2>4. \A i \in 1..n : i - 1 \in Nat /\ i - 1 \notin D
    BY <2>2, <2>3
  <2>5. \A i \in 1..n : i - 1 < Len(x) /\ p[(i - 1) + 1] = x[(i - 1) + 1] /\ (i - 1) + 1 = i
    BY <1>1, <2>3, <2>4
  <2>6. \A i \in 1..n : p[i] = x[i]
    BY <2>5
  <2>7. n <= Len(x)
    <3>1. CASE n = 0
      BY <1>1, <3>1
    <3>2. CASE n # 0
      BY <1>1, <2>3, <2>5, <3>2
    <3>3. QED
      BY <3>1, <3>2
  <2>8. n < Len(p) /\ n < Len(x) => p[n + 1] # x[n + 1]
    BY <1>1, <2>2, <2>3
  <2>9. QED
    BY <2>3, <2>6, <2>7, <2>8
<1> DEFINE n == CommonLen(p, x)
<1>3. n = CHOOSE m \in 0..Len(p) : Fit(m)
  BY DEF CommonLen
<1>4. n \in 0..Len(p) /\ Fit(n)
  <2> HIDE DEF Fit, n
  <2>1. QED
    BY <1>2, <1>3
<1> HIDE DEF n
<1>5. common = SubSeq(p, 1, n)
  BY DEF findCommonPrefix, FindCommonPrefix, n
<1>6. common \in Seq(Nibble) /\ Len(common) = n /\ \A i \in 1..n : common[i] = p[i]
  <2>1. n \in Nat /\ \A i \in 1..n : p[i] \in Nibble
    BY <1>1, <1>4, ElementOfSeq
  <2>2. /\ SubSeq(p, 1, n) \in Seq(Nibble)
        /\ Len(SubSeq(p, 1, n)) = IF 1 <= n THEN n - 1 + 1 ELSE 0
        /\ \A i \in 1..n - 1 + 1 : SubSeq(p, 1, n)[i] = p[1 + i - 1]
    BY <2>1, SubSeqProperties
  <2>3. \A i \in 1..n : i \in 1..n - 1 + 1 /\ 1 + i - 1 = i
    BY <2>1
  <2>4. QED
    BY <1>5, <2>1, <2>2, <2>3
<1> HIDE DEF common
<1>7. IsPrefix(common, p) /\ IsPrefix(common, x)
  <2>1. n \in Nat /\ n <= Len(p) /\ n <= Len(x)
    BY <1>4
  <2>2. /\ Len(SubSeq(x, 1, n)) = n /\ Len(SubSeq(common, 1, n)) = n
        /\ Len(SubSeq(p, 1, n)) = n
        /\ \A i \in 1..n : SubSeq(x, 1, n)[i] = x[i]
        /\ \A i \in 1..n : SubSeq(common, 1, n)[i] = common[i]
        /\ \A i \in 1..n : SubSeq(p, 1, n)[i] = p[i]
        /\ SubSeq(x, 1, n) \in Seq(Nibble) /\ SubSeq(common, 1, n) \in Seq(Nibble)
        /\ SubSeq(p, 1, n) \in Seq(Nibble)
    BY <1>1, <1>6, <2>1, SubSeqProperties, ElementOfSeq
  <2>3. SubSeq(x, 1, n) = SubSeq(common, 1, n) /\ SubSeq(p, 1, n) = SubSeq(common, 1, n)
    BY <1>4, <1>6, <2>1, <2>2, SeqEqual
  <2>4. QED
    BY <1>6, <2>1, <2>3 DEF IsPrefix
<1>8. old \in Seq(Nibble) /\ new \in Seq(Nibble) /\ p = common \o old /\ x = common \o new
  BY <1>6, <1>7, RestOfPath
<1>9. ASSUME old # <<>>, new # <<>> PROVE Head(old) # Head(new)
  <2>1. Len(old) \in Nat \ {0} /\ Len(new) \in Nat \ {0}
    BY <1>8, <1>9, EmptySeq
  <2>2. Len(p) = n + Len(old) /\ Len(x) = n + Len(new)
    BY <1>6, <1>8, ConcatProperties
  <2>3. p[n + 1] # x[n + 1]
    BY <1>1, <1>4, <2>1, <2>2
  <2>4. n + 1 \in Len(common) + 1..Len(p) /\ n + 1 \in Len(common) + 1..Len(x)
    BY <1>1, <1>4, <1>6, <2>1, <2>2
  <2> HIDE DEF old, new
  <2>5. n \in Nat /\ (common \o old)[n + 1] = old[1] /\ (common \o new)[n + 1] = new[1]
    <3>1. 1 \in 1..Len(old) /\ 1 \in 1..Len(new) /\ n \in Nat
      BY <1>4, <2>1
    <3>2. /\ (common \o old)[Len(common) + 1] = old[1]
          /\ (common \o new)[Len(common) + 1] = new[1]
      BY <1>6, <1>8, <3>1, Joined
    <3>3. QED
      BY <1>6, <3>1, <3>2
  <2>6. Head(old) = old[1] /\ Head(new) = new[1]
    BY <1>8
  <2>7. QED
    BY <1>8, <2>3, <2>5, <2>6
<1>10. QED
  BY <1>6, <1>8, <1>9 DEF common


-----------------------------------------------------------------------------
(* Frames.  A frame G has the places where a node may stand, the paths that  *)
(* a leaf may have at each of them, and the place to which a path leads.     *)
(* Two of them are used below: one knows of a place only how long the paths  *)
(* of its leaves are, the other one which keys lead to it.                   *)

\* Where path p leads from a.
Step(G, a, p) == G.step[<<a, p>>]

\* A key's path ends at a leaf with path p at a.
LeafAt(G, p, a) == <<p, a>> \in G.leaves

\* A place is determined by a leaf's path there, and by where a path leads;
\* paths lead on from one another; where two keys part, the nibble after what
\* they share leads to a place; no key ends where another one goes on.
Frame(G) ==
  /\ \A p, a : LeafAt(G, p, a) => p \in Seq(Nibble) /\ a \in G.places
  /\ \A p, a, b : LeafAt(G, p, a) /\ LeafAt(G, p, b) => a = b
  /\ \A a, b \in G.places, p \in Seq(Nibble) : Step(G, a, p) = Step(G, b, p) => a = b
  /\ \A a \in G.places : Step(G, a, <<>>) = a
  /\ \A a \in G.places, p, q \in Seq(Nibble) :
       Step(G, a, p) \in G.places => Step(G, Step(G, a, p), q) = Step(G, a, p \o q)
  /\ \A a \in G.places, p, q \in Seq(Nibble) :
       Step(G, a, p \o q) \in G.places => Step(G, a, p) \in G.places
  /\ \A a \in G.places, p, q \in Seq(Nibble) :
       Step(G, a, p) \in G.places => (LeafAt(G, p \o q, a) <=> LeafAt(G, q, Step(G, a, p)))
  /\ \A a \in G.places, c, p, q \in Seq(Nibble), i, j \in Nibble :
       i # j /\ LeafAt(G, c \o (<<i>> \o p), a) /\ LeafAt(G, c \o (<<j>> \o q), a)
         => Step(G, a, c \o <<i>>) \in G.places
  /\ \A a \in G.places, c, q \in Seq(Nibble), i, j \in Nibble :
       Step(G, a, c \o <<i>>) \in G.places /\ LeafAt(G, c \o (<<j>> \o q), a)
         => Step(G, a, c \o <<j>>) \in G.places
  /\ \A a \in G.places, p, x \in Seq(Nibble) :
       Step(G, a, p) \in G.places /\ LeafAt(G, x, a) => Len(p) <= Len(x)
  /\ \A a \in G.places, p, x \in Seq(Nibble) :
       LeafAt(G, p, a) /\ LeafAt(G, x, a) => Len(p) = Len(x)

\* At a place with a child no key ends, and the next nibble of every key leads
\* to a place.
LEMMA KeysGoOn ==
  ASSUME NEW G, Frame(G), NEW a \in G.places, NEW i \in Nibble,
         Step(G, a, <<i>>) \in G.places, NEW x, LeafAt(G, x, a)
  PROVE  /\ x \in Seq(Nibble) /\ x # <<>>
         /\ Head(x) \in Nibble /\ Tail(x) \in Seq(Nibble) /\ x = <<Head(x)>> \o Tail(x)
         /\ Step(G, a, <<Head(x)>>) \in G.places
         /\ LeafAt(G, Tail(x), Step(G, a, <<Head(x)>>))
<1>1. x \in Seq(Nibble) /\ <<i>> \in Seq(Nibble)
  BY DEF Frame
<1>2. Len(<<i>>) <= Len(x)
  BY <1>1 DEF Frame
<1>3. x # <<>>
  BY <1>2
<1>4. /\ Head(x) \in Nibble /\ Tail(x) \in Seq(Nibble)
      /\ <<Head(x)>> \in Seq(Nibble) /\ x = <<Head(x)>> \o Tail(x)
  BY <1>1, <1>3, FirstAndRest
<1>5. <<>> \in Seq(Nibble) /\ <<>> \o <<i>> = <<i>> /\ <<>> \o <<Head(x)>> = <<Head(x)>>
      /\ <<>> \o (<<Head(x)>> \o Tail(x)) = x
  BY <1>1, <1>4, ConcatEmptySeq
<1>6. Step(G, a, <<Head(x)>>) \in G.places
  <2>1. \A c, q \in Seq(Nibble), j, k \in Nibble :
          Step(G, a, c \o <<k>>) \in G.places /\ LeafAt(G, c \o (<<j>> \o q), a)
            => Step(G, a, c \o <<j>>) \in G.places
    BY DEF Frame
  <2>2. Step(G, a, <<>> \o <<i>>) \in G.places /\ LeafAt(G, <<>> \o (<<Head(x)>> \o Tail(x)), a)
    BY <1>5
  <2>3. Step(G, a, <<>> \o <<Head(x)>>) \in G.places
    BY <1>4, <1>5, <2>1, <2>2
  <2>4. QED
    BY <1>5, <2>3
<1>7. LeafAt(G, Tail(x), Step(G, a, <<Head(x)>>))
  <2>1. \A p, q \in Seq(Nibble) :
          Step(G, a, p) \in G.places => (LeafAt(G, p \o q, a) <=> LeafAt(G, q, Step(G, a, p)))
    BY DEF Frame
  <2>2. LeafAt(G, <<Head(x)>> \o Tail(x), a)
    BY <1>4
  <2>3. QED
    BY <1>4, <1>6, <2>1, <2>2
<1>8. QED
  BY <1>1, <1>3, <1>4, <1>6, <1>7

-----------------------------------------------------------------------------
(* Contents and their places.  R gives every hash in the database its place. *)

\* A content that may be under a hash of place a: what it names is at the
\* places to which its paths lead.
Fits(G, R, c, a) ==
  /\ a \in G.places
  /\ \/ /\ c.type = "leaf" /\ c = [type |-> "leaf", path |-> c.path, value |-> c.value]
        /\ LeafAt(G, c.path, a) /\ c.value \in Value
     \/ /\ c.type = "extension"
        /\ c = [type |-> "extension", path |-> c.path, value |-> c.value]
        /\ c.value \in DOMAIN R
        /\ \/ c.path = NoPath /\ R[c.value] = a
           \/ /\ c.path \in Seq(Nibble) /\ c.value.type = "full"
              /\ R[c.value] = Step(G, a, c.path)
     \/ /\ c.type = "full" /\ c = [type |-> "full", children |-> c.children]
        /\ c.children = [i \in DOMAIN c.children |-> c.children[i]]
        /\ DOMAIN c.children \subseteq Nibble /\ Cardinality(DOMAIN c.children) > 1
        /\ \A i \in DOMAIN c.children :
             /\ c.children[i] \in DOMAIN R /\ R[c.children[i]] = Step(G, a, <<i>>)
             /\ Step(G, a, <<i>>) \in G.places

\* What a node read back is saved as that stands in for a child.
Wraps(h) == h.type = "extension" /\ h.path = NoPath

\* A hash of a node that was read back, or of its parent.
Wrapping(h) ==
  Wraps(h) \/ (h.type = "full" /\ \E i \in DOMAIN h.children : Wraps(h.children[i]))

\* Under every hash there is a content of its place; where a node that was read
\* back is concerned it is what was hashed.
Sound(G, R, database) ==
  /\ DOMAIN R = DOMAIN database
  /\ \A h \in DOMAIN database :
       /\ R[h] \in G.places
       /\ Fits(G, R, h, R[h]) /\ Fits(G, R, database[h], R[h])
       /\ database[h].type = h.type
       /\ Wrapping(h) => database[h] = h

\* T knows the places that R knows.
Extends(R, T) == \A h \in DOMAIN R : h \in DOMAIN T /\ T[h] = R[h]

LEMMA ExtendsItself == ASSUME NEW R PROVE Extends(R, R)
BY DEF Extends

LEMMA ExtendsFurther ==
  ASSUME NEW R, NEW S, NEW T, Extends(R, S), Extends(S, T)
  PROVE  Extends(R, T)
BY DEF Extends

\* A set of nibbles with two members has a first one.
LEMMA SomeChild ==
  ASSUME NEW S, Cardinality(S) > 1
  PROVE  \E i : i \in S
<1>1. SUFFICES ASSUME S = {} PROVE FALSE
  OBVIOUS
<1>2. Cardinality(S) = 0
  BY <1>1, FS_EmptySet
<1>3. QED
  BY <1>2

LEMMA FitsGrows ==
  ASSUME NEW G, NEW R, NEW T, Extends(R, T), NEW c, NEW a, Fits(G, R, c, a)
  PROVE  Fits(G, T, c, a)
<1>1. CASE c.type = "leaf"
  BY <1>1 DEF Fits
<1>2. CASE c.type = "extension"
  BY <1>2 DEF Fits, Extends
<1>3. CASE c.type = "full"
  BY <1>3 DEF Fits, Extends
<1>4. QED
  BY <1>1, <1>2, <1>3 DEF Fits

\* A content has one place only.
LEMMA FitsOnce ==
  ASSUME NEW G, Frame(G), NEW R, NEW c, NEW a, NEW b, Fits(G, R, c, a), Fits(G, R, c, b)
  PROVE  a = b
<1>1. a \in G.places /\ b \in G.places
  BY DEF Fits
<1>2. CASE c.type = "leaf"
  <2>1. LeafAt(G, c.path, a) /\ LeafAt(G, c.path, b)
    BY <1>2 DEF Fits
  <2>2. QED
    BY <2>1 DEF Frame
<1>3. CASE c.type = "extension"
  <2>1. \/ R[c.value] = a /\ R[c.value] = b
        \/ c.path \in Seq(Nibble) /\ Step(G, a, c.path) = Step(G, b, c.path)
    BY <1>3, MptAssumption DEF Fits
  <2>2. QED
    BY <1>1, <2>1 DEF Frame
<1>4. CASE c.type = "full"
  <2>1. PICK i : i \in DOMAIN c.children
    BY <1>4, SomeChild DEF Fits
  <2>2. i \in Nibble /\ Step(G, a, <<i>>) = Step(G, b, <<i>>)
    BY <1>4, <2>1 DEF Fits
  <2>3. <<i>> \in Seq(Nibble)
    BY <2>2
  <2>4. \A p \in Seq(Nibble) : Step(G, a, p) = Step(G, b, p) => a = b
    BY <1>1 DEF Frame
  <2>5. QED
    BY <2>2, <2>3, <2>4
<1>5. QED
  BY <1>2, <1>3, <1>4 DEF Fits

-----------------------------------------------------------------------------
(* Nodes and their places.                                                 *)

\* A node at place a, its children apart.  Its hash, when it has one, is that
\* of a node there, but perhaps not of what the node is now; a node that is
\* kept in memory names nothing that was read back.
Own(G, R, n, a, w) ==
  /\ a \in G.places
  /\ \/ /\ n.type = "leaf"
        /\ n = [type |-> "leaf", path |-> n.path, value |-> n.value, hash |-> n.hash]
        /\ LeafAt(G, n.path, a) /\ n.value \in Value
     \/ /\ n.type = "extension"
        /\ n = [type |-> "extension", path |-> n.path, value |-> n.value, hash |-> n.hash]
        /\ n.value \in DOMAIN R
        /\ \/ n.path = NoPath /\ R[n.value] = a /\ w = "any"
           \/ /\ n.path \in Seq(Nibble) /\ n.value.type = "full"
              /\ R[n.value] = Step(G, a, n.path)
     \/ /\ n.type = "full"
        /\ n = [type |-> "full", children |-> n.children, hash |-> n.hash]
        /\ n.children = [i \in DOMAIN n.children |-> n.children[i]]
        /\ DOMAIN n.children \subseteq Nibble /\ Cardinality(DOMAIN n.children) > 1
        /\ \A i \in DOMAIN n.children : Step(G, a, <<i>>) \in G.places
  /\ \/ n.hash = ZeroHash
     \/ /\ n.hash.type = n.type /\ Fits(G, R, n.hash, a)
        /\ \/ ~Wrapping(n.hash)
           \/ w = "any" /\ n.hash = Content(n)

\* A node at place a, with all that is below it in memory.
Good(G, R, n, a, w) ==
  \E S : /\ <<n, a>> \in S
         /\ \A x \in S :
              /\ Own(G, R, x[1], x[2], w)
              /\ x[1].type = "full" =>
                   \A i \in DOMAIN x[1].children :
                     <<x[1].children[i], Step(G, x[2], <<i>>)>> \in S

LEMMA GoodIs ==
  ASSUME NEW G, NEW R, NEW n, NEW a, NEW w
  PROVE  Good(G, R, n, a, w) <=>
           /\ Own(G, R, n, a, w)
           /\ n.type = "full" =>
                \A i \in DOMAIN n.children :
                  Good(G, R, n.children[i], Step(G, a, <<i>>), w)
<1> DEFINE Closed(S) ==
      \A x \in S :
        /\ Own(G, R, x[1], x[2], w)
        /\ x[1].type = "full" =>
             \A i \in DOMAIN x[1].children :
               <<x[1].children[i], Step(G, x[2], <<i>>)>> \in S
<1>1. ASSUME Good(G, R, n, a, w)
      PROVE  /\ Own(G, R, n, a, w)
             /\ n.type = "full" =>
                  \A i \in DOMAIN n.children :
                    Good(G, R, n.children[i], Step(G, a, <<i>>), w)
  <2>1. PICK S : <<n, a>> \in S /\ Closed(S)
    BY <1>1 DEF Good
  <2>2. <<n, a>>[1] = n /\ <<n, a>>[2] = a
    OBVIOUS
  <2>3. Own(G, R, n, a, w)
    BY <2>1, <2>2
  <2>4. ASSUME n.type = "full", NEW i \in DOMAIN n.children
        PROVE  Good(G, R, n.children[i], Step(G, a, <<i>>), w)
    <3>1. <<n.children[i], Step(G, a, <<i>>)>> \in S
      BY <2>1, <2>2, <2>4
    <3>2. QED
      BY <2>1, <3>1 DEF Good
  <2>5. QED
    BY <2>3, <2>4
<1>2. ASSUME Own(G, R, n, a, w),
             n.type = "full" =>
               \A i \in DOMAIN n.children :
                 Good(G, R, n.children[i], Step(G, a, <<i>>), w)
      PROVE  Good(G, R, n, a, w)
  <2> DEFINE I == IF n.type = "full" THEN DOMAIN n.children ELSE {}
             T(i) == CHOOSE S : <<n.children[i], Step(G, a, <<i>>)>> \in S /\ Closed(S)
             U == {<<n, a>>} \cup UNION {T(i) : i \in I}
  <2>1. \A i \in I : <<n.children[i], Step(G, a, <<i>>)>> \in T(i) /\ Closed(T(i))
    <3> TAKE i \in I
    <3>1. \E S : <<n.children[i], Step(G, a, <<i>>)>> \in S /\ Closed(S)
      BY <1>2 DEF Good
    <3>2. QED
      BY <3>1
  <2> HIDE DEF T
  <2>2. ASSUME NEW x \in U
        PROVE  /\ Own(G, R, x[1], x[2], w)
               /\ x[1].type = "full" =>
                    \A i \in DOMAIN x[1].children :
                      <<x[1].children[i], Step(G, x[2], <<i>>)>> \in U
    <3>1. CASE x = <<n, a>>
      BY <1>2, <2>1, <3>1
    <3>2. CASE \E i \in I : x \in T(i)
      <4>1. PICK i \in I : x \in T(i)
        BY <3>2
      <4>2. Closed(T(i)) /\ T(i) \subseteq U
        BY <2>1
      <4> HIDE DEF U
      <4>3. QED
        BY <4>1, <4>2
    <3>3. QED
      BY <2>2, <3>1, <3>2
  <2>3. <<n, a>> \in U
    OBVIOUS
  <2> HIDE DEF U
  <2>4. QED
    BY <2>2, <2>3 DEF Good
<1>3. QED
  BY <1>1, <1>2


LEMMA GoodGrows ==
  ASSUME NEW G, NEW R, NEW T, Extends(R, T), NEW n, NEW a, NEW w, Good(G, R, n, a, w)
  PROVE  Good(G, T, n, a, w)
<1>1. ASSUME NEW m, NEW b, Own(G, R, m, b, w) PROVE Own(G, T, m, b, w)
  <2>1. m.hash.type = m.type /\ Fits(G, R, m.hash, b) => Fits(G, T, m.hash, b)
    BY FitsGrows
  <2>2. CASE m.type = "extension"
    BY <1>1, <2>1, <2>2 DEF Own, Extends
  <2>3. CASE m.type # "extension"
    BY <1>1, <2>1, <2>3 DEF Own
  <2>4. QED
    BY <2>2, <2>3
<1>2. QED
  BY <1>1 DEF Good

\* A node that is kept in memory could have been read back.
LEMMA KeptIsGood ==
  ASSUME NEW G, NEW R, NEW n, NEW a, NEW w, Good(G, R, n, a, w)
  PROVE  Good(G, R, n, a, "any")
<1>1. ASSUME NEW m, NEW b, Own(G, R, m, b, w) PROVE Own(G, R, m, b, "any")
  BY <1>1 DEF Own
<1>2. QED
  BY <1>1 DEF Good

\* Whatever its mode, a node is one of three kinds.
LEMMA OwnKinds ==
  ASSUME NEW G, NEW R, NEW n, NEW a, NEW w, Own(G, R, n, a, w)
  PROVE  n.type \in {"leaf", "extension", "full"} /\ n # Nil /\ a \in G.places
BY DEF Own, Nil

\* Where the child of an extension is.
LEMMA ChildPlace ==
  ASSUME NEW G, Frame(G), NEW R, NEW n, NEW a, NEW w, Own(G, R, n, a, w),
         n.type = "extension"
  PROVE  n.value \in DOMAIN R /\ Path(n) \in Seq(Nibble) /\ Step(G, a, Path(n)) = R[n.value]
<1>1. CASE n.path = NoPath
  <2>1. R[n.value] = a /\ n.value \in DOMAIN R /\ a \in G.places
    BY <1>1, MptAssumption DEF Own
  <2>2. Path(n) = <<>>
    BY <1>1 DEF Path
  <2>3. Step(G, a, <<>>) = a
    BY <2>1 DEF Frame
  <2>4. QED
    BY <2>1, <2>2, <2>3
<1>2. CASE n.path # NoPath
  BY <1>2 DEF Own, Path
<1>3. QED
  BY <1>1, <1>2

\* A node that was just read back: it has no hash, and its children are not
\* there yet.
Fresh(n) ==
  /\ n.hash = ZeroHash
  /\ n.type = "full" =>
       \A i \in DOMAIN n.children :
         n.children[i] = ExtensionNode(NoPath, n.children[i].value)

\* What a content is read back as.
LEMMA ReadBackIs ==
  ASSUME NEW G, NEW R, NEW c, NEW a, Fits(G, R, c, a)
  PROVE  /\ c.type \in {"leaf", "extension", "full"}
         /\ c.type = "leaf" => deserializeNode(c) = LeafNode(c.path, c.value)
         /\ c.type = "extension" => deserializeNode(c) = ExtensionNode(c.path, c.value)
         /\ c.type = "full" =>
              deserializeNode(c) =
                FullNode([i \in DOMAIN c.children |-> ExtensionNode(NoPath, c.children[i])])
         /\ deserializeNode(c).type = c.type
<1>1. c.type \in {"leaf", "extension", "full"}
  BY DEF Fits
<1>2. c.type = "leaf" => deserializeNode(c) = LeafNode(c.path, c.value)
  BY DEF deserializeNode
<1>3. c.type = "extension" => deserializeNode(c) = ExtensionNode(c.path, c.value)
  BY DEF deserializeNode
<1>4. c.type = "full" =>
        deserializeNode(c) =
          FullNode([i \in DOMAIN c.children |-> ExtensionNode(NoPath, c.children[i])])
  BY Zenon DEF deserializeNode
<1>5. deserializeNode(c).type = c.type
  BY <1>1, <1>2, <1>3, <1>4 DEF LeafNode, ExtensionNode, FullNode
<1>6. QED
  BY <1>1, <1>2, <1>3, <1>4, <1>5

\* A child read back.
LEMMA WrappedChild ==
  ASSUME NEW G, NEW R, NEW h \in DOMAIN R, R[h] \in G.places
  PROVE  Good(G, R, ExtensionNode(NoPath, h), R[h], "any")
<1>1. Own(G, R, ExtensionNode(NoPath, h), R[h], "any")
  BY DEF Own, ExtensionNode
<1>2. ExtensionNode(NoPath, h).type # "full"
  BY DEF ExtensionNode
<1>3. QED
  BY <1>1, <1>2, GoodIs

LEMMA ReadBack ==
  ASSUME NEW G, Frame(G), NEW R, NEW c, NEW a, Fits(G, R, c, a)
  PROVE  Good(G, R, deserializeNode(c), a, "any") /\ Fresh(deserializeNode(c))
<1> DEFINE n == deserializeNode(c)
<1>1. CASE c.type = "leaf"
  <2>1. n = LeafNode(c.path, c.value)
    BY <1>1, ReadBackIs
  <2> HIDE DEF n
  <2>2. Own(G, R, n, a, "any") /\ n.type # "full" /\ Fresh(n)
    BY <1>1, <2>1 DEF Own, Fits, LeafNode, Fresh
  <2>3. Good(G, R, n, a, "any")
    BY <2>2, GoodIs
  <2>4. QED
    BY <2>2, <2>3 DEF n
<1>2. CASE c.type = "extension"
  <2>1. n = ExtensionNode(c.path, c.value)
    BY <1>2, ReadBackIs
  <2> HIDE DEF n
  <2>2. Own(G, R, n, a, "any") /\ n.type # "full" /\ Fresh(n)
    BY <1>2, <2>1 DEF Own, Fits, ExtensionNode, Fresh
  <2>3. Good(G, R, n, a, "any")
    BY <2>2, GoodIs
  <2>4. QED
    BY <2>2, <2>3 DEF n
<1>3. CASE c.type = "full"
  <2> DEFINE ch == [i \in DOMAIN c.children |-> ExtensionNode(NoPath, c.children[i])]
  <2>1. n = FullNode(ch)
    BY <1>3, ReadBackIs
  <2>2. /\ DOMAIN ch = DOMAIN c.children /\ ch = [i \in DOMAIN ch |-> ch[i]]
        /\ \A i \in DOMAIN ch : ch[i] = ExtensionNode(NoPath, c.children[i])
    OBVIOUS
  <2> HIDE DEF n, ch
  <2>3. /\ DOMAIN ch \subseteq Nibble /\ Cardinality(DOMAIN ch) > 1
        /\ \A i \in DOMAIN ch : Step(G, a, <<i>>) \in G.places
        /\ a \in G.places
    BY <1>3, <2>2 DEF Fits
  <2>4. n.type = "full" /\ n.children = ch /\ n.hash = ZeroHash
        /\ n = [type |-> "full", children |-> ch, hash |-> ZeroHash]
    BY <2>1 DEF FullNode
  <2>5. Own(G, R, n, a, "any")
    BY <2>2, <2>3, <2>4 DEF Own
  <2>6. ASSUME NEW i \in DOMAIN n.children
        PROVE  /\ Good(G, R, n.children[i], Step(G, a, <<i>>), "any")
               /\ n.children[i] = ExtensionNode(NoPath, n.children[i].value)
    <3>1. c.children[i] \in DOMAIN R /\ R[c.children[i]] = Step(G, a, <<i>>)
          /\ Step(G, a, <<i>>) \in G.places
      BY <1>3, <2>2, <2>4, <2>6 DEF Fits
    <3>2. n.children[i] = ExtensionNode(NoPath, c.children[i])
      BY <2>2, <2>4
    <3>3. n.children[i].value = c.children[i]
      BY <3>2 DEF ExtensionNode
    <3>4. Good(G, R, ExtensionNode(NoPath, c.children[i]), R[c.children[i]], "any")
      BY <3>1, WrappedChild
    <3>5. QED
      BY <3>1, <3>2, <3>3, <3>4
  <2>7. Good(G, R, n, a, "any")
    BY <2>5, <2>6, GoodIs
  <2>8. Fresh(n)
    BY <2>4, <2>6 DEF Fresh
  <2>9. QED
    BY <2>7, <2>8 DEF n
<1>4. QED
  BY <1>1, <1>2, <1>3, ReadBackIs

\* What is loaded from the database.
LEMMA Loaded ==
  ASSUME NEW G, Frame(G), NEW R, NEW database, Sound(G, R, database), NEW h \in DOMAIN R
  PROVE  /\ Good(G, R, LoadNode(database, h), R[h], "any") /\ Fresh(LoadNode(database, h))
         /\ LoadNode(database, h) # Nil /\ LoadNode(database, h).type = h.type
         /\ R[h] \in G.places
<1>1. h \in DOMAIN database /\ Fits(G, R, database[h], R[h]) /\ database[h].type = h.type
      /\ R[h] \in G.places
  BY DEF Sound
<1>2. LoadNode(database, h) = deserializeNode(database[h])
  BY <1>1 DEF LoadNode
<1>3. Good(G, R, deserializeNode(database[h]), R[h], "any") /\ Fresh(deserializeNode(database[h]))
  BY <1>1, ReadBack
<1>4. deserializeNode(database[h]).type = h.type
  <2> DEFINE c == database[h]
  <2>1. Fits(G, R, c, R[h]) /\ c.type = h.type
    BY <1>1
  <2> HIDE DEF c
  <2>2. deserializeNode(c).type = c.type
    BY <2>1, ReadBackIs
  <2>3. QED
    BY <2>1, <2>2 DEF c
<1>5. Own(G, R, deserializeNode(database[h]), R[h], "any")
  BY <1>3, GoodIs
<1>6. QED
  BY <1>1, <1>2, <1>3, <1>4, <1>5, OwnKinds

-----------------------------------------------------------------------------
(* What keys find.  B has the answers that are allowed: for the rest of a    *)
(* key at a place.                                                           *)

\* Where a key ends at n, the answer is allowed.
Tells(G, B, n, a) ==
  \A x : LeafAt(G, x, a) /\ ~Continues(At(n, x)) => <<x, a, get(At(n, x))>> \in B

\* Where the way goes on from n.
Below(G, database, n, a) ==
  IF n.type = "full" THEN {<<n.children[i], Step(G, a, <<i>>)>> : i \in DOMAIN n.children}
  ELSE IF n.type = "extension"
       THEN {<<LoadNode(database, n.value), Step(G, a, Path(n))>>} ELSE {}

\* All keys that come to n at a get an answer that is allowed, if any.
Within(G, B, database, n, a) ==
  \E W : /\ <<n, a>> \in W
         /\ \A x \in W : Tells(G, B, x[1], x[2]) /\ Below(G, database, x[1], x[2]) \subseteq W

LEMMA WithinIs ==
  ASSUME NEW G, NEW B, NEW database, NEW n, NEW a
  PROVE  Within(G, B, database, n, a) <=>
           /\ Tells(G, B, n, a)
           /\ \A y \in Below(G, database, n, a) : Within(G, B, database, y[1], y[2])
<1> DEFINE Closed(W) ==
      \A x \in W : Tells(G, B, x[1], x[2]) /\ Below(G, database, x[1], x[2]) \subseteq W
<1>0. <<n, a>>[1] = n /\ <<n, a>>[2] = a
  OBVIOUS
<1>1. ASSUME NEW y \in Below(G, database, n, a) PROVE y = <<y[1], y[2]>>
  <2>1. \E m, b : y = <<m, b>>
    BY DEF Below
  <2>2. QED
    BY <2>1
<1>2. ASSUME Within(G, B, database, n, a)
      PROVE  /\ Tells(G, B, n, a)
             /\ \A y \in Below(G, database, n, a) : Within(G, B, database, y[1], y[2])
  <2>1. PICK W : <<n, a>> \in W /\ Closed(W)
    BY <1>2 DEF Within
  <2>2. Tells(G, B, n, a) /\ Below(G, database, n, a) \subseteq W
    BY <1>0, <2>1
  <2>3. ASSUME NEW y \in Below(G, database, n, a) PROVE Within(G, B, database, y[1], y[2])
    <3>1. <<y[1], y[2]>> \in W
      BY <1>1, <2>2
    <3>2. QED
      BY <2>1, <3>1 DEF Within
  <2>4. QED
    BY <2>2, <2>3
<1>3. ASSUME Tells(G, B, n, a),
             \A y \in Below(G, database, n, a) : Within(G, B, database, y[1], y[2])
      PROVE  Within(G, B, database, n, a)
  <2> DEFINE I == Below(G, database, n, a)
             T(y) == CHOOSE W : <<y[1], y[2]>> \in W /\ Closed(W)
             U == {<<n, a>>} \cup UNION {T(y) : y \in I}
  <2>1. \A y \in I : y \in T(y) /\ Closed(T(y))
    <3> TAKE y \in I
    <3>1. \E W : <<y[1], y[2]>> \in W /\ Closed(W)
      BY <1>3 DEF Within
    <3>2. <<y[1], y[2]>> \in T(y) /\ Closed(T(y))
      BY <3>1
    <3>3. QED
      BY <1>1, <3>2
  <2> HIDE DEF T
  <2>2. I \subseteq U
    BY <2>1
  <2>3. ASSUME NEW x \in U
        PROVE  Tells(G, B, x[1], x[2]) /\ Below(G, database, x[1], x[2]) \subseteq U
    <3>1. CASE x = <<n, a>>
      BY <1>0, <1>3, <2>2, <3>1
    <3>2. CASE \E y \in I : x \in T(y)
      <4>1. PICK y \in I : x \in T(y)
        BY <3>2
      <4>2. Closed(T(y)) /\ T(y) \subseteq U
        BY <2>1
      <4> HIDE DEF U, I
      <4>3. QED
        BY <4>1, <4>2
    <3>3. QED
      BY <2>3, <3>1, <3>2
  <2>4. <<n, a>> \in U
    OBVIOUS
  <2> HIDE DEF U
  <2>5. QED
    BY <2>3, <2>4 DEF Within
<1>4. QED
  BY <1>2, <1>3

LEMMA WithinMore ==
  ASSUME NEW G, NEW B, NEW C, B \subseteq C, NEW database, NEW n, NEW a,
         Within(G, B, database, n, a)
  PROVE  Within(G, C, database, n, a)
<1>1. \A m, b : Tells(G, B, m, b) => Tells(G, C, m, b)
  BY DEF Tells
<1>2. QED
  BY <1>1 DEF Within


-----------------------------------------------------------------------------
(* Writing.                                                                *)

\* Nodes that were within larger answers than B still are.
Keeps(G, R, B, before, after) ==
  \A m, b, C : B \subseteq C /\ Good(G, R, m, b, "any") /\ Within(G, C, before, m, b)
                 => Within(G, C, after, m, b)

LEMMA KeepsItself == ASSUME NEW G, NEW R, NEW B, NEW database PROVE Keeps(G, R, B, database, database)
BY DEF Keeps

LEMMA KeepsFurther ==
  ASSUME NEW G, NEW R, NEW T, Extends(R, T), NEW B, NEW x, NEW y, NEW z,
         Keeps(G, R, B, x, y), Keeps(G, T, B, y, z)
  PROVE  Keeps(G, R, B, x, z)
<1>1. \A m, b : Good(G, R, m, b, "any") => Good(G, T, m, b, "any")
  BY GoodGrows
<1>2. QED
  BY <1>1 DEF Keeps

LEMMA KeepsLess ==
  ASSUME NEW G, NEW R, NEW B, NEW C, B \subseteq C, NEW x, NEW y, Keeps(G, R, B, x, y)
  PROVE  Keeps(G, R, C, x, y)
BY DEF Keeps

\* What is loaded after a content was written.
LEMMA Written ==
  ASSUME NEW database, NEW h, NEW c, NEW g
  PROVE  LoadNode(Including(database, h, c), g) =
           IF g = h THEN deserializeNode(c) ELSE LoadNode(database, g)
<1> DEFINE D == Including(database, h, c)
<1>1. DOMAIN D = DOMAIN database \cup {h}
  BY DEF Including
<1>2. \A z \in DOMAIN D : D[z] = IF z = h THEN c ELSE database[z]
  BY DEF Including
<1> HIDE DEF D
<1>3. LoadNode(D, g) = IF g = h THEN deserializeNode(c) ELSE LoadNode(database, g)
  BY <1>1, <1>2 DEF LoadNode
<1>4. QED
  BY <1>3 DEF D

\* A content written under a hash of its place, whose keys find what is
\* allowed, changes nothing for those that come by.
LEMMA WriteKeeps ==
  ASSUME NEW G, Frame(G), NEW R, NEW database, Sound(G, R, database),
         NEW B, NEW h, NEW c, NEW a, Fits(G, R, h, a), Fits(G, R, c, a),
         Within(G, B, database, deserializeNode(c), a)
  PROVE  LET D == Including(database, h, c)
         IN  Keeps(G, R, B, database, D) /\ Within(G, B, D, deserializeNode(c), a)
<1> DEFINE D == Including(database, h, c)
           K == deserializeNode(c)
<1>1. /\ LoadNode(D, h) = K
      /\ \A g : g # h => LoadNode(D, g) = LoadNode(database, g)
  BY Written
<1>2. h \in DOMAIN R => R[h] = a
  <2>1. h \in DOMAIN R => Fits(G, R, h, R[h])
    BY DEF Sound
  <2>2. QED
    BY <2>1, FitsOnce
<1>3. Good(G, R, K, a, "any")
  BY ReadBack
<1> HIDE DEF D, K
<1>4. ASSUME NEW m, NEW b, NEW C, B \subseteq C, Good(G, R, m, b, "any"),
             Within(G, C, database, m, b)
      PROVE  Within(G, C, D, m, b)
  <2> DEFINE Closed(W) ==
        \A x \in W : Tells(G, C, x[1], x[2]) /\ Below(G, database, x[1], x[2]) \subseteq W
  <2>1. PICK V : <<m, b>> \in V /\ Closed(V)
    BY <1>4 DEF Within
  <2>2. Within(G, C, database, K, a)
    BY <1>4, WithinMore DEF K
  <2>3. PICK U : <<K, a>> \in U /\ Closed(U)
    BY <2>2 DEF Within
  <2> DEFINE W == {x \in V \cup U : Good(G, R, x[1], x[2], "any")}
  <2>4. <<m, b>> \in W /\ <<K, a>> \in W
    BY <1>3, <1>4, <2>1, <2>3
  <2>5. ASSUME NEW x \in W
        PROVE  Tells(G, C, x[1], x[2]) /\ Below(G, D, x[1], x[2]) \subseteq W
    <3> DEFINE n == x[1]
               p == x[2]
    <3>1. Tells(G, C, n, p) /\ Below(G, database, n, p) \subseteq V \cup U
      BY <2>1, <2>3, <2>5
    <3>2. Good(G, R, n, p, "any") /\ Own(G, R, n, p, "any")
      BY <2>5, GoodIs
    <3> HIDE DEF n, p
    <3>3. CASE n.type = "full"
      <4>1. Below(G, D, n, p) = Below(G, database, n, p)
        BY <3>3 DEF Below
      <4>2. ASSUME NEW y \in Below(G, database, n, p) PROVE Good(G, R, y[1], y[2], "any")
        <5>1. PICK i \in DOMAIN n.children : y = <<n.children[i], Step(G, p, <<i>>)>>
          BY <3>3 DEF Below
        <5>2. Good(G, R, n.children[i], Step(G, p, <<i>>), "any")
          BY <3>2, <3>3, GoodIs
        <5>3. QED
          BY <5>1, <5>2
      <4>3. Below(G, D, n, p) \subseteq W
        BY <3>1, <4>1, <4>2
      <4>4. QED
        BY <3>1, <4>3 DEF n, p
    <3>4. CASE n.type = "extension"
      <4>1. n.value \in DOMAIN R /\ Step(G, p, Path(n)) = R[n.value]
        BY <3>2, <3>4, ChildPlace
      <4>2. Below(G, D, n, p) = {<<LoadNode(D, n.value), R[n.value]>>}
            /\ Below(G, database, n, p) = {<<LoadNode(database, n.value), R[n.value]>>}
        BY <3>4, <4>1 DEF Below
      <4>3. CASE n.value = h
        <5>1. Below(G, D, n, p) = {<<K, a>>}
          BY <1>1, <1>2, <4>1, <4>2, <4>3
        <5>2. QED
          BY <2>4, <3>1, <5>1 DEF n, p
      <4>4. CASE n.value # h
        <5>1. Below(G, D, n, p) = Below(G, database, n, p)
          BY <1>1, <4>2, <4>4
        <5>2. Good(G, R, LoadNode(database, n.value), R[n.value], "any")
          BY <4>1, Loaded
        <5>3. <<LoadNode(database, n.value), R[n.value]>> \in W
          BY <3>1, <4>2, <5>2
        <5>4. Below(G, D, n, p) \subseteq W
          BY <4>2, <5>1, <5>3
        <5>5. QED
          BY <3>1, <5>4 DEF n, p
      <4>5. QED
        BY <4>3, <4>4
    <3>5. CASE n.type \notin {"full", "extension"}
      <4>1. Below(G, D, n, p) = {}
        BY <3>5 DEF Below
      <4>2. QED
        BY <3>1, <4>1 DEF n, p
    <3>6. QED
      BY <3>3, <3>4, <3>5
  <2> HIDE DEF W
  <2>6. QED
    BY <2>4, <2>5 DEF Within
<1>5. Keeps(G, R, B, database, D)
  BY <1>4 DEF Keeps
<1>6. Within(G, B, D, K, a)
  BY <1>3, <1>5 DEF Keeps, K
<1>7. QED
  BY <1>5, <1>6 DEF D, K

\* Then the database is as sound as before.
LEMMA WriteStep ==
  ASSUME NEW G, Frame(G), NEW R, NEW database, Sound(G, R, database),
         NEW B, NEW h, NEW c, NEW a, Fits(G, R, h, a), Fits(G, R, c, a),
         h.type = c.type, Wrapping(h) => c = h,
         Within(G, B, database, deserializeNode(c), a)
  PROVE  LET D == Including(database, h, c)
         IN  \E T : /\ Extends(R, T) /\ Sound(G, T, D) /\ Keeps(G, R, B, database, D)
                    /\ h \in DOMAIN T /\ T[h] = a
                    /\ Within(G, B, D, LoadNode(D, h), a)
<1> DEFINE D == Including(database, h, c)
           T == [g \in DOMAIN R \cup {h} |-> IF g = h THEN a ELSE R[g]]
<1>1. h \in DOMAIN R => R[h] = a
  <2>1. h \in DOMAIN R => Fits(G, R, h, R[h])
    BY DEF Sound
  <2>2. QED
    BY <2>1, FitsOnce
<1>2. /\ DOMAIN D = DOMAIN database \cup {h} /\ D[h] = c
      /\ \A g \in DOMAIN database : g # h => D[g] = database[g]
      /\ LoadNode(D, h) = deserializeNode(c)
  <2>1. LoadNode(D, h) = deserializeNode(c)
    BY Written
  <2>2. DOMAIN D = DOMAIN database \cup {h} /\ D[h] = c
    BY DEF Including
  <2>3. \A g \in DOMAIN database : g # h => D[g] = database[g]
    BY DEF Including
  <2>4. QED
    BY <2>1, <2>2, <2>3
<1>3. Keeps(G, R, B, database, D) /\ Within(G, B, D, deserializeNode(c), a)
  BY WriteKeeps
<1>4. Extends(R, T) /\ h \in DOMAIN T /\ T[h] = a /\ DOMAIN T = DOMAIN R \cup {h}
  BY <1>1 DEF Extends
<1> HIDE DEF D, T
<1>5. Sound(G, T, D)
  <2>1. DOMAIN T = DOMAIN D
    BY <1>2, <1>4 DEF Sound
  <2>2. ASSUME NEW g \in DOMAIN D
        PROVE  /\ T[g] \in G.places
               /\ Fits(G, T, g, T[g]) /\ Fits(G, T, D[g], T[g])
               /\ D[g].type = g.type
               /\ Wrapping(g) => D[g] = g
    <3>1. CASE g = h
      <4>1. Fits(G, T, h, a) /\ Fits(G, T, c, a)
        BY <1>4, FitsGrows
      <4>2. a \in G.places
        BY DEF Fits
      <4>3. QED
        BY <1>2, <1>4, <3>1, <4>1, <4>2
    <3>2. CASE g # h
      <4>1. g \in DOMAIN database /\ g \in DOMAIN R /\ T[g] = R[g] /\ D[g] = database[g]
        BY <1>2, <1>4, <2>2, <3>2 DEF Sound, Extends
      <4>2. /\ R[g] \in G.places
            /\ Fits(G, R, g, R[g]) /\ Fits(G, R, database[g], R[g])
            /\ database[g].type = g.type
            /\ Wrapping(g) => database[g] = g
        BY <4>1 DEF Sound
      <4>3. Fits(G, T, g, R[g]) /\ Fits(G, T, database[g], R[g])
        BY <1>4, <4>2, FitsGrows
      <4>4. QED
        BY <4>1, <4>2, <4>3
    <3>3. QED
      BY <3>1, <3>2
  <2>3. QED
    BY <2>1, <2>2 DEF Sound
<1>6. QED
  BY <1>2, <1>3, <1>4, <1>5 DEF D


-----------------------------------------------------------------------------
(* Nodes that differ in their hashes only.                                 *)

\* m is like n but for hashes, its children apart.
SameKind(n, m) ==
  /\ m.type = n.type
  /\ n.type \in {"leaf", "extension"} => m.path = n.path /\ m.value = n.value
  /\ n.type = "full" => DOMAIN m.children = DOMAIN n.children

LEMMA SameKindItself == ASSUME NEW n PROVE SameKind(n, n)
BY DEF SameKind

LEMMA SameKindFurther ==
  ASSUME NEW n, NEW m, NEW k, SameKind(n, m), SameKind(m, k)
  PROVE  SameKind(n, k)
BY DEF SameKind

\* A key that ends at one of them ends at the other, with the same answer.
LEMMA TellsSame ==
  ASSUME NEW G, NEW B, NEW n, NEW m, NEW a, SameKind(n, m),
         n.type \in {"leaf", "extension", "full"}, Tells(G, B, n, a)
  PROVE  Tells(G, B, m, a)
<1>1. ASSUME NEW x
      PROVE  /\ Continues(At(m, x)) <=> Continues(At(n, x))
             /\ get(At(m, x)) = get(At(n, x))
  <2>1. n.type = "extension" => Path(m) = Path(n)
    BY DEF SameKind, Path
  <2>2. Continues(At(m, x)) <=> Continues(At(n, x))
    BY <2>1 DEF SameKind, Continues, HasChild, At
  <2>3. QED
    BY <2>2 DEF SameKind, get, At
<1>2. QED
  BY <1>1 DEF Tells

LEMMA WithinSame ==
  ASSUME NEW G, NEW B, NEW database, NEW n, NEW m, NEW a, SameKind(n, m),
         n.type \in {"leaf", "extension"}, Within(G, B, database, n, a)
  PROVE  Within(G, B, database, m, a)
<1>1. Tells(G, B, m, a)
  BY WithinIs, TellsSame
<1>2. Below(G, database, m, a) = Below(G, database, n, a)
  BY DEF SameKind, Below, Path
<1>3. QED
  BY <1>1, <1>2, WithinIs

\* A full node is within the answers that are allowed when its children are.
LEMMA WithinFull ==
  ASSUME NEW G, NEW B, NEW database, NEW n, NEW a, n.type = "full"
  PROVE  Within(G, B, database, n, a) <=>
           /\ Tells(G, B, n, a)
           /\ \A i \in DOMAIN n.children :
                Within(G, B, database, n.children[i], Step(G, a, <<i>>))
<1>1. Below(G, database, n, a) = {<<n.children[i], Step(G, a, <<i>>)>> : i \in DOMAIN n.children}
  BY DEF Below
<1>2. ASSUME \A y \in Below(G, database, n, a) : Within(G, B, database, y[1], y[2]),
             NEW i \in DOMAIN n.children
      PROVE  Within(G, B, database, n.children[i], Step(G, a, <<i>>))
  <2> DEFINE y == <<n.children[i], Step(G, a, <<i>>)>>
  <2>1. y \in Below(G, database, n, a) /\ y[1] = n.children[i] /\ y[2] = Step(G, a, <<i>>)
    BY <1>1
  <2> HIDE DEF y
  <2>2. QED
    BY <1>2, <2>1
<1>3. ASSUME \A i \in DOMAIN n.children :
               Within(G, B, database, n.children[i], Step(G, a, <<i>>)),
             NEW y \in Below(G, database, n, a)
      PROVE  Within(G, B, database, y[1], y[2])
  <2>1. PICK i \in DOMAIN n.children : y = <<n.children[i], Step(G, a, <<i>>)>>
    BY <1>1
  <2>2. y[1] = n.children[i] /\ y[2] = Step(G, a, <<i>>)
    BY <2>1
  <2>3. QED
    BY <1>3, <2>2
<1>4. QED
  BY <1>2, <1>3, WithinIs

LEMMA WithinExtension ==
  ASSUME NEW G, NEW B, NEW database, NEW n, NEW a, n.type = "extension"
  PROVE  Within(G, B, database, n, a) <=>
           /\ Tells(G, B, n, a)
           /\ Within(G, B, database, LoadNode(database, n.value), Step(G, a, Path(n)))
<1>1. Below(G, database, n, a) = {<<LoadNode(database, n.value), Step(G, a, Path(n))>>}
  BY DEF Below
<1>2. (\A y \in Below(G, database, n, a) : Within(G, B, database, y[1], y[2]))
        <=> Within(G, B, database, LoadNode(database, n.value), Step(G, a, Path(n)))
  BY <1>1
<1>3. QED
  BY <1>2, WithinIs

\* The node of place a can be loaded by hash h, and all keys that come to it
\* find what is allowed.
Reached(G, R, B, database, h, a) ==
  /\ h \in DOMAIN R /\ R[h] = a /\ a \in G.places
  /\ Within(G, B, database, ExtensionNode(NoPath, h), a)

LEMMA EmptyPrefix == ASSUME NEW x \in Seq(Nibble) PROVE IsPrefix(<<>>, x)
<1>1. Len(x) \in Nat /\ Len(<<>>) = 0
  OBVIOUS
<1>2. SubSeq(<<>>, 1, 0) = <<>> /\ SubSeq(x, 1, 0) = <<>>
  BY SubSeqEmpty
<1>3. QED
  BY <1>1, <1>2 DEF IsPrefix

LEMMA ReachedIs ==
  ASSUME NEW G, Frame(G), NEW R, NEW B, NEW database, NEW h, NEW a
  PROVE  Reached(G, R, B, database, h, a) <=>
           /\ h \in DOMAIN R /\ R[h] = a /\ a \in G.places
           /\ Within(G, B, database, LoadNode(database, h), a)
<1> DEFINE n == ExtensionNode(NoPath, h)
<1>1. n.type = "extension" /\ n.value = h /\ Path(n) = <<>>
  BY DEF ExtensionNode, Path
<1>2. \A x : LeafAt(G, x, a) => IsPrefix(<<>>, x)
  BY EmptyPrefix DEF Frame
<1> HIDE DEF n
<1>3. Tells(G, B, n, a)
  BY <1>1, <1>2 DEF Tells, Continues, At
<1>4. a \in G.places => Step(G, a, <<>>) = a
  BY DEF Frame
<1>5. a \in G.places =>
        (Within(G, B, database, n, a) <=> Within(G, B, database, LoadNode(database, h), a))
  BY <1>1, <1>3, <1>4, WithinExtension
<1>6. QED
  BY <1>5 DEF Reached, n

LEMMA ReachedKept ==
  ASSUME NEW G, NEW R, NEW T, Extends(R, T), NEW B, NEW x, NEW y,
         Keeps(G, R, B, x, y), NEW h, NEW a, Reached(G, R, B, x, h, a)
  PROVE  Reached(G, T, B, y, h, a)
<1>1. h \in DOMAIN R /\ R[h] = a /\ a \in G.places
      /\ Within(G, B, x, ExtensionNode(NoPath, h), a)
  BY DEF Reached
<1>2. Good(G, R, ExtensionNode(NoPath, h), a, "any")
  BY <1>1, WrappedChild
<1>3. Within(G, B, y, ExtensionNode(NoPath, h), a)
  BY <1>1, <1>2 DEF Keeps
<1>4. QED
  BY <1>1, <1>3 DEF Reached, Extends

-----------------------------------------------------------------------------
(* Stores.                                                                 *)

IsStore(s) ==
  /\ s = [db |-> s.db, left |-> s.left, ok |-> s.ok, exceeded |-> s.exceeded]
  /\ s.ok \in BOOLEAN

\* s with flags o and e.
LEMMA StoreWith ==
  ASSUME NEW s, NEW d, NEW l, NEW p, NEW q,
         s = [db |-> d, left |-> l, ok |-> p, exceeded |-> q], NEW o, NEW e
  PROVE  /\ [s EXCEPT !.ok = o] = [db |-> d, left |-> l, ok |-> o, exceeded |-> q]
         /\ [s EXCEPT !.exceeded = e] = [db |-> d, left |-> l, ok |-> p, exceeded |-> e]
OBVIOUS

LEMMA Failing ==
  ASSUME NEW s, IsStore(s)
  PROVE  /\ IsStore(Fail(s)) /\ ~Fail(s).ok /\ Fail(s).db = s.db
         /\ IsStore([Fail(s) EXCEPT !.exceeded = TRUE])
         /\ ~[Fail(s) EXCEPT !.exceeded = TRUE].ok
         /\ [Fail(s) EXCEPT !.exceeded = TRUE].db = s.db
<1>1. PICK d, l, o, e : s = [db |-> d, left |-> l, ok |-> o, exceeded |-> e]
  BY DEF IsStore
<1> DEFINE no == FALSE
           yes == TRUE
           t == [Fail(s) EXCEPT !.exceeded = TRUE]
<1>2. Fail(s) = [s EXCEPT !.ok = no] /\ t = [Fail(s) EXCEPT !.exceeded = yes]
      /\ no \in BOOLEAN /\ ~no
  BY DEF Fail
<1> HIDE DEF no, yes, t
<1>3. Fail(s) = [db |-> d, left |-> l, ok |-> no, exceeded |-> e] /\ s.db = d
  BY <1>1, <1>2, StoreWith
<1>4. t = [db |-> d, left |-> l, ok |-> no, exceeded |-> yes]
  <2> DEFINE u == Fail(s)
  <2>1. u = [db |-> d, left |-> l, ok |-> no, exceeded |-> e] /\ t = [u EXCEPT !.exceeded = yes]
    BY <1>2, <1>3
  <2> HIDE DEF u
  <2>2. QED
    BY <2>1
<1>5. QED
  BY <1>2, <1>3, <1>4 DEF IsStore, t

\* A write fails, or is done.
LEMMA WriteIs ==
  ASSUME NEW s, IsStore(s), s.ok, NEW h, NEW c
  PROVE  /\ IsStore(Write(s, h, c))
         /\ \/ ~Write(s, h, c).ok /\ Write(s, h, c).db = s.db
            \/ Write(s, h, c).ok /\ Write(s, h, c).db = Including(s.db, h, c)
<1>1. CASE s.left = 0
  <2>1. Write(s, h, c) = Fail(s)
    BY <1>1 DEF Write
  <2>2. QED
    BY <2>1, Failing
<1>2. CASE s.left # 0
  <2>1. Write(s, h, c) = [s EXCEPT !.db = Including(@, h, c), !.left = @ - 1]
    BY <1>2 DEF Write
  <2>2. PICK d, l, o, e : s = [db |-> d, left |-> l, ok |-> o, exceeded |-> e]
    BY DEF IsStore
  <2>3. s.db = d /\ s.left = l /\ s.ok = o /\ o \in BOOLEAN
    BY <2>2 DEF IsStore
  <2> DEFINE i == Including(d, h, c)
  <2>4. Write(s, h, c) = [s EXCEPT !.db = i, !.left = l - 1]
    BY <2>1, <2>3
  <2> HIDE DEF i
  <2>5. Write(s, h, c) = [db |-> i, left |-> l - 1, ok |-> o, exceeded |-> e]
    BY <2>2, <2>4
  <2>6. IsStore(Write(s, h, c)) /\ Write(s, h, c).ok /\ Write(s, h, c).db = i
    BY <2>3, <2>5 DEF IsStore
  <2>7. QED
    BY <2>3, <2>6 DEF i
<1>3. QED
  BY <1>1, <1>2

\* A call of saveNode for n at a that led from store s to result r.
Outcome(G, R, T, B, n, a, w, s, r) ==
  /\ Extends(R, T) /\ Sound(G, T, r.store.db) /\ IsStore(r.store)
  /\ Keeps(G, R, B, s.db, r.store.db)
  /\ Good(G, T, r.node, a, w) /\ Within(G, B, r.store.db, r.node, a)
  /\ SameKind(n, r.node)
  /\ n.hash # ZeroHash => r.node.hash = n.hash
  /\ r.store.ok => s.ok /\ Reached(G, T, B, r.store.db, r.node.hash, a)

\* What a call of saveNode is given.
Given(G, R, B, n, a, w, s) ==
  /\ Sound(G, R, s.db) /\ IsStore(s)
  /\ Good(G, R, n, a, w) /\ Within(G, B, s.db, n, a)

\* The calls of f do what saveNode should.
Saver(G, f) ==
  \A x \in DOMAIN f : \A R, B, a, w :
    Given(G, R, B, x.node, a, w, x.store)
      => \E T : Outcome(G, R, T, B, x.node, a, w, x.store, f[x])

\* A call that failed before it changed anything.
LEMMA Undone ==
  ASSUME NEW G, NEW R, NEW B, NEW n, NEW a, NEW w, NEW s, Given(G, R, B, n, a, w, s),
         NEW r, r.node = n, IsStore(r.store), r.store.db = s.db, ~r.store.ok
  PROVE  \E T : Outcome(G, R, T, B, n, a, w, s, r)
<1>1. Outcome(G, R, R, B, n, a, w, s, r)
  BY ExtendsItself, KeepsItself, SameKindItself DEF Outcome, Given
<1>2. QED
  BY <1>1

LEMMA CallSaves ==
  ASSUME NEW G, NEW R, NEW B, NEW n, NEW a, NEW w, NEW s, Given(G, R, B, n, a, w, s),
         NEW f, Saver(G, f)
  PROVE  \E T : Outcome(G, R, T, B, n, a, w, s, Call(f, Result(n, s)))
<1> DEFINE x == Result(n, s)
<1>1. x.node = n /\ x.store = s
  BY DEF Result
<1> HIDE DEF x
<1>2. CASE x \in DOMAIN f
  <2>1. Call(f, x) = f[x]
    BY <1>2 DEF Call
  <2>2. QED
    BY <1>1, <1>2, <2>1 DEF Saver, x
<1>3. CASE x \notin DOMAIN f
  <2>1. Call(f, x) = Result(n, [Fail(s) EXCEPT !.exceeded = TRUE])
    BY <1>1, <1>3 DEF Call
  <2>2. IsStore(s)
    BY DEF Given
  <2> DEFINE t == [Fail(s) EXCEPT !.exceeded = TRUE]
  <2>3. IsStore(t) /\ t.db = s.db /\ ~t.ok
    BY <2>2, Failing
  <2> HIDE DEF t
  <2>4. Call(f, x).node = n /\ Call(f, x).store = t
    BY <2>1 DEF Result, t
  <2>5. QED
    BY <2>3, <2>4, Undone DEF x
<1>4. QED
  BY <1>2, <1>3


-----------------------------------------------------------------------------
(* Saving.                                                                 *)

\* A hash in the database is one of a node.
LEMMA HashIsKnown ==
  ASSUME NEW G, NEW R, NEW database, Sound(G, R, database), NEW h \in DOMAIN R
  PROVE  h # ZeroHash /\ Fits(G, R, h, R[h]) /\ R[h] \in G.places
<1>1. Fits(G, R, h, R[h]) /\ R[h] \in G.places
  BY DEF Sound
<1>2. h.type \in {"leaf", "extension", "full"}
  BY <1>1 DEF Fits
<1>3. QED
  BY <1>1, <1>2 DEF ZeroHash

\* The content of a node whose children were saved, and what it is read back
\* as.
LEMMA ContentIs ==
  ASSUME NEW G, Frame(G), NEW R, NEW B, NEW n, NEW a, NEW w, NEW s, Given(G, R, B, n, a, w, s),
         n.type = "full" =>
           \A i \in DOMAIN n.children :
             Reached(G, R, B, s.db, n.children[i].hash, Step(G, a, <<i>>))
  PROVE  /\ Fits(G, R, Content(n), a) /\ Content(n).type = n.type
         /\ Within(G, B, s.db, deserializeNode(Content(n)), a)
         /\ w # "any" => ~Wrapping(Content(n))
<1>1. Good(G, R, n, a, w) /\ Own(G, R, n, a, w) /\ Within(G, B, s.db, n, a)
  BY GoodIs DEF Given
<1>2. a \in G.places /\ n.type \in {"leaf", "extension", "full"}
  BY <1>1, OwnKinds
<1>3. CASE n.type = "leaf" \/ n.type = "extension"
  <2>1. Content(n) = [type |-> n.type, path |-> n.path, value |-> n.value]
    BY <1>3 DEF Content
  <2> DEFINE c == [type |-> n.type, path |-> n.path, value |-> n.value]
  <2>2. c.type = n.type /\ c.path = n.path /\ c.value = n.value
    OBVIOUS
  <2> HIDE DEF c
  <2>3. Content(n) = c /\ c = [type |-> c.type, path |-> c.path, value |-> c.value]
    BY <2>1, <2>2 DEF c
  <2>4. Fits(G, R, c, a)
    <3>1. CASE n.type = "leaf"
      BY <1>1, <2>2, <2>3, <3>1 DEF Own, Fits
    <3>2. CASE n.type = "extension"
      BY <1>1, <2>2, <2>3, <3>2 DEF Own, Fits
    <3>3. QED
      BY <1>3, <3>1, <3>2
  <2>5. SameKind(n, deserializeNode(c))
    <3>1. deserializeNode(c) = IF n.type = "leaf" THEN LeafNode(n.path, n.value)
                               ELSE ExtensionNode(n.path, n.value)
      BY <1>3, <2>2, <2>4, ReadBackIs
    <3>2. QED
      BY <1>3, <3>1 DEF SameKind, LeafNode, ExtensionNode
  <2>6. Within(G, B, s.db, deserializeNode(c), a)
    BY <1>1, <1>3, <2>5, WithinSame
  <2>7. w # "any" => ~Wrapping(c)
    BY <1>1, <1>3, <2>2, MptAssumption DEF Own, Wrapping, Wraps
  <2>8. QED
    BY <2>2, <2>3, <2>4, <2>6, <2>7
<1>4. CASE n.type = "full"
  <2> DEFINE ch == [i \in DOMAIN n.children |-> n.children[i].hash]
             c == [type |-> "full", children |-> ch]
  <2>1. Content(n) = c
    BY <1>4 DEF Content
  <2>2. /\ DOMAIN ch = DOMAIN n.children /\ ch = [i \in DOMAIN ch |-> ch[i]]
        /\ \A i \in DOMAIN ch : ch[i] = n.children[i].hash
    OBVIOUS
  <2> HIDE DEF ch
  <2>3. c.type = "full" /\ c.children = ch /\ c = [type |-> "full", children |-> c.children]
    OBVIOUS
  <2> HIDE DEF c
  <2>4. /\ DOMAIN n.children \subseteq Nibble /\ Cardinality(DOMAIN n.children) > 1
        /\ \A i \in DOMAIN n.children : Step(G, a, <<i>>) \in G.places
    BY <1>1, <1>4 DEF Own
  <2>5. \A i \in DOMAIN ch :
          /\ ch[i] \in DOMAIN R /\ R[ch[i]] = Step(G, a, <<i>>)
          /\ Within(G, B, s.db, ExtensionNode(NoPath, ch[i]), Step(G, a, <<i>>))
    BY <1>4, <2>2 DEF Reached
  <2>6. Fits(G, R, c, a)
    BY <1>2, <2>2, <2>3, <2>4, <2>5 DEF Fits
  <2> DEFINE e == [i \in DOMAIN ch |-> ExtensionNode(NoPath, ch[i])]
             m == FullNode(e)
  <2>7. deserializeNode(c) = m
    BY <2>3, <2>6, ReadBackIs
  <2>8. DOMAIN e = DOMAIN n.children /\ \A i \in DOMAIN e : e[i] = ExtensionNode(NoPath, ch[i])
    BY <2>2
  <2> HIDE DEF e
  <2>9. m.type = "full" /\ m.children = e
    BY DEF FullNode
  <2> HIDE DEF m
  <2>10. SameKind(n, m)
    BY <1>4, <2>8, <2>9 DEF SameKind
  <2>11. Tells(G, B, m, a)
    BY <1>1, <1>4, <2>10, WithinIs, TellsSame
  <2>12. Within(G, B, s.db, m, a)
    BY <2>2, <2>5, <2>8, <2>9, <2>11, WithinFull
  <2>13. ASSUME w # "any" PROVE ~Wrapping(c)
    <3>1. ASSUME NEW i \in DOMAIN ch PROVE ~Wraps(ch[i])
      <4>1. Good(G, R, n.children[i], Step(G, a, <<i>>), w)
        BY <1>1, <1>4, <2>2, GoodIs
      <4>2. Own(G, R, n.children[i], Step(G, a, <<i>>), w)
        BY <4>1, GoodIs
      <4>3. n.children[i].hash # ZeroHash
        BY <2>2, <2>5, HashIsKnown DEF Given
      <4>4. ~Wrapping(n.children[i].hash)
        BY <2>13, <4>2, <4>3 DEF Own
      <4>5. QED
        BY <2>2, <4>4 DEF Wrapping
    <3>2. c.type # "extension"
      BY <2>3
    <3>3. QED
      BY <2>3, <3>1, <3>2 DEF Wrapping, Wraps
  <2>14. QED
    BY <1>4, <2>1, <2>3, <2>6, <2>7, <2>12, <2>13
<1>5. QED
  BY <1>2, <1>3, <1>4

\* A node whose children were saved: its hash is computed, unless it has one.
LEMMA GetHashIs ==
  ASSUME NEW G, Frame(G), NEW R, NEW B, NEW n, NEW a, NEW w, NEW s, Given(G, R, B, n, a, w, s),
         n.type = "full" =>
           \A i \in DOMAIN n.children :
             Reached(G, R, B, s.db, n.children[i].hash, Step(G, a, <<i>>)),
         NEW m, m = GetHash(n)
  PROVE  /\ Given(G, R, B, m, a, w, s) /\ SameKind(n, m) /\ Content(m) = Content(n)
         /\ m.hash = (IF n.hash # ZeroHash THEN n.hash ELSE Content(n))
         /\ Fits(G, R, m.hash, a) /\ m.hash.type = n.type
         /\ Wrapping(m.hash) => Content(m) = m.hash
         /\ n.type = "full" => m.children = n.children
<1>1. Good(G, R, n, a, w) /\ Own(G, R, n, a, w) /\ Within(G, B, s.db, n, a)
      /\ Sound(G, R, s.db)
  BY GoodIs DEF Given
<1>2. a \in G.places /\ n.type \in {"leaf", "extension", "full"}
  BY <1>1, OwnKinds
<1>3. Serialize(n) = n
  <2>1. CASE n.type # "full"
    BY <2>1 DEF Serialize
  <2>2. CASE n.type = "full"
    <3>1. PICK ch, h : n = [type |-> "full", children |-> ch, hash |-> h]
      BY <1>1, <2>2 DEF Own
    <3>2. n.children = ch /\ ch = [i \in DOMAIN ch |-> ch[i]]
      BY <1>1, <2>2, <3>1 DEF Own
    <3>3. \A i \in DOMAIN ch : ch[i].hash # ZeroHash
      BY <1>1, <2>2, <3>2, HashIsKnown DEF Reached
    <3>4. \A i \in DOMAIN ch : Hashed(ch[i]) = ch[i]
      BY <3>3 DEF Hashed
    <3>5. [i \in DOMAIN ch |-> Hashed(ch[i])] = ch
      BY <3>2, <3>4
    <3>6. Serialize(n) = [n EXCEPT !.children = [i \in DOMAIN n.children |-> Hashed(n.children[i])]]
      BY <2>2 DEF Serialize
    <3>7. Serialize(n) = [n EXCEPT !.children = ch]
      BY <3>2, <3>5, <3>6
    <3>8. QED
      BY <3>1, <3>7
  <2>3. QED
    BY <2>1, <2>2
<1> DEFINE h == IF n.hash # ZeroHash THEN n.hash ELSE Content(n)
<1>4. m = [n EXCEPT !.hash = h]
  <2>1. m = IF n.hash # ZeroHash THEN n ELSE [n EXCEPT !.hash = Content(n)]
    BY <1>3 DEF GetHash, Hashed
  <2>2. [n EXCEPT !.hash = n.hash] = n
    BY <1>1 DEF Own
  <2>3. QED
    BY <2>1, <2>2
<1> HIDE DEF h
<1>5. /\ m.type = n.type /\ m.hash = h
      /\ n.type \in {"leaf", "extension"} =>
           /\ m.path = n.path /\ m.value = n.value
           /\ m = [type |-> n.type, path |-> n.path, value |-> n.value, hash |-> h]
      /\ n.type = "full" =>
           /\ m.children = n.children
           /\ m = [type |-> n.type, children |-> n.children, hash |-> h]
  BY <1>1, <1>4 DEF Own
<1>6. SameKind(n, m)
  BY <1>5 DEF SameKind
<1>7. Content(m) = Content(n)
  BY <1>2, <1>5 DEF Content
<1>8. /\ Fits(G, R, Content(n), a) /\ Content(n).type = n.type
      /\ w # "any" => ~Wrapping(Content(n))
  BY ContentIs
<1>9. /\ Fits(G, R, h, a) /\ h.type = n.type
      /\ ~Wrapping(h) \/ (w = "any" /\ h = Content(n))
  BY <1>1, <1>8 DEF Own, h
<1>10. Own(G, R, m, a, w)
  <2>1. CASE n.type = "leaf"
    BY <1>1, <1>5, <1>7, <1>9, <2>1 DEF Own
  <2>2. CASE n.type = "extension"
    BY <1>1, <1>5, <1>7, <1>9, <2>2 DEF Own
  <2>3. CASE n.type = "full"
    BY <1>1, <1>5, <1>7, <1>9, <2>3 DEF Own
  <2>4. QED
    BY <1>2, <2>1, <2>2, <2>3
<1>11. Good(G, R, m, a, w)
  BY <1>1, <1>5, <1>10, GoodIs
<1>12. Within(G, B, s.db, m, a)
  <2>1. CASE n.type = "full"
    <3>1. Tells(G, B, m, a)
      BY <1>1, <1>2, <1>6, WithinIs, TellsSame
    <3>2. QED
      BY <1>1, <1>5, <2>1, <3>1, WithinFull
  <2>2. CASE n.type # "full"
    BY <1>1, <1>2, <1>6, <2>2, WithinSame
  <2>3. QED
    BY <2>1, <2>2
<1>13. QED
  BY <1>5, <1>6, <1>7, <1>9, <1>11, <1>12 DEF Given, h


\* The end of saveNode: the node's hash, and the write.
LEMMA SaveWrite ==
  ASSUME NEW G, Frame(G), NEW R, NEW B, NEW n, NEW a, NEW w, NEW s, Given(G, R, B, n, a, w, s),
         s.ok,
         n.type = "full" =>
           \A i \in DOMAIN n.children :
             Reached(G, R, B, s.db, n.children[i].hash, Step(G, a, <<i>>)),
         NEW m, m = GetHash(n),
         NEW r, r.node = m, r.store = Write(s, m.hash, Content(m))
  PROVE  \E T : Outcome(G, R, T, B, n, a, w, s, r)
<1> DEFINE h == m.hash
           c == Content(m)
<1>1. /\ Given(G, R, B, m, a, w, s) /\ SameKind(n, m) /\ c = Content(n)
      /\ h = (IF n.hash # ZeroHash THEN n.hash ELSE Content(n))
      /\ Fits(G, R, h, a) /\ h.type = n.type
      /\ Wrapping(h) => c = h
  BY GetHashIs
<1>2. /\ Fits(G, R, c, a) /\ c.type = n.type
      /\ Within(G, B, s.db, deserializeNode(c), a)
  BY <1>1, ContentIs
<1>3. n.hash # ZeroHash => m.hash = n.hash
  BY <1>1
<1>4. /\ Sound(G, R, s.db) /\ IsStore(s)
      /\ Good(G, R, m, a, w) /\ Within(G, B, s.db, m, a)
  BY <1>1 DEF Given
<1> HIDE DEF c
<1>5. /\ IsStore(r.store)
      /\ \/ ~r.store.ok /\ r.store.db = s.db
         \/ r.store.ok /\ r.store.db = Including(s.db, h, c)
  BY <1>4, WriteIs DEF c
<1>6. CASE ~r.store.ok /\ r.store.db = s.db
  <2>1. Outcome(G, R, R, B, n, a, w, s, r)
    BY <1>1, <1>3, <1>4, <1>5, <1>6, ExtendsItself, KeepsItself DEF Outcome
  <2>2. QED
    BY <2>1
<1>7. CASE r.store.ok /\ r.store.db = Including(s.db, h, c)
  <2> DEFINE D == Including(s.db, h, c)
  <2>1. PICK T : /\ Extends(R, T) /\ Sound(G, T, D) /\ Keeps(G, R, B, s.db, D)
                 /\ h \in DOMAIN T /\ T[h] = a
                 /\ Within(G, B, D, LoadNode(D, h), a)
    <3>1. /\ Sound(G, R, s.db) /\ Fits(G, R, h, a) /\ Fits(G, R, c, a) /\ h.type = c.type
          /\ Wrapping(h) => c = h
          /\ Within(G, B, s.db, deserializeNode(c), a)
      BY <1>1, <1>2, <1>4
    <3> HIDE DEF h
    <3>2. QED
      BY <3>1, WriteStep
  <2> HIDE DEF D
  <2>2. Good(G, T, m, a, w)
    BY <1>4, <2>1, GoodGrows
  <2>3. Good(G, R, m, a, "any")
    BY <1>4, KeptIsGood
  <2>4. Within(G, B, D, m, a)
    BY <1>4, <2>1, <2>3 DEF Keeps
  <2>5. a \in G.places
    BY <1>1 DEF Fits
  <2>6. Reached(G, T, B, D, h, a)
    BY <2>1, <2>5, ReachedIs
  <2>7. Outcome(G, R, T, B, n, a, w, s, r)
    BY <1>1, <1>3, <1>5, <1>7, <2>1, <2>2, <2>4, <2>6 DEF Outcome, D
  <2>8. QED
    BY <2>7
<1>8. QED
  BY <1>5, <1>6, <1>7

\* The children of a full node before i were saved.
SavedUpTo(G, R, T, B, n, a, w, s, r, i) ==
  /\ Extends(R, T) /\ Keeps(G, R, B, s.db, r.store.db)
  /\ Given(G, T, B, r.node, a, w, r.store)
  /\ SameKind(n, r.node) /\ r.node.hash = n.hash
  /\ r.store.ok =>
       /\ s.ok
       /\ \A j \in DOMAIN n.children :
            j < i => Reached(G, T, B, r.store.db, r.node.children[j].hash, Step(G, a, <<j>>))

LEMMA NextChildSaved ==
  ASSUME NEW G, Frame(G), NEW f, Saver(G, f), NEW R, NEW T, NEW B, NEW n, n.type = "full",
         NEW a, NEW w, NEW s, NEW r, NEW i \in 0..15, DOMAIN n.children \subseteq Nibble,
         SavedUpTo(G, R, T, B, n, a, w, s, r, i)
  PROVE  \E U : SavedUpTo(G, R, U, B, n, a, w, s, NextChild(f, n, r, i), i + 1)
<1>1. /\ Extends(R, T) /\ Keeps(G, R, B, s.db, r.store.db)
      /\ Given(G, T, B, r.node, a, w, r.store)
      /\ SameKind(n, r.node) /\ r.node.hash = n.hash
  BY DEF SavedUpTo
<1>2. CASE i \notin DOMAIN n.children \/ ~r.store.ok
  <2>1. NextChild(f, n, r, i) = r
    BY <1>2 DEF NextChild
  <2>2. \A j \in DOMAIN n.children : j < i + 1 => j < i \/ j = i
    BY DEF Nibble
  <2>3. SavedUpTo(G, R, T, B, n, a, w, s, r, i + 1)
    BY <1>2, <2>2 DEF SavedUpTo
  <2>4. QED
    BY <2>1, <2>3
<1>3. CASE i \in DOMAIN n.children /\ r.store.ok
  <2> DEFINE k == r.node.children[i]
             p == Step(G, a, <<i>>)
             c == Call(f, Result(k, r.store))
             m == [r.node EXCEPT !.children[i] = c.node]
             q == NextChild(f, n, r, i)
  <2>1. q = Result(m, c.store)
    BY <1>3 DEF NextChild
  <2>2. r.node.type = "full" /\ DOMAIN r.node.children = DOMAIN n.children
    BY <1>1 DEF SameKind
  <2>3. Own(G, T, r.node, a, w) /\ Good(G, T, k, p, w) /\ Within(G, B, r.store.db, k, p)
        /\ Tells(G, B, r.node, a) /\ Sound(G, T, r.store.db) /\ IsStore(r.store)
    BY <1>1, <1>3, <2>2, GoodIs, WithinFull DEF Given
  <2>4. Given(G, T, B, k, p, w, r.store)
    BY <2>3 DEF Given
  <2>5. PICK U : Outcome(G, T, U, B, k, p, w, r.store, c)
    BY <2>4, CallSaves
  <2> HIDE DEF c, k
  <2>6. /\ Extends(T, U) /\ Sound(G, U, c.store.db) /\ IsStore(c.store)
        /\ Keeps(G, T, B, r.store.db, c.store.db)
        /\ Good(G, U, c.node, p, w) /\ Within(G, B, c.store.db, c.node, p)
        /\ k.hash # ZeroHash => c.node.hash = k.hash
        /\ c.store.ok => Reached(G, U, B, c.store.db, c.node.hash, p)
    BY <2>5 DEF Outcome
  <2>7. PICK ch, h : r.node = [type |-> "full", children |-> ch, hash |-> h]
    BY <2>2, <2>3 DEF Own
  <2>8. r.node.children = ch /\ r.node.hash = h /\ ch = [j \in DOMAIN ch |-> ch[j]]
        /\ DOMAIN ch = DOMAIN n.children /\ ch[i] = k
    BY <2>2, <2>3, <2>7 DEF Own, k
  <2> DEFINE d == [ch EXCEPT ![i] = c.node]
  <2>9. /\ DOMAIN d = DOMAIN ch /\ d = [j \in DOMAIN d |-> d[j]]
        /\ d[i] = c.node /\ \A j \in DOMAIN ch : j # i => d[j] = ch[j]
    BY <1>3, <2>8
  <2>10. m = [type |-> "full", children |-> d, hash |-> h]
    BY <2>7
  <2> HIDE DEF m, d
  <2>11. m.type = "full" /\ m.children = d /\ m.hash = h
    BY <2>10
  <2>12. SameKind(r.node, m)
    BY <2>2, <2>8, <2>9, <2>11 DEF SameKind
  <2>13. Content(r.node) = [type |-> "full", children |-> [j \in DOMAIN ch |-> ch[j].hash]]
         /\ Content(m) = [type |-> "full", children |-> [j \in DOMAIN d |-> d[j].hash]]
    BY <2>2, <2>8, <2>11 DEF Content
  <2>14. ASSUME h = Content(r.node), Fits(G, T, h, a) PROVE h = Content(m)
    <3>1. h.type = "full" /\ h.children = [j \in DOMAIN ch |-> ch[j].hash]
      BY <2>13, <2>14
    <3>2. h.children[i] \in DOMAIN T /\ h.children[i] = k.hash
      <4>1. i \in DOMAIN h.children /\ h.children[i] = k.hash
        BY <1>3, <2>8, <3>1
      <4>2. \A j \in DOMAIN h.children : h.children[j] \in DOMAIN T
        BY <2>14, <3>1 DEF Fits
      <4>3. QED
        BY <4>1, <4>2
    <3>3. k.hash # ZeroHash
      BY <2>3, <3>2, HashIsKnown
    <3>4. \A j \in DOMAIN ch : d[j].hash = ch[j].hash
      BY <2>6, <2>8, <2>9, <3>3
    <3>5. [j \in DOMAIN d |-> d[j].hash] = [j \in DOMAIN ch |-> ch[j].hash]
      BY <2>9, <3>4
    <3>6. QED
      BY <2>13, <2>14, <3>5
  <2>15. Own(G, U, m, a, w)
    <3>1. /\ a \in G.places /\ DOMAIN ch \subseteq Nibble /\ Cardinality(DOMAIN ch) > 1
          /\ \A j \in DOMAIN ch : Step(G, a, <<j>>) \in G.places
      BY <2>2, <2>3, <2>8 DEF Own
    <3>2. \/ h = ZeroHash
          \/ /\ h.type = "full" /\ Fits(G, T, h, a)
             /\ ~Wrapping(h) \/ (w = "any" /\ h = Content(r.node))
      BY <2>2, <2>3, <2>8 DEF Own
    <3>3. Fits(G, T, h, a) => Fits(G, U, h, a)
      BY <2>6, FitsGrows
    <3>4. \/ h = ZeroHash
          \/ /\ h.type = "full" /\ Fits(G, U, h, a)
             /\ ~Wrapping(h) \/ (w = "any" /\ h = Content(m))
      BY <2>14, <3>2, <3>3
    <3>5. QED
      BY <2>9, <2>10, <2>11, <3>1, <3>4 DEF Own
  <2>16. ASSUME NEW j \in DOMAIN d
         PROVE  /\ Good(G, U, d[j], Step(G, a, <<j>>), w)
                /\ Within(G, B, c.store.db, d[j], Step(G, a, <<j>>))
    <3>1. CASE j = i
      BY <2>6, <2>9, <3>1
    <3>2. CASE j # i
      <4>1. Good(G, T, ch[j], Step(G, a, <<j>>), w)
            /\ Within(G, B, r.store.db, ch[j], Step(G, a, <<j>>))
        BY <1>1, <2>2, <2>8, <2>9, GoodIs, WithinFull DEF Given
      <4>2. Good(G, U, ch[j], Step(G, a, <<j>>), w)
        BY <2>6, <4>1, GoodGrows
      <4>3. Good(G, T, ch[j], Step(G, a, <<j>>), "any")
        BY <4>1, KeptIsGood
      <4>4. Within(G, B, c.store.db, ch[j], Step(G, a, <<j>>))
        BY <2>6, <4>1, <4>3 DEF Keeps
      <4>5. QED
        BY <2>9, <3>2, <4>2, <4>4
    <3>3. QED
      BY <3>1, <3>2
  <2>17. Good(G, U, m, a, w)
    BY <2>11, <2>15, <2>16, GoodIs
  <2>18. Tells(G, B, m, a)
    BY <2>2, <2>3, <2>12, TellsSame
  <2>19. Within(G, B, c.store.db, m, a)
    BY <2>11, <2>16, <2>18, WithinFull
  <2>20. Given(G, U, B, m, a, w, c.store)
    BY <2>6, <2>17, <2>19 DEF Given
  <2>21. Extends(R, U)
    BY <1>1, <2>6, ExtendsFurther
  <2>22. Keeps(G, R, B, s.db, c.store.db)
    BY <1>1, <2>6, KeepsFurther
  <2>23. SameKind(n, m)
    BY <1>1, <2>12, SameKindFurther
  <2>24. ASSUME c.store.ok, NEW j \in DOMAIN n.children, j < i + 1
         PROVE  Reached(G, U, B, c.store.db, d[j].hash, Step(G, a, <<j>>))
    <3>1. CASE j = i
      BY <2>6, <2>8, <2>9, <2>24, <3>1
    <3>2. CASE j # i
      <4>1. j < i
        BY <2>24, <3>2 DEF Nibble
      <4>2. Reached(G, T, B, r.store.db, ch[j].hash, Step(G, a, <<j>>))
        BY <1>3, <2>8, <4>1 DEF SavedUpTo
      <4>3. Reached(G, U, B, c.store.db, ch[j].hash, Step(G, a, <<j>>))
        BY <2>6, <4>2, ReachedKept
      <4>4. QED
        BY <2>8, <2>9, <3>2, <4>3
    <3>3. QED
      BY <3>1, <3>2
  <2>25. q.node = m /\ q.store = c.store
    BY <2>1 DEF Result
  <2>26. s.ok
    BY <1>3 DEF SavedUpTo
  <2> HIDE DEF q
  <2>27. SavedUpTo(G, R, U, B, n, a, w, s, q, i + 1)
    BY <1>1, <2>8, <2>11, <2>20, <2>21, <2>22, <2>23, <2>24, <2>25, <2>26 DEF SavedUpTo
  <2>28. QED
    BY <2>27 DEF q
<1>4. QED
  BY <1>2, <1>3

LEMMA ChildrenSaved ==
  ASSUME NEW G, Frame(G), NEW f, Saver(G, f), NEW R, NEW B, NEW n, n.type = "full",
         NEW a, NEW w, NEW s, s.ok, Given(G, R, B, n, a, w, s)
  PROVE  \E T : SavedUpTo(G, R, T, B, n, a, w, s, SaveChildren(f, n, s), 16)
<1>1. PICK g : /\ SaveChildren(f, n, s) = g[16]
               /\ g[0] = Result(n, s)
               /\ \A i \in 1..16 : g[i] = NextChild(f, n, g[i - 1], i - 1)
  BY SaveChildrenSteps
<1>2. Own(G, R, n, a, w)
  BY GoodIs DEF Given
<1>3. DOMAIN n.children \subseteq Nibble
  BY <1>2 DEF Own
<1> DEFINE Done(i) == \E T : SavedUpTo(G, R, T, B, n, a, w, s, g[i], i)
           C == {i \in Nat : i <= 16 /\ ~Done(i)}
<1>4. SUFFICES ASSUME C # {} PROVE FALSE
  BY <1>1
<1>5. PICK i \in C : \A m \in C : i <= m
  <2>1. C \subseteq Nat
    OBVIOUS
  <2> HIDE DEF C
  <2>2. QED
    BY <1>4, <2>1, LeastNatural
<1>6. i \in Nat /\ i <= 16 /\ ~Done(i)
  BY <1>5
<1>7. CASE i = 0
  <2>1. g[0].node = n /\ g[0].store = s
    BY <1>1 DEF Result
  <2>2. \A j \in DOMAIN n.children : ~(j < 0)
    BY <1>3 DEF Nibble
  <2>3. SavedUpTo(G, R, R, B, n, a, w, s, g[0], 0)
    BY <2>1, <2>2, ExtendsItself, KeepsItself, SameKindItself DEF SavedUpTo
  <2>4. QED
    BY <1>6, <1>7, <2>3
<1>8. CASE i # 0
  <2>1. i - 1 \in Nat /\ i - 1 <= 16 /\ ~(i <= i - 1) /\ i - 1 \in 0..15 /\ i \in 1..16
        /\ (i - 1) + 1 = i
    BY <1>6, <1>8
  <2>2. Done(i - 1)
    BY <1>5, <2>1
  <2>3. PICK T : SavedUpTo(G, R, T, B, n, a, w, s, g[i - 1], i - 1)
    BY <2>2
  <2>4. \E U : SavedUpTo(G, R, U, B, n, a, w, s, NextChild(f, n, g[i - 1], i - 1), (i - 1) + 1)
    BY <1>3, <2>1, <2>3, NextChildSaved
  <2>5. QED
    BY <1>1, <1>6, <2>1, <2>4
<1>9. QED
  BY <1>7, <1>8


\* What was saved after something else was saved first.
LEMMA OutcomeAfter ==
  ASSUME NEW G, NEW R, NEW T, Extends(R, T), NEW U, NEW B, NEW n, NEW m, SameKind(n, m),
         n.hash # ZeroHash => m.hash = n.hash, NEW a, NEW w, NEW s, s.ok, NEW t,
         Keeps(G, R, B, s.db, t.db), NEW r, Outcome(G, T, U, B, m, a, w, t, r)
  PROVE  Outcome(G, R, U, B, n, a, w, s, r)
<1>1. /\ Extends(T, U) /\ Sound(G, U, r.store.db) /\ IsStore(r.store)
      /\ Keeps(G, T, B, t.db, r.store.db)
      /\ Good(G, U, r.node, a, w) /\ Within(G, B, r.store.db, r.node, a)
      /\ SameKind(m, r.node)
      /\ m.hash # ZeroHash => r.node.hash = m.hash
      /\ r.store.ok => Reached(G, U, B, r.store.db, r.node.hash, a)
  BY DEF Outcome
<1>2. Extends(R, U)
  BY <1>1, ExtendsFurther
<1>3. Keeps(G, R, B, s.db, r.store.db)
  BY <1>1, KeepsFurther
<1>4. SameKind(n, r.node)
  BY <1>1, SameKindFurther
<1>5. QED
  BY <1>1, <1>2, <1>3, <1>4 DEF Outcome

\* The parts of Given that outlast another call.
LEMMA GivenKept ==
  ASSUME NEW G, NEW R, NEW T, Extends(R, T), NEW B, NEW C, B \subseteq C, NEW n, NEW a, NEW w,
         NEW s, Good(G, R, n, a, w), Within(G, C, s.db, n, a), NEW t, Keeps(G, R, B, s.db, t.db),
         Sound(G, T, t.db), IsStore(t)
  PROVE  Given(G, T, C, n, a, w, t)
<1>1. Good(G, R, n, a, "any") /\ Good(G, T, n, a, w)
  BY KeptIsGood, GoodGrows
<1>2. Within(G, C, t.db, n, a)
  BY <1>1 DEF Keeps
<1>3. QED
  BY <1>1, <1>2 DEF Given

LEMMA SavedOutcome ==
  ASSUME NEW G, Frame(G), NEW f, Saver(G, f), NEW R, NEW B, NEW n, NEW a, NEW w, NEW s,
         Given(G, R, B, n, a, w, s)
  PROVE  \E T : Outcome(G, R, T, B, n, a, w, s, Saved(f, n, s))
<1>1. /\ Sound(G, R, s.db) /\ IsStore(s) /\ Good(G, R, n, a, w) /\ Own(G, R, n, a, w)
      /\ Within(G, B, s.db, n, a)
  BY GoodIs DEF Given
<1>2. n.type \in {"leaf", "extension", "full"}
  BY <1>1, OwnKinds
<1> DEFINE child == LoadNode(s.db, n.value)
           below == IF n.type = "full" THEN SaveChildren(f, n, s)
                    ELSE IF n.type = "leaf" THEN Result(n, s)
                    ELSE Result(n, IF child = Nil THEN Fail(s)
                                   ELSE Call(f, Result(child, s)).store)
           m == GetHash(below.node)
           r == Saved(f, n, s)
<1>3. r = IF ~s.ok THEN Result(n, s)
          ELSE IF ~below.store.ok THEN below
          ELSE Result(m, Write(below.store, m.hash, Content(m)))
  <2>1. below = SaveBelow(f, n, s)
    <3>1. CASE n.type = "leaf"
      BY <3>1 DEF SaveBelow
    <3>2. CASE n.type = "extension"
      BY <3>2 DEF SaveBelow
    <3>3. CASE n.type = "full"
      BY <3>3 DEF SaveBelow
    <3>4. QED
      BY <1>2, <3>1, <3>2, <3>3
  <2> HIDE DEF below
  <2>2. StoreHashed(below) = IF ~below.store.ok THEN below
                             ELSE Result(m, Write(below.store, m.hash, Content(m)))
    BY DEF StoreHashed, Stored
  <2> HIDE DEF m
  <2>3. QED
    BY <2>1, <2>2 DEF Saved
<1> HIDE DEF r
<1>4. CASE ~s.ok
  <2>1. r.node = n /\ r.store = s
    BY <1>3, <1>4 DEF Result
  <2>2. QED
    BY <1>1, <1>4, <2>1, Undone DEF r
<1>5. ASSUME s.ok,
             NEW T, Extends(R, T), Keeps(G, R, B, s.db, below.store.db),
             Given(G, T, B, below.node, a, w, below.store),
             SameKind(n, below.node), below.node.hash = n.hash,
             below.store.ok /\ n.type = "full" =>
               \A i \in DOMAIN below.node.children :
                 Reached(G, T, B, below.store.db, below.node.children[i].hash, Step(G, a, <<i>>))
      PROVE  \E U : Outcome(G, R, U, B, n, a, w, s, r)
  <2> HIDE DEF below
  <2>1. CASE ~below.store.ok
    <3>1. r = below
      BY <1>3, <1>5, <2>1
    <3>2. Outcome(G, R, T, B, n, a, w, s, r)
      BY <1>5, <2>1, <3>1 DEF Outcome, Given
    <3>3. QED
      BY <3>2
  <2>2. CASE below.store.ok
    <3>1. r.node = m /\ r.store = Write(below.store, m.hash, Content(m))
      BY <1>3, <1>5, <2>2 DEF Result
    <3>2. below.node.type = "full" =>
            \A i \in DOMAIN below.node.children :
              Reached(G, T, B, below.store.db, below.node.children[i].hash, Step(G, a, <<i>>))
      BY <1>5, <2>2 DEF SameKind
    <3>3. m = GetHash(below.node)
      OBVIOUS
    <3> HIDE DEF m
    <3>4. PICK U : Outcome(G, T, U, B, below.node, a, w, below.store, r)
      BY <1>5, <2>2, <3>1, <3>2, <3>3, SaveWrite
    <3>5. n.hash # ZeroHash => below.node.hash = n.hash
      BY <1>5
    <3>6. Outcome(G, R, U, B, n, a, w, s, r)
      BY <1>5, <3>4, <3>5, OutcomeAfter
    <3>7. QED
      BY <3>6
  <2>3. QED
    BY <2>1, <2>2
<1>6. CASE s.ok /\ n.type = "leaf"
  <2>1. below.node = n /\ below.store = s
    BY <1>6 DEF Result
  <2> HIDE DEF below
  <2>2. \E U : Outcome(G, R, U, B, n, a, w, s, r)
    BY <1>5, <1>6, <2>1, ExtendsItself, KeepsItself, SameKindItself
  <2>3. QED
    BY <2>2 DEF r
<1>7. CASE s.ok /\ n.type = "full"
  <2>1. below = SaveChildren(f, n, s)
    BY <1>7
  <2> HIDE DEF below
  <2>2. PICK T : SavedUpTo(G, R, T, B, n, a, w, s, below, 16)
    BY <1>7, <2>1, ChildrenSaved
  <2>3. /\ Extends(R, T) /\ Keeps(G, R, B, s.db, below.store.db)
        /\ Given(G, T, B, below.node, a, w, below.store)
        /\ SameKind(n, below.node) /\ below.node.hash = n.hash
        /\ DOMAIN below.node.children = DOMAIN n.children
    BY <1>7, <2>2 DEF SavedUpTo, SameKind
  <2>4. \A j \in DOMAIN n.children : j < 16
    BY <1>1, <1>7 DEF Own, Nibble
  <2>5. below.store.ok =>
          \A i \in DOMAIN below.node.children :
            Reached(G, T, B, below.store.db, below.node.children[i].hash, Step(G, a, <<i>>))
    BY <2>2, <2>3, <2>4 DEF SavedUpTo
  <2>6. \E U : Outcome(G, R, U, B, n, a, w, s, r)
    BY <1>5, <1>7, <2>3, <2>5
  <2>7. QED
    BY <2>6 DEF r
<1>8. CASE s.ok /\ n.type = "extension"
  <2>1. n.value \in DOMAIN R /\ Step(G, a, Path(n)) = R[n.value]
    BY <1>1, <1>8, ChildPlace
  <2>2. Good(G, R, child, R[n.value], "any") /\ child # Nil
    BY <1>1, <2>1, Loaded
  <2>3. Within(G, B, s.db, child, R[n.value])
    BY <1>1, <1>8, <2>1, WithinExtension
  <2>4. Given(G, R, B, child, R[n.value], "any", s)
    BY <1>1, <2>2, <2>3 DEF Given
  <2> DEFINE c == Call(f, Result(child, s))
  <2>5. PICK T : Outcome(G, R, T, B, child, R[n.value], "any", s, c)
    BY <2>4, CallSaves
  <2>6. below.node = n /\ below.store = c.store
    BY <1>8, <2>2 DEF Result
  <2> HIDE DEF c, below, child
  <2>7. /\ Extends(R, T) /\ Sound(G, T, c.store.db) /\ IsStore(c.store)
        /\ Keeps(G, R, B, s.db, c.store.db)
    BY <2>5 DEF Outcome
  <2>8. Given(G, T, B, n, a, w, c.store)
    BY <1>1, <2>7, GivenKept
  <2>9. SameKind(n, n)
    BY SameKindItself
  <2>10. \E U : Outcome(G, R, U, B, n, a, w, s, r)
    BY <1>5, <1>8, <2>6, <2>7, <2>8, <2>9
  <2>11. QED
    BY <2>10 DEF r
<1>9. QED
  BY <1>2, <1>4, <1>6, <1>7, <1>8

\* However deep calls may nest, saveNode does what it should.
LEMMA SavingSaves ==
  ASSUME NEW G, Frame(G)
  PROVE  Saver(G, saving[MaxDepth])
<1> DEFINE C == {d \in Nat : d <= MaxDepth /\ ~Saver(G, saving[d])}
<1>1. MaxDepth \in Nat
  BY MptAssumption
<1>2. SUFFICES ASSUME C # {} PROVE FALSE
  BY <1>1
<1>3. PICK d \in C : \A e \in C : d <= e
  <2>1. C \subseteq Nat
    OBVIOUS
  <2> HIDE DEF C
  <2>2. QED
    BY <1>2, <2>1, LeastNatural
<1>4. d \in Nat /\ d <= MaxDepth /\ ~Saver(G, saving[d])
  BY <1>3
<1>5. CASE d = 0
  <2>1. saving[0] = <<>>
    BY SavingSteps
  <2>2. DOMAIN <<>> = {}
    OBVIOUS
  <2>3. Saver(G, <<>>)
    BY <2>2 DEF Saver
  <2>4. QED
    BY <1>4, <1>5, <2>1, <2>3
<1>6. CASE d # 0
  <2>1. d \in 1..MaxDepth /\ d - 1 \in Nat /\ d - 1 <= MaxDepth /\ ~(d <= d - 1)
    BY <1>1, <1>4, <1>6
  <2>2. Saver(G, saving[d - 1])
    BY <1>3, <2>1
  <2>3. saving[d] = SaveDeeper(saving[d - 1])
    BY <2>1, SavingSteps
  <2> DEFINE f == saving[d - 1]
             g == saving[d]
  <2>4. Saver(G, f) /\ g = SaveDeeper(f)
    BY <2>2, <2>3
  <2> HIDE DEF f, g
  <2>5. DOMAIN g = Datum /\ \A x \in Datum : g[x] = Saved(f, x.node, x.store)
    BY <2>4 DEF SaveDeeper
  <2>6. ASSUME NEW x \in DOMAIN g, NEW R, NEW B, NEW a, NEW w,
               Given(G, R, B, x.node, a, w, x.store)
        PROVE  \E T : Outcome(G, R, T, B, x.node, a, w, x.store, g[x])
    <3>1. g[x] = Saved(f, x.node, x.store)
      BY <2>5
    <3>2. QED
      BY <2>4, <2>6, <3>1, SavedOutcome
  <2>7. Saver(G, g)
    BY <2>6 DEF Saver
  <2>8. QED
    BY <1>4, <2>7 DEF g
<1>7. QED
  BY <1>5, <1>6

\* What saveNode does.
LEMMA NodeSaved ==
  ASSUME NEW G, Frame(G), NEW R, NEW B, NEW n, NEW a, NEW w, NEW s,
         Given(G, R, B, n, a, w, s)
  PROVE  \E T : Outcome(G, R, T, B, n, a, w, s, saveNode(s, n))
<1>1. Saver(G, saving[MaxDepth])
  BY SavingSaves
<1>2. QED
  BY <1>1, CallSaves DEF saveNode

\* After a failure it does nothing.
LEMMA NothingSaved ==
  ASSUME NEW s, IsStore(s), ~s.ok, NEW n
  PROVE  /\ saveNode(s, n).node = n /\ IsStore(saveNode(s, n).store)
         /\ saveNode(s, n).store.db = s.db /\ ~saveNode(s, n).store.ok
<1> DEFINE x == Result(n, s)
           f == saving[MaxDepth]
<1>1. x.node = n /\ x.store = s
  BY DEF Result
<1>2. saveNode(s, n) = Call(f, x)
  BY DEF saveNode
<1>3. f = <<>> \/ \E g : f = SaveDeeper(g)
  <2>1. MaxDepth = 0 \/ MaxDepth \in 1..MaxDepth
    BY MptAssumption
  <2>2. QED
    BY <2>1, SavingSteps
<1> HIDE DEF f, x
<1>4. CASE x \in DOMAIN f
  <2>1. f # <<>>
    BY <1>4
  <2>2. PICK g : f = SaveDeeper(g)
    BY <1>3, <2>1
  <2>3. f[x] = Saved(g, n, s)
    BY <1>1, <1>4, <2>2 DEF SaveDeeper
  <2>4. Saved(g, n, s) = Result(n, s)
    BY DEF Saved
  <2>5. saveNode(s, n) = Result(n, s)
    BY <1>2, <1>4, <2>3, <2>4 DEF Call
  <2>6. QED
    BY <2>5 DEF Result
<1>5. CASE x \notin DOMAIN f
  <2> DEFINE t == [Fail(s) EXCEPT !.exceeded = TRUE]
  <2>1. IsStore(t) /\ t.db = s.db /\ ~t.ok
    BY Failing
  <2>2. saveNode(s, n) = Result(n, t)
    BY <1>1, <1>2, <1>5 DEF Call
  <2> HIDE DEF t
  <2>3. QED
    BY <2>1, <2>2 DEF Result
<1>6. QED
  BY <1>4, <1>5


-----------------------------------------------------------------------------
(* Allowed answers that change for one key.                                *)

\* What is allowed at a place is what is allowed where its keys come from.
Consistent(G, B) ==
  \A a \in G.places, p \in Seq(Nibble) :
    Step(G, a, p) \in G.places =>
      \A q, y : LeafAt(G, q, Step(G, a, p)) =>
        (<<q, Step(G, a, p), y>> \in B <=> <<p \o q, a, y>> \in B)

\* C allows at a what B allows.
Agree(G, B, C, a) == \A x, y : LeafAt(G, x, a) /\ <<x, a, y>> \in B => <<x, a, y>> \in C

\* C allows at a what B allows, but for the key with rest x only the answer v.
Differ(G, B, C, x, a, v) ==
  /\ C \subseteq B /\ <<x, a, v>> \in C
  /\ \A z, y : LeafAt(G, z, a) /\ z # x /\ <<z, a, y>> \in B => <<z, a, y>> \in C

\* A path that leads to a place, and a leaf's path there.
LEMMA LeafBelow ==
  ASSUME NEW G, Frame(G), NEW a \in G.places, NEW p \in Seq(Nibble), Step(G, a, p) \in G.places,
         NEW q \in Seq(Nibble)
  PROVE  LeafAt(G, p \o q, a) <=> LeafAt(G, q, Step(G, a, p))
BY DEF Frame

LEMMA LeafIsPath ==
  ASSUME NEW G, Frame(G), NEW q, NEW a, LeafAt(G, q, a)
  PROVE  q \in Seq(Nibble) /\ a \in G.places
BY DEF Frame

LEMMA AgreeBelow ==
  ASSUME NEW G, Frame(G), NEW B, NEW C, Consistent(G, B), Consistent(G, C),
         NEW a \in G.places, NEW p \in Seq(Nibble), Step(G, a, p) \in G.places, Agree(G, B, C, a)
  PROVE  Agree(G, B, C, Step(G, a, p))
<1> DEFINE b == Step(G, a, p)
<1>1. ASSUME NEW x, NEW y, LeafAt(G, x, b), <<x, b, y>> \in B PROVE <<x, b, y>> \in C
  <2>1. x \in Seq(Nibble)
    BY <1>1, LeafIsPath
  <2>2. LeafAt(G, p \o x, a)
    BY <1>1, <2>1, LeafBelow
  <2>3. <<p \o x, a, y>> \in B
    BY <1>1 DEF Consistent
  <2>4. <<p \o x, a, y>> \in C
    BY <2>2, <2>3 DEF Agree
  <2>5. QED
    BY <1>1, <2>4 DEF Consistent
<1>2. QED
  BY <1>1 DEF Agree

\* Off the way of the key nothing changes.
LEMMA AgreeAside ==
  ASSUME NEW G, Frame(G), NEW B, NEW C, Consistent(G, B), Consistent(G, C),
         NEW a \in G.places, NEW p \in Seq(Nibble), Step(G, a, p) \in G.places,
         NEW x, NEW v, Differ(G, B, C, x, a, v),
         \A q \in Seq(Nibble) : p \o q # x
  PROVE  Agree(G, B, C, Step(G, a, p))
<1> DEFINE b == Step(G, a, p)
<1>1. ASSUME NEW q, NEW y, LeafAt(G, q, b), <<q, b, y>> \in B PROVE <<q, b, y>> \in C
  <2>1. q \in Seq(Nibble)
    BY <1>1, LeafIsPath
  <2>2. LeafAt(G, p \o q, a)
    BY <1>1, <2>1, LeafBelow
  <2>3. <<p \o q, a, y>> \in B
    BY <1>1 DEF Consistent
  <2>4. <<p \o q, a, y>> \in C
    BY <2>1, <2>2, <2>3 DEF Differ
  <2>5. QED
    BY <1>1, <2>4 DEF Consistent
<1>2. QED
  BY <1>1 DEF Agree

\* Along the way of the key it is the key that changes.
LEMMA DifferBelow ==
  ASSUME NEW G, Frame(G), NEW B, NEW C, Consistent(G, B), Consistent(G, C),
         NEW a \in G.places, NEW p \in Seq(Nibble), Step(G, a, p) \in G.places,
         NEW q \in Seq(Nibble), LeafAt(G, p \o q, a),
         NEW v, Differ(G, B, C, p \o q, a, v)
  PROVE  Differ(G, B, C, q, Step(G, a, p), v) /\ LeafAt(G, q, Step(G, a, p))
<1> DEFINE b == Step(G, a, p)
<1>1. LeafAt(G, q, b)
  BY LeafBelow
<1>2. <<q, b, v>> \in C
  BY <1>1 DEF Consistent, Differ
<1>3. ASSUME NEW z, NEW y, LeafAt(G, z, b), z # q, <<z, b, y>> \in B PROVE <<z, b, y>> \in C
  <2>1. z \in Seq(Nibble)
    BY <1>3, LeafIsPath
  <2>2. LeafAt(G, p \o z, a)
    BY <1>3, <2>1, LeafBelow
  <2>3. <<p \o z, a, y>> \in B
    BY <1>3 DEF Consistent
  <2>4. p \o z # p \o q
    BY <1>3, <2>1, ConcatSimplifications
  <2>5. <<p \o z, a, y>> \in C
    BY <2>2, <2>3, <2>4 DEF Differ
  <2>6. QED
    BY <1>3, <2>5 DEF Consistent
<1>4. QED
  BY <1>1, <1>2, <1>3 DEF Differ

\* Where what is below a node is.
LEMMA BelowIsGood ==
  ASSUME NEW G, Frame(G), NEW R, NEW database, Sound(G, R, database),
         NEW n, NEW a, Good(G, R, n, a, "any"), NEW y \in Below(G, database, n, a)
  PROVE  /\ Good(G, R, y[1], y[2], "any") /\ y = <<y[1], y[2]>> /\ a \in G.places
         /\ \E p \in Seq(Nibble) : y[2] = Step(G, a, p) /\ Step(G, a, p) \in G.places
<1>1. Own(G, R, n, a, "any") /\ a \in G.places
  BY GoodIs, OwnKinds
<1>2. CASE n.type = "full"
  <2>1. PICK i \in DOMAIN n.children : y = <<n.children[i], Step(G, a, <<i>>)>>
    BY <1>2 DEF Below
  <2>2. Good(G, R, n.children[i], Step(G, a, <<i>>), "any")
    BY <1>2, GoodIs
  <2>3. i \in Nibble /\ Step(G, a, <<i>>) \in G.places
    BY <1>1, <1>2, <2>1 DEF Own
  <2>4. <<i>> \in Seq(Nibble)
    BY <2>3
  <2>5. QED
    BY <1>1, <2>1, <2>2, <2>3, <2>4
<1>3. CASE n.type = "extension"
  <2>1. n.value \in DOMAIN R /\ Path(n) \in Seq(Nibble) /\ Step(G, a, Path(n)) = R[n.value]
    BY <1>1, <1>3, ChildPlace
  <2>2. y = <<LoadNode(database, n.value), Step(G, a, Path(n))>>
    BY <1>3 DEF Below
  <2>3. Good(G, R, LoadNode(database, n.value), R[n.value], "any") /\ R[n.value] \in G.places
    BY <2>1, Loaded
  <2>4. QED
    BY <1>1, <2>1, <2>2, <2>3
<1>4. CASE n.type \notin {"full", "extension"}
  BY <1>4 DEF Below
<1>5. QED
  BY <1>2, <1>3, <1>4

LEMMA WithinAgree ==
  ASSUME NEW G, Frame(G), NEW R, NEW database, Sound(G, R, database),
         NEW B, NEW C, Consistent(G, B), Consistent(G, C),
         NEW n, NEW a, Good(G, R, n, a, "any"), Agree(G, B, C, a), Within(G, B, database, n, a)
  PROVE  Within(G, C, database, n, a)
<1> DEFINE Closed(W) ==
      \A x \in W : Tells(G, B, x[1], x[2]) /\ Below(G, database, x[1], x[2]) \subseteq W
<1>1. PICK W : <<n, a>> \in W /\ Closed(W)
  BY DEF Within
<1> DEFINE V == {x \in W : Good(G, R, x[1], x[2], "any") /\ Agree(G, B, C, x[2])}
<1>2. <<n, a>> \in V
  BY <1>1
<1>3. ASSUME NEW x \in V
      PROVE  Tells(G, C, x[1], x[2]) /\ Below(G, database, x[1], x[2]) \subseteq V
  <2> DEFINE m == x[1]
             b == x[2]
  <2>1. Tells(G, B, m, b) /\ Below(G, database, m, b) \subseteq W
        /\ Good(G, R, m, b, "any") /\ Agree(G, B, C, b)
    BY <1>1, <1>3
  <2> HIDE DEF m, b
  <2>2. Tells(G, C, m, b)
    BY <2>1 DEF Tells, Agree
  <2>3. ASSUME NEW y \in Below(G, database, m, b) PROVE y \in V
    <3>1. /\ Good(G, R, y[1], y[2], "any") /\ b \in G.places
          /\ \E p \in Seq(Nibble) : y[2] = Step(G, b, p) /\ Step(G, b, p) \in G.places
      BY <2>1, <2>3, BelowIsGood
    <3>2. Agree(G, B, C, y[2])
      BY <2>1, <3>1, AgreeBelow
    <3>3. QED
      BY <2>1, <2>3, <3>1, <3>2
  <2> HIDE DEF V
  <2>4. QED
    BY <2>2, <2>3 DEF m, b
<1> HIDE DEF V
<1>4. QED
  BY <1>2, <1>3 DEF Within

\* A key that does not begin with the path of a leaf or an extension is not in
\* the trie.
LEMMA Aside ==
  ASSUME NEW G, Frame(G), NEW B, NEW n, n.type \in {"leaf", "extension"}, NEW a,
         n.type = "leaf" => n.path \in Seq(Nibble) /\ n.path # NoPath,
         NEW x, LeafAt(G, x, a), ~IsPrefix(Path(n), x), Tells(G, B, n, a)
  PROVE  <<x, a, Missing>> \in B
<1>1. x \in Seq(Nibble)
  BY LeafIsPath
<1>2. ~Continues(At(n, x))
  BY DEF Continues, HasChild, At
<1>3. IsPrefix(x, x)
  BY DEF IsPrefix
<1>4. n.type = "leaf" => n.path \notin {<<>>, x}
  BY <1>1, <1>3, EmptyPrefix DEF Path
<1>5. get(At(n, x)) = Missing
  BY <1>2, <1>4 DEF get, At
<1>6. QED
  BY <1>2, <1>5 DEF Tells


-----------------------------------------------------------------------------
(* Splitting.                                                              *)

LEMMA PrefixIs ==
  ASSUME NEW p \in Seq(Nibble), NEW x \in Seq(Nibble)
  PROVE  IsPrefix(p, x) <=> \E q \in Seq(Nibble) : x = p \o q
<1>1. IsPrefix(p, x) => \E q \in Seq(Nibble) : x = p \o q
  BY RestOfPath
<1>2. ASSUME NEW q \in Seq(Nibble), x = p \o q PROVE IsPrefix(p, x)
  <2>1. Len(p) \in Nat /\ Len(q) \in Nat /\ Len(x) = Len(p) + Len(q)
        /\ \A k \in 1..Len(p) + Len(q) : x[k] = IF k <= Len(p) THEN p[k] ELSE q[k - Len(p)]
    BY <1>2, ConcatProperties
  <2>2. \A k \in 1..Len(p) : p[k] \in Nibble /\ x[k] = p[k]
    BY <2>1, ElementOfSeq
  <2>3. /\ SubSeq(x, 1, Len(p)) \in Seq(Nibble)
        /\ Len(SubSeq(x, 1, Len(p))) = Len(p)
        /\ \A k \in 1..Len(p) : SubSeq(x, 1, Len(p))[k] = x[k]
    <3>1. \A k \in 1..Len(p) : x[k] \in Nibble
      BY <2>2
    <3>2. /\ SubSeq(x, 1, Len(p)) \in Seq(Nibble)
          /\ Len(SubSeq(x, 1, Len(p))) = IF 1 <= Len(p) THEN Len(p) - 1 + 1 ELSE 0
          /\ \A k \in 1..Len(p) - 1 + 1 : SubSeq(x, 1, Len(p))[k] = x[1 + k - 1]
      BY <2>1, <3>1, SubSeqProperties
    <3>3. \A k \in 1..Len(p) : k \in 1..Len(p) - 1 + 1 /\ 1 + k - 1 = k
      BY <2>1
    <3>4. QED
      BY <2>1, <3>2, <3>3
  <2>4. SubSeq(x, 1, Len(p)) = p
    BY <2>2, <2>3, SeqEqual
  <2>5. SubSeq(p, 1, Len(p)) = p
    BY SubSeqFull
  <2>6. Len(p) <= Len(x)
    BY <2>1
  <2>7. QED
    BY <2>4, <2>5, <2>6 DEF IsPrefix
<1>3. QED
  BY <1>1, <1>2

LEMMA CancelLeft ==
  ASSUME NEW c \in Seq(Nibble), NEW p \in Seq(Nibble), NEW q \in Seq(Nibble), c \o p = c \o q
  PROVE  p = q
BY ConcatSimplifications

\* Two paths that go on differently after what they share.
LEMMA Different ==
  ASSUME NEW c \in Seq(Nibble), NEW t \in Seq(Nibble), NEW x \in Seq(Nibble),
         NEW i \in Nibble, NEW j \in Nibble, i # j
  PROVE  /\ c \o (<<i>> \o t) # c \o (<<j>> \o x)
         /\ ~IsPrefix(c \o (<<i>> \o t), c \o (<<j>> \o x))
<1>1. <<i>> \in Seq(Nibble) /\ <<j>> \in Seq(Nibble)
  OBVIOUS
<1>2. \A y, z \in Seq(Nibble) : <<i>> \o y # <<j>> \o z
  <2> TAKE y, z \in Seq(Nibble)
  <2>1. Len(<<i>>) = 1 /\ Len(<<j>>) = 1 /\ Len(y) \in Nat /\ Len(z) \in Nat
    OBVIOUS
  <2>2. (<<i>> \o y)[1] = <<i>>[1] /\ (<<j>> \o z)[1] = <<j>>[1]
    BY <1>1, <2>1, ConcatProperties
  <2>3. QED
    BY <2>2
<1>3. ASSUME NEW y \in Seq(Nibble), c \o (<<j>> \o x) = (c \o (<<i>> \o t)) \o y PROVE FALSE
  <2> DEFINE g == <<i>> \o t
             h == <<j>> \o x
             l == g \o y
  <2>1. g \in Seq(Nibble) /\ h \in Seq(Nibble) /\ t \o y \in Seq(Nibble) /\ l \in Seq(Nibble)
    BY <1>1, ConcatProperties
  <2>2. l = <<i>> \o (t \o y)
    BY <1>1, Associated
  <2>3. c \o h = (c \o g) \o y
    BY <1>3
  <2> HIDE DEF g, h
  <2>4. (c \o g) \o y = c \o (g \o y)
    <3>1. g \in Seq(Nibble)
      BY <2>1
    <3>2. QED
      BY ONLY ZenonT(60), <3>1, c \in Seq(Nibble), y \in Seq(Nibble), Associated
  <2> HIDE DEF l
  <2>5. c \o h = c \o l
    BY <2>3, <2>4 DEF l
  <2>6. h = l
    BY ONLY <2>1, <2>5, c \in Seq(Nibble), CancelLeft
  <2>7. <<j>> \o x = <<i>> \o (t \o y)
    BY <2>2, <2>6 DEF h
  <2>8. QED
    BY <1>2, <2>1, <2>7
<1>4. c \o (<<i>> \o t) \in Seq(Nibble) /\ c \o (<<j>> \o x) \in Seq(Nibble)
  BY <1>1, ConcatProperties
<1>5. ~IsPrefix(c \o (<<i>> \o t), c \o (<<j>> \o x))
  BY <1>3, <1>4, PrefixIs
<1>6. IsPrefix(c \o (<<i>> \o t), c \o (<<i>> \o t))
  BY DEF IsPrefix
<1>7. QED
  BY <1>5, <1>6

\* Paths p and x at place a share c; the one goes on with nibble i, the other
\* with j.
Parts(G, a, p, x, c, i, t, j, u) ==
  /\ c \in Seq(Nibble) /\ t \in Seq(Nibble) /\ u \in Seq(Nibble)
  /\ i \in Nibble /\ j \in Nibble /\ i # j
  /\ p = c \o (<<i>> \o t) /\ x = c \o (<<j>> \o u)
  /\ ~IsPrefix(p, x)
  /\ a \in G.places /\ Step(G, a, c) \in G.places
  /\ Step(G, Step(G, a, c), <<i>>) \in G.places
  /\ Step(G, Step(G, a, c), <<j>>) \in G.places

\* A path that leads nowhere near the key's.
LEMMA SplitParts ==
  ASSUME NEW G, Frame(G), NEW a \in G.places, NEW p \in Seq(Nibble), NEW x, LeafAt(G, x, a),
         \/ LeafAt(G, p, a) /\ p # x
         \/ Step(G, a, p) \in G.places /\ ~IsPrefix(p, x)
  PROVE  LET c == findCommonPrefix(p, x)
             old == SubSeq(p, Len(c) + 1, Len(p))
             new == SubSeq(x, Len(c) + 1, Len(x))
         IN  /\ old # <<>> /\ new # <<>>
             /\ Parts(G, a, p, x, c, Head(old), Tail(old), Head(new), Tail(new))
<1> DEFINE c == findCommonPrefix(p, x)
           old == SubSeq(p, Len(c) + 1, Len(p))
           new == SubSeq(x, Len(c) + 1, Len(x))
<1>1. x \in Seq(Nibble)
  BY LeafIsPath
<1>2. /\ c \in Seq(Nibble) /\ old \in Seq(Nibble) /\ new \in Seq(Nibble)
      /\ p = c \o old /\ x = c \o new
      /\ old # <<>> /\ new # <<>> => Head(old) # Head(new)
  BY <1>1, Parting
<1> HIDE DEF c, old, new
<1>3. /\ Len(c) \in Nat /\ Len(old) \in Nat /\ Len(new) \in Nat
      /\ Len(p) = Len(c) + Len(old) /\ Len(x) = Len(c) + Len(new)
      /\ old # <<>> => Len(old) # 0
      /\ new # <<>> => Len(new) # 0
  BY <1>2, ConcatProperties, EmptySeq
<1>4. Len(<<>>) = 0
  OBVIOUS
<1>5. old = <<>> => p = c /\ IsPrefix(p, x)
  BY <1>1, <1>2, ConcatEmptySeq, PrefixIs
<1>6. new = <<>> => x = c
  BY <1>1, <1>2, ConcatEmptySeq
<1>7. old # <<>> /\ new # <<>>
  <2>1. CASE LeafAt(G, p, a) /\ p # x
    <3>1. Len(p) = Len(x)
      BY <1>1, <2>1 DEF Frame
    <3>2. QED
      BY <1>3, <1>4, <1>5, <1>6, <2>1, <3>1
  <2>2. CASE Step(G, a, p) \in G.places /\ ~IsPrefix(p, x)
    <3>1. Len(p) <= Len(x)
      BY <1>1, <2>2 DEF Frame
    <3>2. old # <<>>
      BY <1>5, <2>2
    <3>3. QED
      BY <1>3, <1>4, <3>1, <3>2
  <2>3. QED
    BY <2>1, <2>2
<1> DEFINE i == Head(old)
           t == Tail(old)
           j == Head(new)
           u == Tail(new)
<1>8. /\ i \in Nibble /\ t \in Seq(Nibble) /\ <<i>> \in Seq(Nibble) /\ old = <<i>> \o t
      /\ j \in Nibble /\ u \in Seq(Nibble) /\ <<j>> \in Seq(Nibble) /\ new = <<j>> \o u
      /\ i # j
  BY <1>2, <1>7, FirstAndRest
<1> HIDE DEF i, t, j, u
<1>9. p = c \o (<<i>> \o t) /\ x = c \o (<<j>> \o u) /\ ~IsPrefix(p, x)
  <2>1. p = c \o (<<i>> \o t) /\ x = c \o (<<j>> \o u)
    BY <1>2, <1>8
  <2>2. ~IsPrefix(c \o (<<i>> \o t), c \o (<<j>> \o u))
    BY <1>2, <1>8, Different
  <2>3. QED
    BY <2>1, <2>2
<1>10. Step(G, a, c \o <<i>>) \in G.places /\ Step(G, a, c \o <<j>>) \in G.places
  <2>1. LeafAt(G, c \o (<<j>> \o u), a)
    BY <1>9
  <2>2. CASE LeafAt(G, p, a)
    <3>1. LeafAt(G, c \o (<<i>> \o t), a)
      BY <1>9, <2>2
    <3>2. \A y, z \in Seq(Nibble), k, l \in Nibble :
            k # l /\ LeafAt(G, c \o (<<k>> \o y), a) /\ LeafAt(G, c \o (<<l>> \o z), a)
              => Step(G, a, c \o <<k>>) \in G.places
      BY <1>2 DEF Frame
    <3>3. QED
      BY <1>8, <2>1, <3>1, <3>2
  <2>3. CASE Step(G, a, p) \in G.places
    <3>1. (c \o <<i>>) \o t = p /\ c \o <<i>> \in Seq(Nibble)
      BY <1>2, <1>8, <1>9, Associated, ConcatProperties
    <3>2. \A q, y \in Seq(Nibble) : Step(G, a, q \o y) \in G.places => Step(G, a, q) \in G.places
      BY DEF Frame
    <3>3. Step(G, a, c \o <<i>>) \in G.places
      BY <1>8, <2>3, <3>1, <3>2
    <3>4. \A z \in Seq(Nibble), k, l \in Nibble :
            Step(G, a, c \o <<k>>) \in G.places /\ LeafAt(G, c \o (<<l>> \o z), a)
              => Step(G, a, c \o <<l>>) \in G.places
      BY <1>2 DEF Frame
    <3>5. QED
      BY <1>8, <2>1, <3>3, <3>4
  <2>4. QED
    BY <2>2, <2>3
<1>11. Step(G, a, c) \in G.places
  BY <1>2, <1>8, <1>10 DEF Frame
<1>12. /\ Step(G, Step(G, a, c), <<i>>) = Step(G, a, c \o <<i>>)
       /\ Step(G, Step(G, a, c), <<j>>) = Step(G, a, c \o <<j>>)
  <2>1. \A q \in Seq(Nibble) : Step(G, Step(G, a, c), q) = Step(G, a, c \o q)
    BY <1>2, <1>11 DEF Frame
  <2>2. QED
    BY <1>8, <2>1
<1>13. Parts(G, a, p, x, c, i, t, j, u)
  BY <1>2, <1>8, <1>9, <1>10, <1>11, <1>12 DEF Parts
<1>14. QED
  BY <1>7, <1>13 DEF c, old, new, i, t, j, u


LEMMA PrefixBehind ==
  ASSUME NEW q \in Seq(Nibble), NEW t \in Seq(Nibble), NEW x \in Seq(Nibble)
  PROVE  IsPrefix(q \o t, q \o x) <=> IsPrefix(t, x)
<1>1. q \o t \in Seq(Nibble) /\ q \o x \in Seq(Nibble)
  BY ConcatProperties
<1>2. ASSUME NEW z \in Seq(Nibble), x = t \o z PROVE q \o x = (q \o t) \o z
  BY <1>2, Associated
<1>3. ASSUME NEW z \in Seq(Nibble), q \o x = (q \o t) \o z PROVE x = t \o z
  <2> DEFINE y == t \o z
  <2>1. y \in Seq(Nibble)
    BY ConcatProperties
  <2>2. (q \o t) \o z = q \o y
    BY Associated
  <2> HIDE DEF y
  <2>3. q \o x = q \o y
    BY <1>3, <2>2
  <2>4. x = y
    BY ONLY <2>1, <2>3, q \in Seq(Nibble), x \in Seq(Nibble), CancelLeft
  <2>5. QED
    BY <2>4 DEF y
<1>4. IsPrefix(q \o t, q \o x) <=> \E z \in Seq(Nibble) : q \o x = (q \o t) \o z
  BY <1>1, PrefixIs
<1>5. IsPrefix(t, x) <=> \E z \in Seq(Nibble) : x = t \o z
  BY PrefixIs
<1>6. QED
  BY <1>2, <1>3, <1>4, <1>5



-----------------------------------------------------------------------------
(* From one store to a later one.                                          *)

\* Calls that led from store s to store t: every node that was within answers
\* no narrower than B still is.
Later(G, R, T, B, s, t) ==
  /\ Extends(R, T) /\ Sound(G, T, t.db) /\ IsStore(t)
  /\ Keeps(G, R, B, s.db, t.db)
  /\ t.ok => s.ok

LEMMA LaterItself ==
  ASSUME NEW G, NEW R, NEW B, NEW s, Sound(G, R, s.db), IsStore(s)
  PROVE  Later(G, R, R, B, s, s)
BY ExtendsItself, KeepsItself DEF Later

LEMMA LaterFurther ==
  ASSUME NEW G, NEW R, NEW S, NEW T, NEW B, NEW s, NEW t, NEW u,
         Later(G, R, S, B, s, t), Later(G, S, T, B, t, u)
  PROVE  Later(G, R, T, B, s, u)
<1>1. Extends(R, T)
  BY ExtendsFurther DEF Later
<1>2. Keeps(G, R, B, s.db, u.db)
  BY KeepsFurther DEF Later
<1>3. QED
  BY <1>1, <1>2 DEF Later

LEMMA LaterLess ==
  ASSUME NEW G, NEW R, NEW T, NEW B, NEW C, B \subseteq C, NEW s, NEW t, Later(G, R, T, B, s, t)
  PROVE  Later(G, R, T, C, s, t)
BY KeepsLess DEF Later

\* A node that outlasts the calls.
LEMMA Lasts ==
  ASSUME NEW G, NEW R, NEW T, NEW B, NEW C, B \subseteq C, NEW s, NEW t, Later(G, R, T, B, s, t),
         NEW n, NEW a, NEW w, Good(G, R, n, a, w), Within(G, C, s.db, n, a)
  PROVE  /\ Given(G, T, C, n, a, w, t)
         /\ Good(G, T, n, a, w) /\ Within(G, C, t.db, n, a)
<1>1. Given(G, T, C, n, a, w, t)
  BY GivenKept DEF Later
<1>2. QED
  BY <1>1 DEF Given

LEMMA LastsOn ==
  ASSUME NEW G, NEW R, NEW T, NEW B, NEW s, NEW t, Later(G, R, T, B, s, t),
         NEW n, NEW a, NEW w, Good(G, R, n, a, w), Within(G, B, s.db, n, a)
  PROVE  /\ Given(G, T, B, n, a, w, t)
         /\ Good(G, T, n, a, w) /\ Within(G, B, t.db, n, a)
<1>1. B \subseteq B
  OBVIOUS
<1>2. QED
  BY <1>1, Lasts

\* A call for n at a that led from store s to result r: all keys that come to
\* the node it leaves find an answer of B; when it went well one of C, also by
\* the node's hash.
Changed(G, R, T, B, C, n, a, w, s, r) ==
  /\ Later(G, R, T, B, s, r.store)
  /\ Good(G, T, r.node, a, w) /\ Within(G, B, r.store.db, r.node, a)
  /\ n.type = "full" => r.node.type = "full"
  /\ r.store.ok => /\ Within(G, C, r.store.db, r.node, a)
                   /\ Reached(G, T, C, r.store.db, r.node.hash, a)

\* The hash of a node that was saved is of the node's kind.
LEMMA HashKind ==
  ASSUME NEW G, NEW R, NEW database, Sound(G, R, database), NEW n, NEW a, NEW w,
         Good(G, R, n, a, w), NEW C, NEW d, Reached(G, R, C, d, n.hash, a)
  PROVE  n.hash # ZeroHash /\ n.hash.type = n.type /\ n.hash \in DOMAIN R /\ R[n.hash] = a
<1>1. n.hash \in DOMAIN R /\ R[n.hash] = a
  BY DEF Reached
<1>2. n.hash # ZeroHash
  BY <1>1, HashIsKnown
<1>3. Own(G, R, n, a, w)
  BY GoodIs
<1>4. QED
  BY <1>1, <1>2, <1>3 DEF Own

LEMMA NodeChanged ==
  ASSUME NEW G, Frame(G), NEW R, NEW C, NEW n, NEW a, NEW w, NEW s,
         Given(G, R, C, n, a, w, s)
  PROVE  \E T : /\ Changed(G, R, T, C, C, n, a, w, s, saveNode(s, n))
                /\ SameKind(n, saveNode(s, n).node)
<1> DEFINE r == saveNode(s, n)
<1>1. PICK T : Outcome(G, R, T, C, n, a, w, s, r)
  BY NodeSaved
<1> HIDE DEF r
<1>2. Changed(G, R, T, C, C, n, a, w, s, r) /\ SameKind(n, r.node)
  BY <1>1 DEF Outcome, Changed, Later, SameKind
<1>3. QED
  BY <1>2 DEF r

\* What follows a call is a call.
LEMMA ChangedAfter ==
  ASSUME NEW G, NEW R, NEW S, NEW T, NEW B, NEW C, C \subseteq B, NEW n, NEW m, NEW a, NEW w,
         NEW s, NEW t, NEW r, Later(G, R, S, B, s, t), Changed(G, S, T, C, C, m, a, w, t, r),
         n.type = "full" => m.type = "full"
  PROVE  Changed(G, R, T, B, C, n, a, w, s, r)
<1>1. Later(G, S, T, B, t, r.store)
  BY LaterLess DEF Changed
<1>2. Later(G, R, T, B, s, r.store)
  BY <1>1, LaterFurther
<1>3. Within(G, B, r.store.db, r.node, a)
  BY WithinMore DEF Changed
<1>4. QED
  BY <1>2, <1>3 DEF Changed

\* After a failure the node is what it was.
LEMMA ChangedNot ==
  ASSUME NEW G, NEW R, NEW T, NEW B, NEW C, NEW n, NEW a, NEW w, NEW s, NEW t,
         Good(G, R, n, a, w), Within(G, B, s.db, n, a), Later(G, R, T, B, s, t), ~t.ok
  PROVE  Changed(G, R, T, B, C, n, a, w, s, Result(n, t))
<1>1. Good(G, T, n, a, w) /\ Within(G, B, t.db, n, a)
  BY Lasts
<1>2. QED
  BY <1>1 DEF Changed, Result

-----------------------------------------------------------------------------
(* The nodes of a split.                                                   *)

\* A leaf or an extension without the first part of its path.
LEMMA Shortened ==
  ASSUME NEW G, Frame(G), NEW R, NEW B, Consistent(G, B), NEW database,
         NEW n, NEW a, NEW w, Good(G, R, n, a, w), Within(G, B, database, n, a),
         n.type \in {"leaf", "extension"},
         NEW q \in Seq(Nibble), NEW t \in Seq(Nibble), n.path = q \o t, n.path \in Seq(Nibble),
         q # <<>>, Step(G, a, q) \in G.places
  PROVE  LET m == [n EXCEPT !.path = t, !.hash = ZeroHash]
         IN  /\ Good(G, R, m, Step(G, a, q), w) /\ Within(G, B, database, m, Step(G, a, q))
             /\ m.type = n.type
<1> DEFINE m == [n EXCEPT !.path = t, !.hash = ZeroHash]
           b == Step(G, a, q)
<1>1. Own(G, R, n, a, w) /\ a \in G.places
  BY GoodIs, OwnKinds
<1>2. /\ m = [type |-> n.type, path |-> t, value |-> n.value, hash |-> ZeroHash]
      /\ m.type = n.type /\ m.path = t /\ m.value = n.value /\ m.hash = ZeroHash
  <2>1. n = [type |-> n.type, path |-> n.path, value |-> n.value, hash |-> n.hash]
    BY <1>1 DEF Own
  <2>2. PICK k, p, v, h : n = [type |-> k, path |-> p, value |-> v, hash |-> h]
    BY <2>1
  <2>3. n.type = k /\ n.value = v
    BY <2>2
  <2>4. m = [type |-> k, path |-> t, value |-> v, hash |-> ZeroHash]
    <3> DEFINE u == [n EXCEPT !.path = t]
    <3>1. u = [type |-> k, path |-> t, value |-> v, hash |-> h]
      BY <2>2
    <3>2. m = [u EXCEPT !.hash = ZeroHash]
      OBVIOUS
    <3> HIDE DEF u, m
    <3>3. QED
      BY <3>1, <3>2
  <2>5. QED
    BY <2>3, <2>4
<1> HIDE DEF m
<1>3. t # NoPath /\ Path(m) = t /\ n.path # NoPath /\ Path(n) = n.path
  BY <1>2, MptAssumption DEF Path
<1>4. n.type = "leaf" => LeafAt(G, t, b)
  <2>1. n.type = "leaf" => LeafAt(G, q \o t, a)
    BY <1>1 DEF Own
  <2>2. QED
    BY <1>1, <2>1, LeafBelow
<1>5. n.type = "extension" =>
        n.value \in DOMAIN R /\ n.value.type = "full" /\ R[n.value] = Step(G, a, n.path)
        /\ Step(G, b, t) = Step(G, a, n.path)
  <2>1. n.type = "extension" =>
          n.value \in DOMAIN R /\ n.value.type = "full" /\ R[n.value] = Step(G, a, n.path)
    BY <1>1, <1>3 DEF Own
  <2>2. \A z \in Seq(Nibble) : Step(G, b, z) = Step(G, a, q \o z)
    BY <1>1 DEF Frame
  <2>3. QED
    BY <2>1, <2>2
<1> HIDE DEF b
<1>6. b \in G.places
  BY DEF b
<1>7. Own(G, R, m, b, w)
  BY <1>1, <1>2, <1>4, <1>5, <1>6 DEF Own
<1>8. Good(G, R, m, b, w)
  BY <1>2, <1>7, GoodIs
<1>9. Tells(G, B, m, b)
  <2> SUFFICES ASSUME NEW x, LeafAt(G, x, b), ~Continues(At(m, x))
               PROVE  <<x, b, get(At(m, x))>> \in B
    BY DEF Tells
  <2>1. x \in Seq(Nibble)
    BY LeafIsPath
  <2>2. LeafAt(G, q \o x, a)
    BY <1>1, <2>1, LeafBelow DEF b
  <2>3. IsPrefix(n.path, q \o x) <=> IsPrefix(t, x)
    BY <2>1, PrefixBehind
  <2>4. ~Continues(At(n, q \o x))
    BY <1>2, <1>3, <2>3 DEF Continues, HasChild, At
  <2>5. <<q \o x, a, get(At(n, q \o x))>> \in B
    BY <2>2, <2>4, WithinIs DEF Tells
  <2>6. n.type = "leaf" => (n.path \in {<<>>, q \o x} <=> t \in {<<>>, x})
    <3>1. n.path # <<>>
      BY ConcatSimplifications
    <3>2. n.path = q \o x <=> t = x
      BY <2>1, CancelLeft
    <3>3. n.type = "leaf" /\ t = <<>> => x = <<>>
      <4>1. \A y, z \in Seq(Nibble) : LeafAt(G, y, b) /\ LeafAt(G, z, b) => Len(y) = Len(z)
        BY <1>6 DEF Frame
      <4>2. n.type = "leaf" => Len(t) = Len(x)
        BY <1>4, <2>1, <4>1
      <4>3. Len(<<>>) = 0
        OBVIOUS
      <4>4. QED
        BY <2>1, <4>2, <4>3, EmptySeq
    <3>4. QED
      BY <3>1, <3>2, <3>3
  <2>7. get(At(n, q \o x)) = get(At(m, x))
    BY <1>2, <2>4, <2>6 DEF get, At
  <2>8. <<q \o x, a, get(At(m, x))>> \in B
    BY <2>5, <2>7
  <2>9. \A y, z : LeafAt(G, y, b) => (<<y, b, z>> \in B <=> <<q \o y, a, z>> \in B)
    BY <1>1, <1>6 DEF Consistent, b
  <2>10. QED
    BY <2>8, <2>9
<1>10. Within(G, B, database, m, b)
  <2>1. CASE n.type = "leaf"
    <3>1. Below(G, database, m, b) = {}
      BY <1>2, <2>1 DEF Below
    <3>2. QED
      BY <1>9, <3>1, WithinIs
  <2>2. CASE n.type = "extension"
    <3>1. Within(G, B, database, LoadNode(database, n.value), Step(G, a, Path(n)))
      BY <2>2, WithinExtension
    <3>2. Within(G, B, database, LoadNode(database, m.value), Step(G, b, Path(m)))
      BY <1>2, <1>3, <1>5, <2>2, <3>1
    <3>3. QED
      BY <1>2, <1>9, <2>2, <3>2, WithinExtension
  <2>3. QED
    BY <2>1, <2>2
<1>11. QED
  BY <1>2, <1>8, <1>10 DEF m, b


LEMMA PairSize ==
  ASSUME NEW i, NEW j, i # j
  PROVE  Cardinality({i, j}) = 2
<1>1. IsFiniteSet({i}) /\ Cardinality({i}) = 1
  BY FS_Singleton
<1>2. Cardinality({i} \cup {j}) = Cardinality({i}) + 1
  BY <1>1, FS_AddElement
<1>3. {i} \cup {j} = {i, j}
  OBVIOUS
<1>4. QED
  BY <1>1, <1>2, <1>3


\* What a key that comes to n finds once another key has left n's path.
LEMMA MissingBeside ==
  ASSUME NEW G, Frame(G), NEW B, NEW C, NEW n, n.type \in {"leaf", "extension"},
         n.path \in Seq(Nibble), NEW a, Tells(G, B, n, a),
         NEW x, NEW v, Differ(G, B, C, x, a, v),
         NEW y, LeafAt(G, y, a), y # x, ~IsPrefix(n.path, y)
  PROVE  <<y, a, Missing>> \in C
<1>1. n.path # NoPath /\ Path(n) = n.path
  BY MptAssumption DEF Path
<1>2. <<y, a, Missing>> \in B
  BY <1>1, Aside
<1>3. QED
  BY <1>2 DEF Differ

\* Node n at place a has answers of B and a path that the key with rest x, whose
\* value will be v, leaves after c.
Splitting(G, B, C, n, a, x, v, c, i, t, j, u) ==
  /\ Frame(G) /\ Consistent(G, C)
  /\ n.type \in {"leaf", "extension"} /\ n.path \in Seq(Nibble) /\ Tells(G, B, n, a)
  /\ LeafAt(G, x, a) /\ v \in Value /\ Differ(G, B, C, x, a, v)
  /\ Parts(G, a, n.path, x, c, i, t, j, u)

\* Where the key goes on with its own nibble, there is nothing but its leaf.
LEMMA NewLeaf ==
  ASSUME NEW G, NEW B, NEW C, NEW n, NEW a, NEW x, NEW v, NEW c, NEW i, NEW t, NEW j, NEW u,
         Splitting(G, B, C, n, a, x, v, c, i, t, j, u),
         NEW R, NEW w, NEW s, Sound(G, R, s.db), IsStore(s)
  PROVE  Given(G, R, C, LeafNode(u, v), Step(G, Step(G, a, c), <<j>>), w, s)
<1> SUFFICES ASSUME Frame(G), Consistent(G, C), n.type \in {"leaf", "extension"},
                    n.path \in Seq(Nibble), Tells(G, B, n, a), LeafAt(G, x, a), v \in Value,
                    Differ(G, B, C, x, a, v), Parts(G, a, n.path, x, c, i, t, j, u)
             PROVE  Given(G, R, C, LeafNode(u, v), Step(G, Step(G, a, c), <<j>>), w, s)
  BY DEF Splitting
<1> DEFINE m == LeafNode(u, v)
           q == c \o <<j>>
           b == Step(G, Step(G, a, c), <<j>>)
<1>1. /\ c \in Seq(Nibble) /\ t \in Seq(Nibble) /\ u \in Seq(Nibble)
      /\ i \in Nibble /\ j \in Nibble /\ i # j
      /\ n.path = c \o (<<i>> \o t) /\ x = c \o (<<j>> \o u)
      /\ a \in G.places /\ Step(G, a, c) \in G.places /\ b \in G.places
  BY DEF Parts
<1>2. q \in Seq(Nibble) /\ \A z \in Seq(Nibble) : q \o z = c \o (<<j>> \o z)
  <2>1. <<j>> \in Seq(Nibble)
    BY <1>1
  <2>2. QED
    BY <1>1, <2>1, ConcatProperties, Associated
<1>3. b = Step(G, a, q)
  <2>1. \A z \in Seq(Nibble) : Step(G, Step(G, a, c), z) = Step(G, a, c \o z)
    BY <1>1 DEF Frame
  <2>2. <<j>> \in Seq(Nibble)
    BY <1>1
  <2>3. QED
    BY <2>1, <2>2
<1> HIDE DEF b, q
<1>4. x = q \o u
  BY <1>1, <1>2
<1>5. \A z \in Seq(Nibble) : LeafAt(G, z, b) <=> LeafAt(G, q \o z, a)
  <2>1. Step(G, a, q) \in G.places
    BY <1>1, <1>3
  <2>2. QED
    BY <1>1, <1>2, <1>3, <2>1, LeafBelow
<1>6. \A z, y : LeafAt(G, z, b) => (<<z, b, y>> \in C <=> <<q \o z, a, y>> \in C)
  <2>1. Step(G, a, q) \in G.places
    BY <1>1, <1>3
  <2>2. \A z, y : LeafAt(G, z, Step(G, a, q)) =>
          (<<z, Step(G, a, q), y>> \in C <=> <<q \o z, a, y>> \in C)
    BY <1>1, <1>2, <2>1 DEF Consistent
  <2>3. QED
    BY <1>3, <2>2
<1>7. LeafAt(G, u, b)
  BY <1>1, <1>4, <1>5
<1>8. m.type = "leaf" /\ m.path = u /\ m.value = v /\ m.hash = ZeroHash
      /\ m = [type |-> "leaf", path |-> u, value |-> v, hash |-> ZeroHash]
  BY DEF LeafNode
<1> HIDE DEF m
<1>9. Own(G, R, m, b, w)
  BY <1>1, <1>7, <1>8 DEF Own
<1>10. Good(G, R, m, b, w)
  BY <1>8, <1>9, GoodIs
<1>11. Tells(G, C, m, b)
  <2> SUFFICES ASSUME NEW z, LeafAt(G, z, b) PROVE <<z, b, get(At(m, z))>> \in C
    BY DEF Tells
  <2>1. z \in Seq(Nibble)
    BY LeafIsPath
  <2>2. ~Continues(At(m, z))
    BY <1>8 DEF Continues, HasChild, At
  <2>3. CASE z = u
    <3>1. get(At(m, z)) = v
      BY <1>8, <2>2, <2>3 DEF get, At
    <3>2. <<q \o z, a, v>> \in C
      BY <1>4, <2>3 DEF Differ
    <3>3. QED
      BY <1>6, <3>1, <3>2
  <2>4. CASE z # u
    <3>1. u # <<>>
      <4>1. \A y : LeafAt(G, y, b) => Len(y) = Len(z)
        BY <1>1, <2>1, LeafIsPath DEF Frame
      <4>2. Len(u) = Len(z)
        BY <1>7, <4>1
      <4>3. Len(<<>>) = 0
        OBVIOUS
      <4>4. QED
        BY <2>1, <2>4, <4>2, <4>3, EmptySeq
    <3>2. get(At(m, z)) = Missing
      BY <1>8, <2>2, <2>4, <3>1 DEF get, At
    <3>3. q \o z # x
      <4> SUFFICES ASSUME q \o z = q \o u PROVE FALSE
        BY <1>4
      <4>1. z = u
        BY ONLY q \o z = q \o u, <1>1, <1>2, <2>1, CancelLeft
      <4>2. QED
        BY <2>4, <4>1
    <3>4. ~IsPrefix(n.path, q \o z)
      <4>1. ~IsPrefix(c \o (<<i>> \o t), c \o (<<j>> \o z))
        BY <1>1, <2>1, Different
      <4>2. QED
        BY <1>1, <1>2, <2>1, <4>1
    <3>5. LeafAt(G, q \o z, a)
      BY <1>5, <2>1
    <3>6. <<q \o z, a, Missing>> \in C
      <4> DEFINE y == q \o z
      <4>1. y # x /\ ~IsPrefix(n.path, y) /\ LeafAt(G, y, a)
        BY <3>3, <3>4, <3>5
      <4> HIDE DEF y
      <4>2. <<y, a, Missing>> \in C
        BY <4>1, MissingBeside
      <4>3. QED
        BY <4>2 DEF y
    <3>7. QED
      BY <1>6, <3>2, <3>6
  <2>5. QED
    BY <2>3, <2>4
<1>12. Below(G, s.db, m, b) = {}
  BY <1>8 DEF Below
<1>13. Within(G, C, s.db, m, b)
  BY <1>11, <1>12, WithinIs
<1>14. QED
  BY <1>10, <1>13 DEF Given, m, b

\* The full node where the paths part.
LEMMA NewBranch ==
  ASSUME NEW G, NEW B, NEW C, NEW n, NEW a, NEW x, NEW v, NEW c, NEW i, NEW t, NEW j, NEW u,
         Splitting(G, B, C, n, a, x, v, c, i, t, j, u),
         NEW R, NEW w, NEW s, Sound(G, R, s.db), IsStore(s),
         NEW k, Good(G, R, k, Step(G, Step(G, a, c), <<i>>), w),
         Within(G, C, s.db, k, Step(G, Step(G, a, c), <<i>>)),
         NEW l, Good(G, R, l, Step(G, Step(G, a, c), <<j>>), w),
         Within(G, C, s.db, l, Step(G, Step(G, a, c), <<j>>))
  PROVE  Given(G, R, C, FullNode(Including(Including(<<>>, i, k), j, l)), Step(G, a, c), w, s)
<1> SUFFICES ASSUME Frame(G), Consistent(G, C), n.type \in {"leaf", "extension"},
                    n.path \in Seq(Nibble), Tells(G, B, n, a), LeafAt(G, x, a), v \in Value,
                    Differ(G, B, C, x, a, v), Parts(G, a, n.path, x, c, i, t, j, u)
             PROVE  Given(G, R, C, FullNode(Including(Including(<<>>, i, k), j, l)), Step(G, a, c), w, s)
  BY DEF Splitting
<1> DEFINE one == Including(<<>>, i, k)
           both == Including(one, j, l)
           m == FullNode(both)
           b == Step(G, a, c)
<1>1. /\ c \in Seq(Nibble) /\ t \in Seq(Nibble) /\ u \in Seq(Nibble)
      /\ i \in Nibble /\ j \in Nibble /\ i # j
      /\ n.path = c \o (<<i>> \o t) /\ x = c \o (<<j>> \o u)
      /\ a \in G.places /\ b \in G.places
      /\ Step(G, b, <<i>>) \in G.places /\ Step(G, b, <<j>>) \in G.places
  BY DEF Parts
<1>2. DOMAIN one = {i} /\ one[i] = k
  <2>1. DOMAIN <<>> = {}
    OBVIOUS
  <2>2. QED
    BY <2>1 DEF Including
<1> HIDE DEF one
<1>3. DOMAIN both = {i, j} /\ both[i] = k /\ both[j] = l
      /\ both = [z \in DOMAIN both |-> both[z]]
  <2>1. DOMAIN both = {i, j}
    BY <1>2 DEF Including
  <2>2. both[i] = k /\ both[j] = l
    BY <1>1, <1>2 DEF Including
  <2>3. both = [z \in DOMAIN both |-> both[z]]
    BY DEF Including
  <2>4. QED
    BY <2>1, <2>2, <2>3
<1> HIDE DEF both
<1>4. m.type = "full" /\ m.children = both /\ m.hash = ZeroHash
      /\ m = [type |-> "full", children |-> both, hash |-> ZeroHash]
  BY DEF FullNode
<1>5. Cardinality({i, j}) > 1
  <2>1. Cardinality({i, j}) = 2
    BY <1>1, PairSize
  <2>2. QED
    BY <2>1
<1> HIDE DEF m, b
<1>6. Own(G, R, m, b, w)
  BY <1>1, <1>3, <1>4, <1>5 DEF Own
<1>7. Good(G, R, m, b, w)
  <2>1. \A z \in DOMAIN m.children : Good(G, R, m.children[z], Step(G, b, <<z>>), w)
    BY <1>3, <1>4 DEF b
  <2>2. QED
    BY <1>6, <2>1, GoodIs
<1>8. Tells(G, C, m, b)
  <2> SUFFICES ASSUME NEW z, LeafAt(G, z, b), ~Continues(At(m, z))
               PROVE  <<z, b, get(At(m, z))>> \in C
    BY DEF Tells
  <2>1. /\ z \in Seq(Nibble) /\ z # <<>> /\ Head(z) \in Nibble /\ Tail(z) \in Seq(Nibble)
        /\ z = <<Head(z)>> \o Tail(z)
    BY <1>1, KeysGoOn
  <2>2. Head(z) # i /\ Head(z) # j
    BY <1>3, <1>4, <2>1 DEF Continues, HasChild, At
  <2>3. get(At(m, z)) = Missing
    BY <1>4, <2>1 DEF get, At
  <2>4. LeafAt(G, c \o z, a)
    BY <1>1, <2>1, LeafBelow DEF b
  <2>5. /\ ~IsPrefix(c \o (<<i>> \o t), c \o (<<Head(z)>> \o Tail(z)))
        /\ c \o (<<j>> \o u) # c \o (<<Head(z)>> \o Tail(z))
    <3> DEFINE e == Head(z)
               y == Tail(z)
    <3>1. /\ e \in Nibble /\ y \in Seq(Nibble) /\ e # i /\ j # e
          /\ c \in Seq(Nibble) /\ t \in Seq(Nibble) /\ u \in Seq(Nibble)
          /\ i \in Nibble /\ j \in Nibble
      BY <1>1, <2>1, <2>2
    <3> HIDE DEF e, y
    <3>2. ~IsPrefix(c \o (<<i>> \o t), c \o (<<e>> \o y))
      BY ONLY <3>1, Different
    <3>3. c \o (<<j>> \o u) # c \o (<<e>> \o y)
      BY ONLY <3>1, Different
    <3>4. QED
      BY <3>2, <3>3 DEF e, y
  <2>6. ~IsPrefix(n.path, c \o z) /\ c \o z # x
    BY <1>1, <2>1, <2>5
  <2>7. <<c \o z, a, Missing>> \in C
    <3> DEFINE y == c \o z
    <3>1. y # x /\ ~IsPrefix(n.path, y) /\ LeafAt(G, y, a)
      BY <2>4, <2>6
    <3> HIDE DEF y
    <3>2. <<y, a, Missing>> \in C
      BY <3>1, MissingBeside
    <3>3. QED
      BY <3>2 DEF y
  <2>8. \A y : <<z, b, y>> \in C <=> <<c \o z, a, y>> \in C
    BY <1>1 DEF Consistent, b
  <2>9. QED
    BY <2>3, <2>7, <2>8
<1>9. Within(G, C, s.db, m, b)
  <2>1. \A z \in DOMAIN m.children :
          Within(G, C, s.db, m.children[z], Step(G, b, <<z>>))
    BY <1>3, <1>4 DEF b
  <2>2. QED
    BY <1>4, <1>8, <2>1, WithinFull
<1>10. QED
  BY <1>4, <1>7, <1>9 DEF Given, m, b, both, one

\* The extension above it.
LEMMA NewTop ==
  ASSUME NEW G, NEW B, NEW C, NEW n, NEW a, NEW x, NEW v, NEW c, NEW i, NEW t, NEW j, NEW u,
         Splitting(G, B, C, n, a, x, v, c, i, t, j, u),
         NEW R, NEW w, NEW s, Sound(G, R, s.db), IsStore(s),
         NEW h, h.type = "full", Reached(G, R, C, s.db, h, Step(G, a, c))
  PROVE  Given(G, R, C, ExtensionNode(c, h), a, w, s)
<1> SUFFICES ASSUME Frame(G), Consistent(G, C), n.type \in {"leaf", "extension"},
                    n.path \in Seq(Nibble), Tells(G, B, n, a), LeafAt(G, x, a), v \in Value,
                    Differ(G, B, C, x, a, v), Parts(G, a, n.path, x, c, i, t, j, u)
             PROVE  Given(G, R, C, ExtensionNode(c, h), a, w, s)
  BY DEF Splitting
<1> DEFINE m == ExtensionNode(c, h)
<1>1. /\ c \in Seq(Nibble) /\ t \in Seq(Nibble) /\ u \in Seq(Nibble)
      /\ i \in Nibble /\ j \in Nibble /\ i # j
      /\ n.path = c \o (<<i>> \o t) /\ x = c \o (<<j>> \o u)
      /\ a \in G.places /\ Step(G, a, c) \in G.places
  BY DEF Parts
<1>2. /\ h \in DOMAIN R /\ R[h] = Step(G, a, c)
      /\ Within(G, C, s.db, LoadNode(s.db, h), Step(G, a, c))
  BY ReachedIs
<1>3. m.type = "extension" /\ m.path = c /\ m.value = h /\ m.hash = ZeroHash
      /\ m = [type |-> "extension", path |-> c, value |-> h, hash |-> ZeroHash]
  BY DEF ExtensionNode
<1>4. c # NoPath /\ Path(m) = c
  BY <1>1, <1>3, MptAssumption DEF Path
<1> HIDE DEF m
<1>5. Own(G, R, m, a, w)
  BY <1>1, <1>2, <1>3 DEF Own
<1>6. Good(G, R, m, a, w)
  BY <1>3, <1>5, GoodIs
<1>7. Tells(G, C, m, a)
  <2> SUFFICES ASSUME NEW z, LeafAt(G, z, a), ~Continues(At(m, z))
               PROVE  <<z, a, get(At(m, z))>> \in C
    BY DEF Tells
  <2>1. z \in Seq(Nibble)
    BY LeafIsPath
  <2>2. ~IsPrefix(c, z)
    BY <1>3, <1>4 DEF Continues, At
  <2>3. get(At(m, z)) = Missing
    BY <1>3 DEF get, At
  <2>4. \A y \in Seq(Nibble) : z # c \o y
    BY <1>1, <2>1, <2>2, PrefixIs
  <2>5. <<i>> \o t \in Seq(Nibble) /\ <<j>> \o u \in Seq(Nibble)
    <3>1. <<i>> \in Seq(Nibble) /\ <<j>> \in Seq(Nibble)
      BY <1>1
    <3>2. QED
      BY <1>1, <3>1, ConcatProperties
  <2>6. z # x
    BY <1>1, <2>4, <2>5
  <2>7. ~IsPrefix(n.path, z)
    <3> SUFFICES ASSUME NEW y \in Seq(Nibble), z = n.path \o y PROVE FALSE
      BY <2>1, PrefixIs
    <3> DEFINE g == <<i>> \o t
    <3>1. g \in Seq(Nibble) /\ c \in Seq(Nibble) /\ z = (c \o g) \o y
      BY <1>1, <2>5
    <3> HIDE DEF g
    <3>2. (c \o g) \o y = c \o (g \o y)
      BY ONLY <3>1, y \in Seq(Nibble), Associated
    <3>3. g \o y \in Seq(Nibble)
      BY <3>1, ConcatProperties
    <3>4. QED
      BY <2>4, <3>1, <3>2, <3>3
  <2>8. <<z, a, Missing>> \in C
    BY <2>6, <2>7, MissingBeside
  <2>9. QED
    BY <2>3, <2>8
<1>8. Within(G, C, s.db, m, a)
  BY <1>2, <1>3, <1>4, <1>7, WithinExtension
<1>9. QED
  BY <1>6, <1>8 DEF Given, m


\* After a failure saveNode leaves the store where it was.
LEMMA LaterNothing ==
  ASSUME NEW G, NEW R, NEW T, NEW B, NEW s, NEW t, Later(G, R, T, B, s, t), ~t.ok, NEW n
  PROVE  Later(G, R, T, B, s, saveNode(t, n).store) /\ ~saveNode(t, n).store.ok
BY NothingSaved DEF Later

\* A leaf or an extension is split: the keys it had find what they found, and
\* the new key its value.
LEMMA SplitChanged ==
  ASSUME NEW G, Frame(G), NEW B, NEW C, Consistent(G, B), Consistent(G, C), NEW R,
         NEW n, NEW a, NEW w, NEW s, Given(G, R, B, n, a, w, s),
         NEW x, LeafAt(G, x, a), NEW v \in Value, Differ(G, B, C, x, a, v),
         n.type \in {"leaf", "extension"}, n.type = "leaf" => n.path # x,
         n.type = "extension" => ~IsPrefix(Path(n), x)
  PROVE  \E T : Changed(G, R, T, B, C, n, a, w, s, Split(s, n, x, v))
<1>1. /\ Sound(G, R, s.db) /\ IsStore(s) /\ Good(G, R, n, a, w) /\ Own(G, R, n, a, w)
      /\ Within(G, B, s.db, n, a) /\ a \in G.places /\ x \in Seq(Nibble) /\ C \subseteq B
  BY GoodIs, OwnKinds, LeafIsPath DEF Given, Differ
<1>2. n.path \in Seq(Nibble) /\ Path(n) = n.path
  <2>1. CASE n.type = "leaf"
    <3>1. n.path \in Seq(Nibble)
      BY <1>1, <2>1, LeafIsPath DEF Own
    <3>2. QED
      BY <3>1, MptAssumption DEF Path
  <2>2. CASE n.type = "extension"
    <3>1. n.path # NoPath
      <4> SUFFICES ASSUME n.path = NoPath PROVE FALSE
        OBVIOUS
      <4>1. Path(n) = <<>>
        BY DEF Path
      <4>2. QED
        BY <1>1, <2>2, <4>1, EmptyPrefix
    <3>2. QED
      BY <1>1, <2>2, <3>1 DEF Own, Path
  <2>3. QED
    BY <2>1, <2>2
<1>3. \/ LeafAt(G, n.path, a) /\ n.path # x
      \/ Step(G, a, n.path) \in G.places /\ ~IsPrefix(n.path, x)
  <2>1. CASE n.type = "leaf"
    BY <1>1, <2>1 DEF Own
  <2>2. CASE n.type = "extension"
    <3>1. n.value \in DOMAIN R /\ Step(G, a, n.path) = R[n.value]
      BY <1>1, <1>2, <2>2, ChildPlace
    <3>2. Step(G, a, n.path) \in G.places
      BY <1>1, <3>1, HashIsKnown
    <3>3. QED
      BY <1>2, <2>2, <3>2
  <2>3. QED
    BY <2>1, <2>2
<1> DEFINE c == findCommonPrefix(n.path, x)
           old == SubSeq(n.path, Len(c) + 1, Len(n.path))
           new == SubSeq(x, Len(c) + 1, Len(x))
           i == Head(old)
           t == Tail(old)
           j == Head(new)
           u == Tail(new)
           b == Step(G, a, c)
           bi == Step(G, b, <<i>>)
           bj == Step(G, b, <<j>>)
           m == [n EXCEPT !.path = t, !.hash = ZeroHash]
           l == LeafNode(u, v)
           ra == saveNode(s, m)
           rb == saveNode(ra.store, l)
           branch == FullNode(Including(Including(<<>>, i, ra.node), j, rb.node))
           rc == saveNode(rb.store, branch)
           e == ExtensionNode(c, rc.node.hash)
           top == IF c = <<>> THEN rc ELSE saveNode(rc.store, e)
           r == Split(s, n, x, v)
<1>4. old # <<>> /\ new # <<>> /\ Parts(G, a, n.path, x, c, i, t, j, u)
  BY <1>1, <1>2, <1>3, SplitParts
<1>5. r = IF top.store.ok THEN top ELSE Result(n, top.store)
  <2> DEFINE one == Result(Including(<<>>, i, ra.node), ra.store)
             two == Result(Including(one.node, j, rb.node), rb.store)
  <2>1. one = WithChild(<<>>, i, ra)
    BY DEF WithChild
  <2>2. r = Settled(n, Extended(c, Branched(NewChild(one, new, v))))
    <3> HIDE DEF c
    <3>1. r = Settled(n, Extended(c, Branched(NewChild(
                IF old = <<>> THEN Result(<<>>, s) ELSE WithChild(<<>>, i, ra), new, v))))
      BY <1>2 DEF Split, c
    <3> HIDE DEF r, one, old, new, i, ra
    <3>2. QED
      BY <1>4, <2>1, <3>1
  <2> HIDE DEF r, c, old, new, i, t, m
  <2>3. one.node = Including(<<>>, i, ra.node) /\ one.store = ra.store
    BY DEF Result
  <2>4. NewChild(one, new, v) = two
    <3>1. NewChild(one, new, v) = WithChild(one.node, j, saveNode(one.store, l))
      BY <1>4 DEF NewChild
    <3> HIDE DEF one, ra, l, j
    <3>2. NewChild(one, new, v) = WithChild(one.node, j, rb)
      BY <2>3, <3>1
    <3> HIDE DEF rb
    <3>3. QED
      BY <3>2 DEF WithChild
  <2> HIDE DEF one, ra, rb, j
  <2>5. two.node = Including(Including(<<>>, i, ra.node), j, rb.node) /\ two.store = rb.store
    BY <2>3 DEF Result
  <2> HIDE DEF two
  <2>6. Branched(two) = rc
    BY <2>5 DEF Branched
  <2> HIDE DEF rc
  <2>7. Extended(c, rc) = top
    BY DEF Extended
  <2> HIDE DEF top
  <2>8. r = Settled(n, top)
    BY <2>2, <2>4, <2>6, <2>7
  <2>9. QED
    BY <2>8 DEF Settled
<1> HIDE DEF r, c, old, new
<1> HIDE DEF i, t, j, u
<1>6. /\ c \in Seq(Nibble) /\ t \in Seq(Nibble) /\ u \in Seq(Nibble)
      /\ i \in Nibble /\ j \in Nibble /\ i # j
      /\ n.path = c \o (<<i>> \o t) /\ x = c \o (<<j>> \o u)
      /\ b \in G.places /\ bi \in G.places /\ bj \in G.places
  BY <1>4 DEF Parts
<1> HIDE DEF top, e, rc, branch, rb, ra, l
<1>7. Good(G, R, m, bi, w) /\ Within(G, C, s.db, m, bi)
  <2> DEFINE q == c \o <<i>>
  <2>1. <<i>> \in Seq(Nibble)
    BY <1>6
  <2>2. q \in Seq(Nibble) /\ \A z \in Seq(Nibble) : q \o z = c \o (<<i>> \o z)
    <3>1. c \in Seq(Nibble)
      BY <1>6
    <3>2. q \in Seq(Nibble)
      BY <2>1, <3>1, ConcatProperties
    <3>3. \A z \in Seq(Nibble) : (c \o <<i>>) \o z = c \o (<<i>> \o z)
      BY <2>1, <3>1, Associated
    <3>4. QED
      BY <3>2, <3>3
  <2>3. bi = Step(G, a, q)
    <3>1. \A z \in Seq(Nibble) : Step(G, b, z) = Step(G, a, c \o z)
      BY <1>1, <1>6 DEF Frame
    <3>2. QED
      BY <2>1, <3>1
  <2>4. q # <<>>
    <3>1. <<i>> # <<>>
      OBVIOUS
    <3>2. QED
      BY <1>6, <2>1, <3>1, ConcatSimplifications
  <2> HIDE DEF q, b, bi
  <2>5. n.path = q \o t
    BY <1>6, <2>2
  <2>6. Good(G, R, m, bi, w) /\ Within(G, B, s.db, m, bi)
    BY <1>1, <1>2, <1>6, <2>2, <2>3, <2>4, <2>5, Shortened
  <2>7. \A z \in Seq(Nibble) : q \o z # x
    <3> TAKE z \in Seq(Nibble)
    <3>1. c \o (<<i>> \o z) # c \o (<<j>> \o u)
      BY <1>6, Different
    <3>2. QED
      BY <1>6, <2>2, <3>1
  <2>8. Agree(G, B, C, bi)
    BY <1>1, <1>6, <2>2, <2>3, <2>7, AgreeAside
  <2>9. Good(G, R, m, bi, "any")
    BY <2>6, KeptIsGood
  <2> HIDE DEF m
  <2>10. Within(G, C, s.db, m, bi)
    BY <1>1, <2>6, <2>8, <2>9, WithinAgree
  <2>11. QED
    BY <2>6, <2>10
<1>8. Given(G, R, C, m, bi, w, s)
  BY <1>1, <1>7 DEF Given
<1> HIDE DEF m
<1>9. Splitting(G, B, C, n, a, x, v, c, i, t, j, u)
  <2>1. Tells(G, B, n, a)
    BY <1>1, WithinIs
  <2>2. QED
    BY <1>2, <1>4, <2>1 DEF Splitting
<1>10. PICK S : Changed(G, R, S, C, C, m, bi, w, s, ra)
  BY <1>8, NodeChanged DEF ra
<1>11. Given(G, S, C, l, bj, w, ra.store)
  <2>1. Sound(G, S, ra.store.db) /\ IsStore(ra.store)
    BY <1>10 DEF Changed, Later
  <2> DEFINE d == ra.store
  <2>2. Sound(G, S, d.db) /\ IsStore(d)
    BY <2>1
  <2> HIDE DEF d
  <2>3. Given(G, S, C, LeafNode(u, v), Step(G, Step(G, a, c), <<j>>), w, d)
    BY <1>9, <2>2, NewLeaf
  <2>4. QED
    BY <2>3 DEF l, d
<1>12. PICK T : Changed(G, S, T, C, C, l, bj, w, ra.store, rb)
  BY <1>11, NodeChanged DEF rb
<1>13. Given(G, T, C, branch, b, w, rb.store) /\ branch.type = "full"
  <2>1. Good(G, T, ra.node, bi, w) /\ Within(G, C, rb.store.db, ra.node, bi)
    <3>1. Later(G, S, T, C, ra.store, rb.store)
      BY <1>12 DEF Changed
    <3>2. Good(G, S, ra.node, bi, w) /\ Within(G, C, ra.store.db, ra.node, bi)
      BY <1>10 DEF Changed
    <3>3. QED
      BY <3>1, <3>2, LastsOn
  <2>2. Good(G, T, rb.node, bj, w) /\ Within(G, C, rb.store.db, rb.node, bj)
    BY <1>12 DEF Changed
  <2> DEFINE d == rb.store
             k == ra.node
             g == rb.node
  <2>3. Sound(G, T, d.db) /\ IsStore(d)
    BY <1>12 DEF Changed, Later
  <2>4. /\ Good(G, T, k, Step(G, Step(G, a, c), <<i>>), w)
        /\ Within(G, C, d.db, k, Step(G, Step(G, a, c), <<i>>))
        /\ Good(G, T, g, Step(G, Step(G, a, c), <<j>>), w)
        /\ Within(G, C, d.db, g, Step(G, Step(G, a, c), <<j>>))
    BY <2>1, <2>2
  <2> HIDE DEF d, k, g
  <2>5. Given(G, T, C, FullNode(Including(Including(<<>>, i, k), j, g)), Step(G, a, c), w, d)
    BY <1>9, <2>3, <2>4, NewBranch
  <2>6. Given(G, T, C, branch, b, w, rb.store)
    BY <2>5 DEF branch, d, k, g
  <2>7. branch.type = "full"
    BY DEF branch, FullNode
  <2>8. QED
    BY <2>6, <2>7
<1>14. PICK U : Changed(G, T, U, C, C, branch, b, w, rb.store, rc)
  BY <1>13, NodeChanged DEF rc
<1>15. Later(G, R, T, B, s, rb.store) /\ Later(G, R, U, B, s, rc.store)
  <2>1. Later(G, R, T, C, s, rb.store) /\ Later(G, T, U, C, rb.store, rc.store)
    BY <1>10, <1>12, <1>14, LaterFurther DEF Changed
  <2>2. Later(G, R, U, C, s, rc.store)
    BY <2>1, LaterFurther
  <2>3. QED
    BY <1>1, <2>1, <2>2, LaterLess
<1> HIDE DEF b, bi, bj
<1>16. CASE c = <<>>
  <2>1. top = rc
    BY <1>16 DEF top
  <2>2. b = a
    BY <1>1, <1>16 DEF Frame, b
  <2>3. CASE rc.store.ok
    <3>1. r = rc
      BY <1>5, <2>1, <2>3
    <3>2. Changed(G, T, U, C, C, branch, a, w, rb.store, r)
      BY <1>14, <2>2, <3>1
    <3>3. Changed(G, R, U, B, C, n, a, w, s, r)
      BY <1>1, <1>15, <3>2, ChangedAfter
    <3>4. QED
      BY <3>3 DEF r
  <2>4. CASE ~rc.store.ok
    <3>1. r = Result(n, rc.store)
      BY <1>5, <2>1, <2>4
    <3>2. Changed(G, R, U, B, C, n, a, w, s, r)
      BY <1>1, <1>15, <2>4, <3>1, ChangedNot
    <3>3. QED
      BY <3>2 DEF r
  <2>5. QED
    BY <2>3, <2>4
<1>17. CASE c # <<>>
  <2>1. top = saveNode(rc.store, e)
    BY <1>17 DEF top
  <2>2. CASE ~rc.store.ok
    <3>1. Later(G, R, U, B, s, top.store) /\ ~top.store.ok
      BY <1>15, <2>1, <2>2, LaterNothing
    <3>2. r = Result(n, top.store)
      BY <1>5, <3>1
    <3>3. Changed(G, R, U, B, C, n, a, w, s, r)
      BY <1>1, <3>1, <3>2, ChangedNot
    <3>4. QED
      BY <3>3 DEF r
  <2>3. CASE rc.store.ok
    <3>1. /\ Sound(G, U, rc.store.db) /\ IsStore(rc.store) /\ Good(G, U, rc.node, b, w)
          /\ rc.node.type = "full" /\ Reached(G, U, C, rc.store.db, rc.node.hash, b)
      BY <1>13, <1>14, <2>3 DEF Changed, Later
    <3>2. rc.node.hash.type = "full"
      BY <3>1, HashKind
    <3> DEFINE h == rc.node.hash
    <3> HIDE DEF h
    <3>4. Given(G, U, C, e, a, w, rc.store)
      <4> DEFINE d == rc.store
      <4>1. Reached(G, U, C, d.db, h, Step(G, a, c)) /\ h.type = "full"
            /\ Sound(G, U, d.db) /\ IsStore(d)
        BY <3>1, <3>2 DEF h, b
      <4> HIDE DEF d
      <4>2. Given(G, U, C, ExtensionNode(c, h), a, w, d)
        BY <1>9, <4>1, NewTop
      <4>3. QED
        BY <4>2 DEF e, h, d
    <3>5. PICK V : Changed(G, U, V, C, C, e, a, w, rc.store, top)
      BY <2>1, <3>4, NodeChanged
    <3>6. CASE top.store.ok
      <4>1. r = top
        BY <1>5, <3>6
      <4>2. Changed(G, R, V, B, C, n, a, w, s, r)
        BY <1>1, <1>15, <3>5, <4>1, ChangedAfter
      <4>3. QED
        BY <4>2 DEF r
    <3>7. CASE ~top.store.ok
      <4>1. r = Result(n, top.store)
        BY <1>5, <3>7
      <4>2. Later(G, U, V, B, rc.store, top.store)
        BY <1>1, <3>5, LaterLess DEF Changed
      <4>3. Later(G, R, V, B, s, top.store)
        BY <1>15, <4>2, LaterFurther
      <4>4. Changed(G, R, V, B, C, n, a, w, s, r)
        BY <1>1, <3>7, <4>1, <4>3, ChangedNot
      <4>5. QED
        BY <4>4 DEF r
    <3>8. QED
      BY <3>6, <3>7
  <2>4. QED
    BY <2>2, <2>3
<1>18. QED
  BY <1>16, <1>17


LEMMA NibblesFinite == IsFiniteSet(Nibble)
<1>1. IsFiniteSet(0..15)
  <2>1. 0 \in Int /\ 15 \in Int
    OBVIOUS
  <2>2. QED
    BY ONLY <2>1, FS_Interval
<1>2. QED
  BY <1>1 DEF Nibble

LEMMA HeadOf ==
  ASSUME NEW i \in Nibble, NEW z \in Seq(Nibble)
  PROVE  Head(<<i>> \o z) = i /\ Tail(<<i>> \o z) = z /\ <<i>> \o z # <<>>
<1>1. <<i>> \in Seq(Nibble) /\ Len(<<i>>) = 1 /\ Len(z) \in Nat
  OBVIOUS
<1> DEFINE y == <<i>> \o z
<1>2. y \in Seq(Nibble) /\ Len(y) = 1 + Len(z) /\ y[1] = i
      /\ \A k \in 1..Len(z) : y[k + 1] = z[k]
  BY <1>1, ConcatProperties
<1> HIDE DEF y
<1>3. y # <<>>
  BY <1>1, <1>2
<1>4. Head(y) = i /\ Tail(y) \in Seq(Nibble) /\ Len(Tail(y)) = Len(z)
      /\ \A k \in 1..Len(Tail(y)) : Tail(y)[k] = y[k + 1]
  BY <1>1, <1>2, <1>3, HeadTailProperties
<1>5. Tail(y) = z
  BY <1>1, <1>2, <1>4, SeqEqual
<1>6. QED
  BY <1>3, <1>4, <1>5 DEF y



-----------------------------------------------------------------------------
(* Putting.                                                                *)

\* A call of insert for n at a: the key with rest x gets v.
ToInsert(G, R, B, C, n, a, w, s, x, v) ==
  /\ Given(G, R, B, n, a, w, s)
  /\ w = "any" => Fresh(n)
  /\ Consistent(G, B) /\ Consistent(G, C)
  /\ LeafAt(G, x, a) /\ v \in Value /\ Differ(G, B, C, x, a, v)

\* The hash of a node that is changed in place says nothing of its children.
LEMMA OldHash ==
  ASSUME NEW G, NEW R, NEW T, Extends(R, T), NEW n, NEW a, NEW w, Own(G, R, n, a, w),
         w = "any" => Fresh(n)
  PROVE  \/ n.hash = ZeroHash
         \/ n.hash.type = n.type /\ Fits(G, T, n.hash, a) /\ ~Wrapping(n.hash)
<1>1. CASE n.hash = ZeroHash
  BY <1>1
<1>2. CASE n.hash # ZeroHash
  <2>1. w # "any"
    BY <1>2 DEF Fresh
  <2>2. n.hash.type = n.type /\ Fits(G, R, n.hash, a) /\ ~Wrapping(n.hash)
    BY <1>2, <2>1 DEF Own
  <2>3. QED
    BY <2>2, FitsGrows
<1>3. QED
  BY <1>1, <1>2

\* A leaf with the key's path gets the new value.
LEMMA LeafInserted ==
  ASSUME NEW G, Frame(G), NEW R, NEW B, NEW C, NEW n, NEW a, NEW w, NEW s, NEW x, NEW v,
         ToInsert(G, R, B, C, n, a, w, s, x, v), n.type = "leaf", n.path = x
  PROVE  \E T : Changed(G, R, T, B, C, n, a, w, s, saveNode(s, [n EXCEPT !.value = v]))
<1> DEFINE m == [n EXCEPT !.value = v]
<1>1. /\ Sound(G, R, s.db) /\ IsStore(s) /\ Good(G, R, n, a, w) /\ Own(G, R, n, a, w)
      /\ Within(G, B, s.db, n, a) /\ a \in G.places /\ C \subseteq B
      /\ Tells(G, B, n, a) /\ LeafAt(G, x, a) /\ x \in Seq(Nibble) /\ v \in Value
  <2>1. /\ Sound(G, R, s.db) /\ IsStore(s) /\ Good(G, R, n, a, w) /\ Within(G, B, s.db, n, a)
        /\ LeafAt(G, x, a) /\ v \in Value /\ C \subseteq B
    BY DEF ToInsert, Given, Differ
  <2>2. Own(G, R, n, a, w) /\ Tells(G, B, n, a)
    BY <2>1, GoodIs, WithinIs
  <2>3. QED
    BY <2>1, <2>2, LeafIsPath
<1>2. /\ m = [type |-> "leaf", path |-> n.path, value |-> v, hash |-> n.hash]
      /\ m.type = "leaf" /\ m.path = x /\ m.value = v /\ m.hash = n.hash
  <2>1. n = [type |-> "leaf", path |-> n.path, value |-> n.value, hash |-> n.hash]
    BY <1>1 DEF Own
  <2>2. PICK p, z, h : n = [type |-> "leaf", path |-> p, value |-> z, hash |-> h]
    BY <2>1
  <2>3. n.path = p /\ n.hash = h
    BY <2>2
  <2>4. m = [type |-> "leaf", path |-> p, value |-> v, hash |-> h]
    BY <2>2
  <2>5. QED
    BY <2>3, <2>4
<1> HIDE DEF m
<1>3. \/ n.hash = ZeroHash
      \/ n.hash.type = n.type /\ Fits(G, R, n.hash, a) /\ ~Wrapping(n.hash)
  <2>1. Extends(R, R) /\ (w = "any" => Fresh(n))
    BY ExtendsItself DEF ToInsert
  <2>2. QED
    BY <1>1, <2>1, OldHash
<1>4. Own(G, R, m, a, w)
  BY <1>1, <1>2, <1>3 DEF Own
<1>5. Good(G, R, m, a, w)
  BY <1>2, <1>4, GoodIs
<1>6. Tells(G, C, m, a)
  <2> SUFFICES ASSUME NEW z, LeafAt(G, z, a) PROVE <<z, a, get(At(m, z))>> \in C
    BY DEF Tells
  <2>1. z \in Seq(Nibble)
    BY LeafIsPath
  <2>2. ~Continues(At(m, z)) /\ ~Continues(At(n, z))
    BY <1>2 DEF Continues, HasChild, At
  <2>3. CASE z = x
    <3>1. get(At(m, z)) = v
      BY <1>2, <2>2, <2>3 DEF get, At
    <3>2. QED
      BY <2>3, <3>1 DEF ToInsert, Differ
  <2>4. CASE z # x
    <3>1. Len(x) = Len(z)
      BY <1>1, <2>1 DEF Frame
    <3>2. x # <<>>
      <4>1. Len(<<>>) = 0
        OBVIOUS
      <4>2. QED
        BY <2>1, <2>4, <3>1, <4>1, EmptySeq
    <3>3. get(At(m, z)) = Missing /\ get(At(n, z)) = Missing
      BY <1>2, <2>2, <2>4, <3>2 DEF get, At
    <3>4. <<z, a, Missing>> \in B
      BY <1>1, <2>2, <3>3 DEF Tells
    <3>5. QED
      BY <2>4, <3>3, <3>4 DEF ToInsert, Differ
  <2>5. QED
    BY <2>3, <2>4
<1>7. Within(G, C, s.db, m, a)
  <2>1. Below(G, s.db, m, a) = {}
    BY <1>2 DEF Below
  <2>2. QED
    BY <1>6, <2>1, WithinIs
<1>8. PICK T : Changed(G, R, T, C, C, m, a, w, s, saveNode(s, m))
  BY <1>1, <1>5, <1>7, NodeChanged DEF Given
<1>9. Changed(G, R, T, B, C, n, a, w, s, saveNode(s, m))
  BY <1>1, <1>8, LaterItself, ChangedAfter
<1>10. QED
  BY <1>9 DEF m

\* D allows what B allows for the keys whose next nibble is not i.
Others(G, B, D, i, a) ==
  \A z, y : LeafAt(G, z, a) /\ Head(z) # i /\ <<z, a, y>> \in B => <<z, a, y>> \in D

\* A full node gets child k at nibble i.
LEMMA ChildTaken ==
  ASSUME NEW G, Frame(G), NEW R, NEW B, NEW D, Consistent(G, B), Consistent(G, D),
         NEW n, NEW a, NEW w, Good(G, R, n, a, w), w = "any" => Fresh(n), n.type = "full",
         NEW s, Within(G, B, s.db, n, a), NEW T, NEW d, Later(G, R, T, B, s, d),
         NEW i \in Nibble, Step(G, a, <<i>>) \in G.places, Others(G, B, D, i, a),
         NEW k, Good(G, T, k, Step(G, a, <<i>>), w), Within(G, D, d.db, k, Step(G, a, <<i>>))
  PROVE  Given(G, T, D, [n EXCEPT !.children = Including(@, i, k)], a, w, d)
<1> DEFINE ch == Including(n.children, i, k)
           m == [n EXCEPT !.children = Including(@, i, k)]
<1>1. Own(G, R, n, a, w) /\ a \in G.places /\ Tells(G, B, n, a) /\ Sound(G, T, d.db) /\ IsStore(d)
      /\ Extends(R, T)
  BY GoodIs, OwnKinds, WithinIs DEF Later
<1>2. /\ DOMAIN n.children \subseteq Nibble /\ Cardinality(DOMAIN n.children) > 1
      /\ \A j \in DOMAIN n.children : Step(G, a, <<j>>) \in G.places
      /\ \E c, h : n = [type |-> "full", children |-> c, hash |-> h]
  BY <1>1 DEF Own
<1>3. /\ DOMAIN ch = DOMAIN n.children \cup {i} /\ ch[i] = k
      /\ ch = [j \in DOMAIN ch |-> ch[j]]
      /\ \A j \in DOMAIN n.children : j # i => ch[j] = n.children[j]
  <2>1. DOMAIN ch = DOMAIN n.children \cup {i}
    BY DEF Including
  <2>2. ch[i] = k
    BY DEF Including
  <2>3. ch = [j \in DOMAIN ch |-> ch[j]]
    BY DEF Including
  <2>4. \A j \in DOMAIN n.children : j # i => ch[j] = n.children[j]
    BY DEF Including
  <2>5. QED
    BY <2>1, <2>2, <2>3, <2>4
<1>4. m.type = "full" /\ m.children = ch /\ m.hash = n.hash
      /\ m = [type |-> "full", children |-> ch, hash |-> n.hash]
  <2>1. PICK c, h : n = [type |-> "full", children |-> c, hash |-> h]
    BY <1>2
  <2>2. n.children = c /\ n.hash = h
    BY <2>1
  <2>3. m = [n EXCEPT !.children = ch]
    BY <2>2
  <2> HIDE DEF m, ch
  <2>4. m = [type |-> "full", children |-> ch, hash |-> h]
    BY <2>1, <2>3
  <2>5. QED
    BY <2>2, <2>4
<1> HIDE DEF m, ch
<1>5. Cardinality(DOMAIN ch) > 1
  <2>1. IsFiniteSet(Nibble)
    BY NibblesFinite
  <2>2. DOMAIN ch \subseteq Nibble /\ DOMAIN n.children \subseteq DOMAIN ch
    BY <1>2, <1>3
  <2>3. IsFiniteSet(DOMAIN ch) /\ IsFiniteSet(DOMAIN n.children)
    BY <1>2, <2>1, <2>2, FS_Subset
  <2>4. Cardinality(DOMAIN n.children) <= Cardinality(DOMAIN ch)
    BY <2>2, <2>3, FS_Subset
  <2>5. Cardinality(DOMAIN n.children) \in Nat /\ Cardinality(DOMAIN ch) \in Nat
    BY <2>3, FS_CardinalityType
  <2>6. QED
    BY <1>2, <2>4, <2>5
<1>6. \/ m.hash = ZeroHash
      \/ m.hash.type = m.type /\ Fits(G, T, m.hash, a) /\ ~Wrapping(m.hash)
  BY <1>1, <1>4, OldHash
<1>7. Own(G, T, m, a, w)
  BY <1>1, <1>2, <1>3, <1>4, <1>5, <1>6 DEF Own
<1>8. \A j \in DOMAIN n.children :
        Good(G, R, n.children[j], Step(G, a, <<j>>), w)
        /\ Within(G, B, s.db, n.children[j], Step(G, a, <<j>>))
  BY GoodIs, WithinFull
<1>9. ASSUME NEW j \in DOMAIN ch
      PROVE  Good(G, T, ch[j], Step(G, a, <<j>>), w) /\ Within(G, D, d.db, ch[j], Step(G, a, <<j>>))
  <2>1. CASE j = i
    BY <1>3, <2>1
  <2>2. CASE j # i
    <3> DEFINE b == Step(G, a, <<j>>)
    <3>1. j \in DOMAIN n.children /\ ch[j] = n.children[j] /\ b \in G.places
          /\ j \in Nibble /\ <<j>> \in Seq(Nibble)
      BY <1>2, <1>3, <1>9, <2>2
    <3>2. Good(G, R, n.children[j], b, w) /\ Within(G, B, s.db, n.children[j], b)
      BY <1>8, <3>1
    <3> HIDE DEF b
    <3>3. Good(G, T, ch[j], b, w) /\ Within(G, B, d.db, ch[j], b)
      BY <3>1, <3>2, LastsOn
    <3>4. Agree(G, B, D, b)
      <4> SUFFICES ASSUME NEW z, NEW y, LeafAt(G, z, b), <<z, b, y>> \in B PROVE <<z, b, y>> \in D
        BY DEF Agree
      <4>1. z \in Seq(Nibble)
        BY LeafIsPath
      <4>2. Head(<<j>> \o z) = j
        BY <3>1, <4>1, HeadOf
      <4>3. LeafAt(G, <<j>> \o z, a)
        BY <1>1, <3>1, <4>1, LeafBelow DEF b
      <4>4. <<<<j>> \o z, a, y>> \in B
        BY <1>1, <3>1 DEF Consistent, b
      <4>5. <<<<j>> \o z, a, y>> \in D
        BY <2>2, <4>2, <4>3, <4>4 DEF Others
      <4>6. QED
        BY <1>1, <3>1, <4>5 DEF Consistent, b
    <3>5. Good(G, T, ch[j], b, "any")
      BY <3>3, KeptIsGood
    <3>6. Within(G, D, d.db, ch[j], b)
      BY <1>1, <3>3, <3>4, <3>5, WithinAgree
    <3>7. QED
      BY <3>3, <3>6 DEF b
  <2>3. QED
    BY <2>1, <2>2
<1>10. Good(G, T, m, a, w)
  BY <1>4, <1>7, <1>9, GoodIs
<1>11. Tells(G, D, m, a)
  <2> SUFFICES ASSUME NEW z, LeafAt(G, z, a), ~Continues(At(m, z))
               PROVE  <<z, a, get(At(m, z))>> \in D
    BY DEF Tells
  <2>1. z # <<>>
    BY <1>1, KeysGoOn
  <2>2. Head(z) # i /\ ~Continues(At(n, z))
    BY <1>3, <1>4, <2>1 DEF Continues, HasChild, At
  <2>3. get(At(m, z)) = Missing /\ get(At(n, z)) = Missing
    BY <1>4, <2>1, <2>2 DEF get, At
  <2>4. <<z, a, Missing>> \in B
    BY <1>1, <2>2, <2>3 DEF Tells
  <2>5. QED
    BY <2>2, <2>3, <2>4 DEF Others
<1>12. Within(G, D, d.db, m, a)
  BY <1>4, <1>9, <1>11, WithinFull
<1>13. QED
  BY <1>1, <1>10, <1>12 DEF Given, m


\* An extension names another node, at the place of its child.
LEMMA Repointed ==
  ASSUME NEW G, Frame(G), NEW R, NEW T, Extends(R, T), NEW B, NEW C, NEW n, NEW a, NEW w,
         Good(G, R, n, a, w), w = "any" => Fresh(n), n.type = "extension", Tells(G, B, n, a),
         NEW x \in Seq(Nibble), NEW v, Differ(G, B, C, x, a, v), IsPrefix(Path(n), x),
         NEW d, Sound(G, T, d.db), IsStore(d),
         NEW h, n.value.type = "full" => h.type = "full",
         Reached(G, T, C, d.db, h, Step(G, a, Path(n)))
  PROVE  Given(G, T, C, [n EXCEPT !.value = h], a, w, d)
<1> DEFINE m == [n EXCEPT !.value = h]
<1>1. Own(G, R, n, a, w) /\ a \in G.places
  BY GoodIs, OwnKinds
<1>2. /\ m = [type |-> "extension", path |-> n.path, value |-> h, hash |-> n.hash]
      /\ m.type = "extension" /\ m.path = n.path /\ m.value = h /\ m.hash = n.hash
  <2>1. n = [type |-> "extension", path |-> n.path, value |-> n.value, hash |-> n.hash]
    BY <1>1 DEF Own
  <2>2. PICK p, z, g : n = [type |-> "extension", path |-> p, value |-> z, hash |-> g]
    BY <2>1
  <2>3. n.path = p /\ n.hash = g
    BY <2>2
  <2>4. m = [type |-> "extension", path |-> p, value |-> h, hash |-> g]
    BY <2>2
  <2>5. QED
    BY <2>3, <2>4
<1> HIDE DEF m
<1>3. Path(m) = Path(n)
  BY <1>2 DEF Path
<1>4. /\ h \in DOMAIN T /\ T[h] = Step(G, a, Path(n))
      /\ Within(G, C, d.db, LoadNode(d.db, h), Step(G, a, Path(n)))
  BY ReachedIs
<1>5. \/ m.hash = ZeroHash
      \/ m.hash.type = m.type /\ Fits(G, T, m.hash, a) /\ ~Wrapping(m.hash)
  BY <1>1, <1>2, OldHash
<1>6. Own(G, T, m, a, w)
  <2>1. CASE n.path = NoPath
    <3>1. Path(n) = <<>>
      BY <2>1 DEF Path
    <3>2. T[h] = a
      BY <1>1, <1>4, <3>1 DEF Frame
    <3>3. w = "any"
      BY <1>1, <2>1, MptAssumption DEF Own
    <3>4. QED
      BY <1>1, <1>2, <1>4, <1>5, <2>1, <3>2, <3>3 DEF Own
  <2>2. CASE n.path # NoPath
    <3>1. n.path \in Seq(Nibble) /\ n.value.type = "full" /\ Path(n) = n.path
      BY <1>1, <2>2 DEF Own, Path
    <3>2. QED
      BY <1>1, <1>2, <1>4, <1>5, <3>1 DEF Own
  <2>3. QED
    BY <2>1, <2>2
<1>7. Good(G, T, m, a, w)
  BY <1>2, <1>6, GoodIs
<1>8. Tells(G, C, m, a)
  <2> SUFFICES ASSUME NEW z, LeafAt(G, z, a), ~Continues(At(m, z))
               PROVE  <<z, a, get(At(m, z))>> \in C
    BY DEF Tells
  <2>1. ~IsPrefix(Path(n), z) /\ ~Continues(At(n, z))
    BY <1>2, <1>3 DEF Continues, HasChild, At
  <2>2. get(At(m, z)) = Missing /\ get(At(n, z)) = Missing
    BY <1>2, <2>1 DEF get, At
  <2>3. <<z, a, Missing>> \in B /\ z # x
    BY <2>1, <2>2 DEF Tells
  <2>4. QED
    BY <2>2, <2>3 DEF Differ
<1>9. Within(G, C, d.db, m, a)
  BY <1>2, <1>3, <1>4, <1>8, WithinExtension
<1>10. QED
  BY <1>7, <1>9 DEF Given, m

\* The hash of a node that has one.
LEMMA HashHad ==
  ASSUME NEW n, n.hash # ZeroHash,
         n.type = "full" => n = [type |-> "full", children |-> n.children, hash |-> n.hash]
  PROVE  GetHash(n).hash = n.hash
<1>1. CASE n.type # "full"
  <2>1. Serialize(n) = n
    BY <1>1 DEF Serialize
  <2>2. QED
    BY <2>1 DEF GetHash, Hashed
<1>2. CASE n.type = "full"
  <2>1. PICK c, h : n = [type |-> "full", children |-> c, hash |-> h]
    BY <1>2
  <2> DEFINE e == [i \in DOMAIN n.children |-> Hashed(n.children[i])]
             m == Serialize(n)
  <2>2. m = [n EXCEPT !.children = e]
    BY <1>2 DEF Serialize
  <2> HIDE DEF e, m
  <2>3. m.hash = n.hash
    BY <2>1, <2>2
  <2>4. QED
    BY <2>3 DEF GetHash, Hashed, m
<1>3. QED
  BY <1>1, <1>2

LEMMA HashReached ==
  ASSUME NEW G, NEW R, NEW database, Sound(G, R, database), NEW n, NEW a, NEW w,
         Good(G, R, n, a, w), NEW C, NEW d, Reached(G, R, C, d, n.hash, a)
  PROVE  GetHash(n).hash = n.hash /\ n.hash.type = n.type
<1>1. n.hash # ZeroHash /\ n.hash.type = n.type
  BY HashKind
<1>2. Own(G, R, n, a, w)
  BY GoodIs
<1>3. n.type = "full" => n = [type |-> "full", children |-> n.children, hash |-> n.hash]
  BY <1>2 DEF Own
<1>4. QED
  BY <1>1, <1>3, HashHad

\* The key's path behind the path of an extension.
LEMMA AfterPath ==
  ASSUME NEW n, Path(n) \in Seq(Nibble), NEW x \in Seq(Nibble), IsPrefix(Path(n), x)
  PROVE  After(n, x) \in Seq(Nibble) /\ x = Path(n) \o After(n, x)
BY RestOfPath DEF After

\* The calls of f do what insert should.
Inserter(G, f) ==
  \A x \in DOMAIN f : \A R, B, C, a, w :
    ToInsert(G, R, B, C, x.node, a, w, x.store, x.nibbles, x.value)
      => \E T : Changed(G, R, T, B, C, x.node, a, w, x.store, f[x])

LEMMA CallInserts ==
  ASSUME NEW G, NEW R, NEW B, NEW C, NEW n, NEW a, NEW w, NEW s, NEW x, NEW v,
         ToInsert(G, R, B, C, n, a, w, s, x, v), NEW f, Inserter(G, f)
  PROVE  \E T : Changed(G, R, T, B, C, n, a, w, s, Call(f, Task(n, x, v, s)))
<1> DEFINE y == Task(n, x, v, s)
<1>1. y.node = n /\ y.store = s /\ y.nibbles = x /\ y.value = v
  BY DEF Task
<1> HIDE DEF y
<1>2. CASE y \in DOMAIN f
  <2>1. Call(f, y) = f[y]
    BY <1>2 DEF Call
  <2>2. QED
    BY <1>1, <1>2, <2>1 DEF Inserter, y
<1>3. CASE y \notin DOMAIN f
  <2> DEFINE t == [Fail(s) EXCEPT !.exceeded = TRUE]
  <2>1. Call(f, y) = Result(n, t)
    BY <1>1, <1>3 DEF Call
  <2>2. Sound(G, R, s.db) /\ IsStore(s) /\ Good(G, R, n, a, w) /\ Within(G, B, s.db, n, a)
    BY DEF ToInsert, Given
  <2>3. IsStore(t) /\ t.db = s.db /\ ~t.ok
    BY <2>2, Failing
  <2> HIDE DEF t
  <2>4. Later(G, R, R, B, s, t)
    BY <2>2, <2>3, ExtendsItself, KeepsItself DEF Later
  <2>5. Changed(G, R, R, B, C, n, a, w, s, Result(n, t))
    BY <2>2, <2>3, <2>4, ChangedNot
  <2>6. QED
    BY <2>1, <2>5 DEF y
<1>4. QED
  BY <1>2, <1>3

\* Below an extension.
LEMMA ExtensionInserted ==
  ASSUME NEW G, Frame(G), NEW f, Inserter(G, f), NEW R, NEW B, NEW C, NEW n, NEW a, NEW w,
         NEW s, NEW x, NEW v, ToInsert(G, R, B, C, n, a, w, s, x, v),
         n.type = "extension", IsPrefix(Path(n), x)
  PROVE  LET child == LoadNode(s.db, n.value)
             c == Call(f, Task(child, After(n, x), v, s))
             r == IF ~c.store.ok THEN Result(n, c.store)
                  ELSE saveNode(c.store, [n EXCEPT !.value = GetHash(c.node).hash])
         IN  child # Nil /\ \E T : Changed(G, R, T, B, C, n, a, w, s, r)
<1> DEFINE child == LoadNode(s.db, n.value)
           q == After(n, x)
           c == Call(f, Task(child, q, v, s))
           m == [n EXCEPT !.value = GetHash(c.node).hash]
           r == IF ~c.store.ok THEN Result(n, c.store) ELSE saveNode(c.store, m)
           b == Step(G, a, Path(n))
<1>1. /\ Sound(G, R, s.db) /\ IsStore(s) /\ Good(G, R, n, a, w)
      /\ Within(G, B, s.db, n, a) /\ C \subseteq B
      /\ LeafAt(G, x, a) /\ v \in Value /\ Consistent(G, B) /\ Consistent(G, C)
      /\ Differ(G, B, C, x, a, v)
  BY DEF ToInsert, Given, Differ
<1>2. w = "any" => Fresh(n)
  BY DEF ToInsert
<1>3. Own(G, R, n, a, w) /\ Tells(G, B, n, a) /\ a \in G.places /\ x \in Seq(Nibble)
  BY <1>1, GoodIs, WithinIs, OwnKinds, LeafIsPath
<1>4. n.value \in DOMAIN R /\ Path(n) \in Seq(Nibble) /\ b = R[n.value]
  BY <1>3, ChildPlace
<1>5. /\ Good(G, R, child, b, "any") /\ Fresh(child) /\ child # Nil
      /\ child.type = n.value.type /\ b \in G.places
  BY <1>1, <1>4, Loaded
<1>6. Within(G, B, s.db, child, b)
  BY <1>1, WithinExtension
<1>7. q \in Seq(Nibble) /\ x = Path(n) \o q
  BY <1>3, <1>4, AfterPath
<1>8. Differ(G, B, C, q, b, v) /\ LeafAt(G, q, b)
  BY <1>1, <1>3, <1>4, <1>5, <1>7, DifferBelow
<1> HIDE DEF child, q
<1>9. ToInsert(G, R, B, C, child, b, "any", s, q, v)
  BY <1>1, <1>5, <1>6, <1>8 DEF ToInsert, Given
<1>10. PICK T : Changed(G, R, T, B, C, child, b, "any", s, c)
  BY <1>9, CallInserts
<1> HIDE DEF c
<1>11. CASE ~c.store.ok
  <2>1. r = Result(n, c.store)
    BY <1>11
  <2>2. Changed(G, R, T, B, C, n, a, w, s, Result(n, c.store))
    BY <1>1, <1>10, <1>11, ChangedNot DEF Changed
  <2>3. QED
    BY <1>5, <2>1, <2>2 DEF child, c, q
<1>12. CASE c.store.ok
  <2>1. /\ Later(G, R, T, B, s, c.store) /\ Good(G, T, c.node, b, "any")
        /\ Reached(G, T, C, c.store.db, c.node.hash, b)
        /\ child.type = "full" => c.node.type = "full"
    BY <1>10, <1>12 DEF Changed
  <2>2. Sound(G, T, c.store.db) /\ IsStore(c.store) /\ Extends(R, T)
    BY <2>1 DEF Later
  <2> DEFINE h == c.node.hash
             d == c.store
  <2>3. GetHash(c.node).hash = h /\ h.type = c.node.type
    BY <2>1, <2>2, HashReached
  <2>4. /\ Reached(G, T, C, d.db, h, Step(G, a, Path(n))) /\ Sound(G, T, d.db) /\ IsStore(d)
        /\ n.value.type = "full" => h.type = "full"
    BY <1>5, <2>1, <2>2, <2>3
  <2>5. m = [n EXCEPT !.value = h] /\ r = saveNode(d, m)
    BY <1>12, <2>3
  <2> HIDE DEF h, d, m, r, b
  <2>6. Given(G, T, C, [n EXCEPT !.value = h], a, w, d)
    BY <1>1, <1>2, <1>3, <2>2, <2>4, Repointed
  <2>7. Given(G, T, C, m, a, w, d)
    BY <2>5, <2>6
  <2>8. PICK U : Changed(G, T, U, C, C, m, a, w, d, r)
    BY <2>5, <2>7, NodeChanged
  <2>9. Later(G, R, T, B, s, d)
    BY <2>1 DEF d
  <2>10. Changed(G, R, U, B, C, n, a, w, s, r)
    BY <1>1, <2>8, <2>9, ChangedAfter
  <2>11. QED
    BY <1>5, <2>10 DEF child, r, m, c, q
<1>13. QED
  BY <1>11, <1>12


\* A new leaf below a full node that has no child for the key's next nibble.
LEMMA LeafAdded ==
  ASSUME NEW G, Frame(G), NEW B, NEW C, Consistent(G, C), NEW n, n.type = "full", NEW a,
         a \in G.places, Tells(G, B, n, a),
         NEW x, LeafAt(G, x, a), x # <<>>, Head(x) \notin DOMAIN n.children,
         Step(G, a, <<Head(x)>>) \in G.places, LeafAt(G, Tail(x), Step(G, a, <<Head(x)>>)),
         NEW v \in Value, Differ(G, B, C, x, a, v),
         NEW R, NEW w, NEW s, Sound(G, R, s.db), IsStore(s)
  PROVE  Given(G, R, C, LeafNode(Tail(x), v), Step(G, a, <<Head(x)>>), w, s)
<1> DEFINE i == Head(x)
           u == Tail(x)
           b == Step(G, a, <<i>>)
           m == LeafNode(u, v)
<1>1. /\ x \in Seq(Nibble) /\ i \in Nibble /\ u \in Seq(Nibble)
      /\ <<i>> \in Seq(Nibble) /\ x = <<i>> \o u
  BY LeafIsPath, FirstAndRest
<1>2. b \in G.places /\ LeafAt(G, u, b)
  OBVIOUS
<1> HIDE DEF i, u
<1>3. m.type = "leaf" /\ m.path = u /\ m.value = v /\ m.hash = ZeroHash
      /\ m = [type |-> "leaf", path |-> u, value |-> v, hash |-> ZeroHash]
  BY DEF LeafNode
<1> HIDE DEF m, b
<1>4. Own(G, R, m, b, w)
  BY <1>1, <1>2, <1>3 DEF Own
<1>5. Good(G, R, m, b, w)
  BY <1>3, <1>4, GoodIs
<1>6. Tells(G, C, m, b)
  <2> SUFFICES ASSUME NEW z, LeafAt(G, z, b) PROVE <<z, b, get(At(m, z))>> \in C
    BY DEF Tells
  <2>1. z \in Seq(Nibble)
    BY LeafIsPath
  <2>2. ~Continues(At(m, z))
    BY <1>3 DEF Continues, HasChild, At
  <2> DEFINE y == <<i>> \o z
  <2>3. LeafAt(G, y, a) /\ Head(y) = i /\ Tail(y) = z /\ y # <<>>
    BY <1>1, <1>2, <2>1, LeafBelow, HeadOf DEF b
  <2>4. \A k : <<z, b, k>> \in C <=> <<y, a, k>> \in C
    BY <1>1, <1>2 DEF Consistent, b
  <2> HIDE DEF y
  <2>5. CASE z = u
    <3>1. get(At(m, z)) = v
      BY <1>3, <2>2, <2>5 DEF get, At
    <3>2. y = x
      BY <1>1, <2>5 DEF y
    <3>3. QED
      BY <2>4, <3>1, <3>2 DEF Differ
  <2>6. CASE z # u
    <3>1. Len(u) = Len(z)
      BY <1>1, <1>2, <2>1 DEF Frame
    <3>2. u # <<>>
      <4>1. Len(<<>>) = 0
        OBVIOUS
      <4>2. QED
        BY <2>1, <2>6, <3>1, <4>1, EmptySeq
    <3>3. get(At(m, z)) = Missing
      BY <1>3, <2>2, <2>6, <3>2 DEF get, At
    <3>4. ~Continues(At(n, y))
      BY <2>3 DEF Continues, HasChild, At, i
    <3>5. get(At(n, y)) = Missing
      BY <2>3, <3>4 DEF get, At
    <3>6. <<y, a, Missing>> \in B
      BY <2>3, <3>4, <3>5 DEF Tells
    <3>7. y # x
      BY <2>3, <2>6 DEF u
    <3>8. QED
      BY <2>3, <2>4, <3>3, <3>6, <3>7 DEF Differ
  <2>7. QED
    BY <2>5, <2>6
<1>7. Within(G, C, s.db, m, b)
  <2>1. Below(G, s.db, m, b) = {}
    BY <1>3 DEF Below
  <2>2. QED
    BY <1>6, <2>1, WithinIs
<1>8. QED
  BY <1>5, <1>7 DEF Given, m, b, i, u

\* Below a full node.
LEMMA FullInserted ==
  ASSUME NEW G, Frame(G), NEW f, Inserter(G, f), NEW R, NEW B, NEW C, NEW n, NEW a, NEW w,
         NEW s, NEW x, NEW v, ToInsert(G, R, B, C, n, a, w, s, x, v), n.type = "full"
  PROVE  LET idx == Head(x)
             new == idx \notin DOMAIN n.children
             b == IF new THEN saveNode(s, LeafNode(Tail(x), v))
                  ELSE Call(f, Task(n.children[idx], Tail(x), v, s))
             r == IF new /\ ~b.store.ok THEN Result(n, b.store)
                  ELSE saveNode(b.store, [n EXCEPT !.children = Including(@, idx, b.node)])
         IN  x # <<>> /\ \E T : Changed(G, R, T, B, C, n, a, w, s, r)
<1> DEFINE i == Head(x)
           u == Tail(x)
           c == Step(G, a, <<i>>)
           new == i \notin DOMAIN n.children
           b == IF new THEN saveNode(s, LeafNode(u, v))
                ELSE Call(f, Task(n.children[i], u, v, s))
           m == [n EXCEPT !.children = Including(@, i, b.node)]
           r == IF new /\ ~b.store.ok THEN Result(n, b.store) ELSE saveNode(b.store, m)
<1>1. /\ Sound(G, R, s.db) /\ IsStore(s) /\ Good(G, R, n, a, w)
      /\ Within(G, B, s.db, n, a) /\ C \subseteq B
      /\ LeafAt(G, x, a) /\ v \in Value /\ Consistent(G, B) /\ Consistent(G, C)
      /\ Differ(G, B, C, x, a, v)
  BY DEF ToInsert, Given, Differ
<1>2. w = "any" => Fresh(n)
  BY DEF ToInsert
<1>3. Own(G, R, n, a, w) /\ Tells(G, B, n, a) /\ a \in G.places
  BY <1>1, GoodIs, WithinIs, OwnKinds
<1>4. /\ x \in Seq(Nibble) /\ x # <<>> /\ i \in Nibble /\ u \in Seq(Nibble) /\ x = <<i>> \o u
      /\ c \in G.places /\ LeafAt(G, u, c) /\ <<i>> \in Seq(Nibble)
  <2>1. Cardinality(DOMAIN n.children) > 1 /\ DOMAIN n.children \subseteq Nibble
        /\ \A j \in DOMAIN n.children : Step(G, a, <<j>>) \in G.places
    BY <1>3 DEF Own
  <2>2. PICK j \in DOMAIN n.children : TRUE
    BY <2>1, SomeChild
  <2>3. j \in Nibble /\ Step(G, a, <<j>>) \in G.places
    BY <2>1, <2>2
  <2>4. /\ x \in Seq(Nibble) /\ x # <<>>
        /\ Head(x) \in Nibble /\ Tail(x) \in Seq(Nibble) /\ x = <<Head(x)>> \o Tail(x)
        /\ Step(G, a, <<Head(x)>>) \in G.places
        /\ LeafAt(G, Tail(x), Step(G, a, <<Head(x)>>))
    BY <1>1, <1>3, <2>3, KeysGoOn
  <2>5. <<Head(x)>> \in Seq(Nibble)
    BY <2>4
  <2>6. QED
    BY <2>4, <2>5
<1> DEFINE D == IF b.store.ok THEN C ELSE B
<1>5. \E T : /\ Later(G, R, T, B, s, b.store) /\ Good(G, T, b.node, c, w)
             /\ Within(G, D, b.store.db, b.node, c)
  <2>1. CASE new
    <3>1. b = saveNode(s, LeafNode(u, v))
      BY <2>1
    <3> HIDE DEF b
    <3>2. Given(G, R, C, LeafNode(u, v), c, w, s)
      BY <1>1, <1>3, <1>4, <2>1, LeafAdded
    <3>3. PICK T : Changed(G, R, T, C, C, LeafNode(u, v), c, w, s, b)
      BY <3>1, <3>2, NodeChanged
    <3>4. /\ Later(G, R, T, C, s, b.store) /\ Good(G, T, b.node, c, w)
          /\ Within(G, C, b.store.db, b.node, c)
      BY <3>3 DEF Changed
    <3>5. Later(G, R, T, B, s, b.store) /\ Within(G, B, b.store.db, b.node, c)
      BY <1>1, <3>4, LaterLess, WithinMore
    <3>6. QED
      BY <3>4, <3>5
  <2>2. CASE ~new
    <3> DEFINE k == n.children[i]
    <3>1. b = Call(f, Task(k, u, v, s))
      BY <2>2
    <3> HIDE DEF b
    <3>2. Good(G, R, k, c, w) /\ Within(G, B, s.db, k, c)
      BY <1>1, <2>2, GoodIs, WithinFull
    <3>3. w = "any" => Fresh(k)
      <4> SUFFICES ASSUME w = "any" PROVE Fresh(k)
        OBVIOUS
      <4>1. k = ExtensionNode(NoPath, k.value)
        BY <1>2, <2>2 DEF Fresh
      <4> HIDE DEF k
      <4>2. QED
        BY <4>1 DEF Fresh, ExtensionNode
    <3>4. Differ(G, B, C, u, c, v)
      BY <1>1, <1>3, <1>4, DifferBelow
    <3> HIDE DEF k, c, u
    <3>5. ToInsert(G, R, B, C, k, c, w, s, u, v)
      BY <1>1, <1>4, <3>2, <3>3, <3>4 DEF ToInsert, Given
    <3>6. PICK T : Changed(G, R, T, B, C, k, c, w, s, b)
      BY <3>1, <3>5, CallInserts
    <3>7. QED
      BY <3>6 DEF Changed
  <2>3. QED
    BY <2>1, <2>2
<1> HIDE DEF b
<1>6. PICK T : /\ Later(G, R, T, B, s, b.store) /\ Good(G, T, b.node, c, w)
               /\ Within(G, D, b.store.db, b.node, c)
  BY <1>5
<1>7. CASE new /\ ~b.store.ok
  <2>1. r = Result(n, b.store)
    BY <1>7
  <2>2. Changed(G, R, T, B, C, n, a, w, s, Result(n, b.store))
    BY <1>1, <1>6, <1>7, ChangedNot
  <2>3. QED
    BY <1>4, <2>1, <2>2 DEF b
<1>8. CASE ~(new /\ ~b.store.ok)
  <2>1. r = saveNode(b.store, m)
    BY <1>8
  <2>2. Others(G, B, D, i, a) /\ Consistent(G, D) /\ D \subseteq B
    BY <1>1 DEF Others, Differ
  <2> HIDE DEF D
  <2> DEFINE k == b.node
             d == b.store
  <2>3. Later(G, R, T, B, s, d) /\ Good(G, T, k, c, w) /\ Within(G, D, d.db, k, c)
    BY <1>6
  <2>4. m = [n EXCEPT !.children = Including(@, i, k)] /\ r = saveNode(d, m)
    BY <2>1
  <2> HIDE DEF m, r, k, d, i
  <2>5. Given(G, T, D, [n EXCEPT !.children = Including(@, i, k)], a, w, d)
    BY <1>1, <1>2, <1>4, <2>2, <2>3, ChildTaken
  <2>6. Given(G, T, D, m, a, w, d)
    BY <2>4, <2>5
  <2>7. m.type = "full"
    BY DEF m
  <2>8. PICK U : Changed(G, T, U, D, D, m, a, w, d, r)
    BY <2>4, <2>6, NodeChanged
  <2>9. Changed(G, R, U, B, D, n, a, w, s, r)
    BY <2>2, <2>3, <2>7, <2>8, ChangedAfter
  <2>10. r.store.ok => d.ok
    BY <2>8 DEF Changed, Later
  <2>11. d.ok => D = C
    BY DEF D, d
  <2>12. Changed(G, R, U, B, C, n, a, w, s, r)
    BY <2>9, <2>10, <2>11 DEF Changed
  <2>13. QED
    BY <1>4, <2>12 DEF r, m, b, i, d, k
<1>9. QED
  BY <1>7, <1>8

LEMMA InsertedChanged ==
  ASSUME NEW G, Frame(G), NEW f, Inserter(G, f), NEW R, NEW B, NEW C, NEW n, NEW a, NEW w,
         NEW s, NEW x, NEW v, ToInsert(G, R, B, C, n, a, w, s, x, v)
  PROVE  \E T : Changed(G, R, T, B, C, n, a, w, s, Inserted(f, n, x, v, s))
<1> DEFINE r == Inserted(f, n, x, v, s)
<1>1. /\ Given(G, R, B, n, a, w, s) /\ Own(G, R, n, a, w)
      /\ LeafAt(G, x, a) /\ v \in Value /\ Consistent(G, B) /\ Consistent(G, C)
      /\ Differ(G, B, C, x, a, v)
  <2>1. Good(G, R, n, a, w)
    BY DEF ToInsert, Given
  <2>2. Own(G, R, n, a, w)
    BY <2>1, GoodIs
  <2>3. QED
    BY <2>2 DEF ToInsert
<1>2. n.type \in {"leaf", "extension", "full"}
  BY <1>1, OwnKinds
<1>3. CASE n.type = "leaf" /\ n.path = x
  <2>1. r = saveNode(s, [n EXCEPT !.value = v])
    BY <1>3 DEF Inserted
  <2> HIDE DEF r
  <2>2. \E T : Changed(G, R, T, B, C, n, a, w, s, r)
    BY <1>3, <2>1, LeafInserted
  <2>3. QED
    BY <2>2 DEF r
<1>4. CASE \/ n.type = "leaf" /\ n.path # x
           \/ n.type = "extension" /\ ~IsPrefix(Path(n), x)
  <2>1. r = Split(s, n, x, v)
    BY <1>4 DEF Inserted
  <2> HIDE DEF r
  <2>2. \E T : Changed(G, R, T, B, C, n, a, w, s, Split(s, n, x, v))
    BY <1>1, <1>4, SplitChanged
  <2>3. QED
    BY <2>1, <2>2 DEF r
<1>5. CASE n.type = "extension" /\ IsPrefix(Path(n), x)
  <2> DEFINE child == LoadNode(s.db, n.value)
             c == Call(f, Task(child, After(n, x), v, s))
             q == IF ~c.store.ok THEN Result(n, c.store)
                  ELSE saveNode(c.store, [n EXCEPT !.value = GetHash(c.node).hash])
  <2>1. child # Nil /\ \E T : Changed(G, R, T, B, C, n, a, w, s, q)
    BY <1>5, ExtensionInserted
  <2>2. r = q
    <3>1. child # Nil
      BY <2>1
    <3> HIDE DEF child
    <3>2. r = Renamed(n, c)
      BY <1>5, <3>1 DEF Inserted, child
    <3> HIDE DEF r, c
    <3>3. QED
      BY <3>2 DEF Renamed
  <2> HIDE DEF r, q
  <2>3. QED
    BY <2>1, <2>2 DEF r
<1>6. CASE n.type = "full"
  <2> DEFINE idx == Head(x)
             new == idx \notin DOMAIN n.children
             b == IF new THEN saveNode(s, LeafNode(Tail(x), v))
                  ELSE Call(f, Task(n.children[idx], Tail(x), v, s))
             q == IF new /\ ~b.store.ok THEN Result(n, b.store)
                  ELSE saveNode(b.store, [n EXCEPT !.children = Including(@, idx, b.node)])
  <2>1. x # <<>> /\ \E T : Changed(G, R, T, B, C, n, a, w, s, q)
    BY <1>6, FullInserted
  <2>2. r = q
    <3>1. r = Adopted(n, idx, b)
      BY <1>6, <2>1 DEF Inserted
    <3> HIDE DEF r, b, idx
    <3>2. QED
      BY <3>1 DEF Adopted
  <2> HIDE DEF r, q
  <2>3. QED
    BY <2>1, <2>2 DEF r
<1>7. QED
  BY <1>2, <1>3, <1>4, <1>5, <1>6


\* However deep calls may nest, insert does what it should.
LEMMA InsertingInserts ==
  ASSUME NEW G, Frame(G)
  PROVE  Inserter(G, inserting[MaxDepth])
<1> DEFINE C == {d \in Nat : d <= MaxDepth /\ ~Inserter(G, inserting[d])}
<1>1. MaxDepth \in Nat
  BY MptAssumption
<1>2. SUFFICES ASSUME C # {} PROVE FALSE
  BY <1>1
<1>3. PICK d \in C : \A e \in C : d <= e
  <2>1. C \subseteq Nat
    OBVIOUS
  <2> HIDE DEF C
  <2>2. QED
    BY <1>2, <2>1, LeastNatural
<1>4. d \in Nat /\ d <= MaxDepth /\ ~Inserter(G, inserting[d])
  BY <1>3
<1>5. CASE d = 0
  <2>1. inserting[0] = <<>>
    BY InsertingSteps
  <2>2. DOMAIN <<>> = {}
    OBVIOUS
  <2>3. Inserter(G, <<>>)
    BY <2>2 DEF Inserter
  <2>4. QED
    BY <1>4, <1>5, <2>1, <2>3
<1>6. CASE d # 0
  <2>1. d \in 1..MaxDepth /\ d - 1 \in Nat /\ d - 1 <= MaxDepth /\ ~(d <= d - 1)
    BY <1>1, <1>4, <1>6
  <2>2. Inserter(G, inserting[d - 1])
    BY <1>3, <2>1
  <2>3. inserting[d] = InsertDeeper(inserting[d - 1])
    BY <2>1, InsertingSteps
  <2> DEFINE f == inserting[d - 1]
             g == inserting[d]
  <2>4. Inserter(G, f) /\ g = InsertDeeper(f)
    BY <2>2, <2>3
  <2> HIDE DEF f, g
  <2>5. DOMAIN g = Datum
        /\ \A x \in Datum : g[x] = Inserted(f, x.node, x.nibbles, x.value, x.store)
    BY <2>4 DEF InsertDeeper
  <2>6. ASSUME NEW x \in DOMAIN g, NEW R, NEW B, NEW E, NEW a, NEW w,
               ToInsert(G, R, B, E, x.node, a, w, x.store, x.nibbles, x.value)
        PROVE  \E T : Changed(G, R, T, B, E, x.node, a, w, x.store, g[x])
    <3>1. g[x] = Inserted(f, x.node, x.nibbles, x.value, x.store)
      BY <2>5
    <3>2. QED
      BY <2>4, <2>6, <3>1, InsertedChanged
  <2>7. Inserter(G, g)
    BY <2>6 DEF Inserter
  <2>8. QED
    BY <1>4, <2>7 DEF g
<1>7. QED
  BY <1>5, <1>6

\* What insert does.
LEMMA NodeInserted ==
  ASSUME NEW G, Frame(G), NEW R, NEW B, NEW C, NEW n, NEW a, NEW w, NEW s, NEW x, NEW v,
         ToInsert(G, R, B, C, n, a, w, s, x, v)
  PROVE  \E T : Changed(G, R, T, B, C, n, a, w, s, insert(s, n, x, v))
<1>1. Inserter(G, inserting[MaxDepth])
  BY InsertingInserts
<1>2. QED
  BY <1>1, CallInserts DEF insert

\* What is saved after that.
LEMMA SavedAfter ==
  ASSUME NEW G, Frame(G), NEW R, NEW T, NEW B, NEW C, C \subseteq B, NEW n, NEW a, NEW w, NEW s,
         NEW r, Changed(G, R, T, B, C, n, a, w, s, r)
  PROVE  \E U : Changed(G, R, U, B, C, n, a, w, s, saveNode(r.store, r.node))
<1> DEFINE q == saveNode(r.store, r.node)
<1>1. /\ Later(G, R, T, B, s, r.store) /\ Good(G, T, r.node, a, w)
      /\ Within(G, B, r.store.db, r.node, a) /\ Sound(G, T, r.store.db) /\ IsStore(r.store)
      /\ n.type = "full" => r.node.type = "full"
  BY DEF Changed, Later
<1> DEFINE D == IF r.store.ok THEN C ELSE B
<1>2. D \subseteq B /\ Within(G, D, r.store.db, r.node, a)
  BY <1>1 DEF Changed
<1> HIDE DEF D
<1>3. Given(G, T, D, r.node, a, w, r.store)
  BY <1>1, <1>2 DEF Given
<1>4. PICK U : Changed(G, T, U, D, D, r.node, a, w, r.store, q)
  BY <1>3, NodeChanged
<1> HIDE DEF q
<1>5. Changed(G, R, U, B, D, n, a, w, s, q)
  BY <1>1, <1>2, <1>4, ChangedAfter
<1>6. q.store.ok => r.store.ok
  BY <1>4 DEF Changed, Later
<1>7. Changed(G, R, U, B, C, n, a, w, s, q)
  BY <1>5, <1>6 DEF Changed, D
<1>8. QED
  BY <1>7 DEF q



-----------------------------------------------------------------------------
(* Deleting.                                                               *)

\* Where the way through memory ends, and delete does what it says there; same
\* says that the key is not in the trie.
EndsWell(same, database, e) ==
  LET n == e.at.node
  IN  \/ /\ n.type = "leaf"
         /\ n.path = e.at.rest => Cardinality(e.others) > 1
      \/ /\ n.type = "full"
         /\ e.at.rest # <<>> /\ ~HasChild(e.at)
      \/ /\ n.type = "extension" /\ same
         /\ hasPrefix(e.at.rest, Path(n))
              => GetHash(LoadNode(database, n.value)).hash \in DOMAIN database

\* Step i of a way p of m steps that ends well.
Cleanly(same, database, n, x, o) ==
  \E p, i, m : /\ i \in Nat /\ m \in Nat /\ i <= m
               /\ p[i] = [at |-> At(n, x), others |-> o]
               /\ \A j \in 1..m : p[j] = FurtherDown(p[j - 1])
               /\ EndsWell(same, database, p[m])

\* Where the way goes on, the next step is on it.
LEMMA CleanFurther ==
  ASSUME NEW same, NEW database, NEW n, NEW x, NEW o, Cleanly(same, database, n, x, o),
         HasChild(At(n, x))
  PROVE  Cleanly(same, database, n.children[Head(x)], Tail(x), DOMAIN n.children \ {Head(x)})
<1>1. PICK p, i, m : /\ i \in Nat /\ m \in Nat /\ i <= m
                     /\ p[i] = [at |-> At(n, x), others |-> o]
                     /\ \A j \in 1..m : p[j] = FurtherDown(p[j - 1])
                     /\ EndsWell(same, database, p[m])
  BY DEF Cleanly
<1>2. n.type = "full" /\ p[i].at = At(n, x) /\ At(n, x).node = n /\ At(n, x).rest = x
  BY <1>1 DEF HasChild, At
<1>3. i # m
  BY <1>1, <1>2 DEF EndsWell
<1>4. i + 1 \in 1..m /\ i + 1 \in Nat /\ i + 1 <= m /\ (i + 1) - 1 = i
  BY <1>1, <1>3
<1>5. p[i + 1] = FurtherDown(p[i])
  BY <1>1, <1>4
<1>6. p[i + 1] = [at |-> ToChild(At(n, x)), others |-> DOMAIN n.children \ {Head(x)}]
  BY <1>2, <1>5 DEF FurtherDown
<1>7. ToChild(At(n, x)) = At(n.children[Head(x)], Tail(x))
  BY <1>2 DEF ToChild
<1>8. QED
  BY <1>1, <1>4, <1>6, <1>7 DEF Cleanly

\* Where it does not, it ends.
LEMMA CleanEnd ==
  ASSUME NEW same, NEW database, NEW n, NEW x, NEW o, Cleanly(same, database, n, x, o),
         ~HasChild(At(n, x))
  PROVE  EndsWell(same, database, [at |-> At(n, x), others |-> o])
<1>1. PICK p, i, m : /\ i \in Nat /\ m \in Nat /\ i <= m
                     /\ p[i] = [at |-> At(n, x), others |-> o]
                     /\ \A j \in 1..m : p[j] = FurtherDown(p[j - 1])
                     /\ EndsWell(same, database, p[m])
  BY DEF Cleanly
<1> DEFINE q == [at |-> At(n, x), others |-> o]
           E == {j \in Nat : i <= j /\ j <= m /\ p[j] # q}
<1>2. q.at = At(n, x)
  OBVIOUS
<1>3. p[i] = q
  BY <1>1
<1>4. E = {}
  <2> SUFFICES ASSUME E # {} PROVE FALSE
    OBVIOUS
  <2>1. PICK j \in E : \A k \in E : j <= k
    <3>1. E \subseteq Nat
      OBVIOUS
    <3> HIDE DEF E
    <3>2. QED
      BY <3>1, LeastNatural
  <2>2. j \in Nat /\ i <= j /\ j <= m /\ p[j] # q
    BY <2>1
  <2>3. j # i
    BY <1>3, <2>2
  <2>4. j \in 1..m /\ j - 1 \in Nat /\ i <= j - 1 /\ j - 1 <= m /\ ~(j <= j - 1)
    BY <1>1, <2>2, <2>3
  <2>5. p[j - 1] = q
    BY <2>1, <2>4
  <2>6. p[j] = FurtherDown(q)
    BY <1>1, <2>4, <2>5
  <2>7. FurtherDown(q) = q
    BY <1>2 DEF FurtherDown
  <2>8. QED
    BY <2>2, <2>6, <2>7
<1>5. p[m] = q
  BY <1>1, <1>4
<1>6. QED
  BY <1>1, <1>5

\* Where delete is called cleanly.
LEMMA DownCleanly ==
  ASSUME NEW same, NEW database, NEW n, NEW x, EndsWell(same, database, Down(n, x))
  PROVE  Cleanly(same, database, n, x, Nibble)
<1>0. PICK f : Descent(f, n, x)
  BY DownSteps
<1>1. /\ Down(n, x) = f[MaxDepth]
      /\ f[0] = [at |-> At(n, x), others |-> Nibble]
      /\ \A i \in 1..MaxDepth : f[i] = FurtherDown(f[i - 1])
  BY <1>0 DEF Descent
<1>2. EndsWell(same, database, f[MaxDepth])
  BY <1>1
<1>3. 0 \in Nat /\ MaxDepth \in Nat /\ 0 <= MaxDepth
  BY MptAssumption
<1>4. QED
  BY <1>1, <1>2, <1>3 DEF Cleanly

\* A full node loses a leaf and keeps other children.
LEMMA WithoutChild ==
  ASSUME NEW G, Frame(G), NEW R, NEW B, NEW C, Consistent(G, B), Consistent(G, C),
         NEW n, NEW a, Good(G, R, n, a, "kept"), n.type = "full",
         NEW s, Within(G, B, s.db, n, a), NEW T, NEW d, Later(G, R, T, B, s, d),
         NEW x, LeafAt(G, x, a), Head(x) \in DOMAIN n.children,
         n.children[Head(x)].type = "leaf", n.children[Head(x)].path = Tail(x),
         Cardinality(DOMAIN n.children \ {Head(x)}) > 1, Differ(G, B, C, x, a, Missing)
  PROVE  Given(G, T, C,
               [n EXCEPT !.children = Restrict(n.children, DOMAIN n.children \ {Head(x)})],
               a, "kept", d)
<1> DEFINE i == Head(x)
           ch == Restrict(n.children, DOMAIN n.children \ {i})
           m == [n EXCEPT !.children = ch]
<1>1. Own(G, R, n, a, "kept") /\ a \in G.places /\ Tells(G, B, n, a)
      /\ Sound(G, T, d.db) /\ IsStore(d) /\ Extends(R, T)
  BY GoodIs, OwnKinds, WithinIs DEF Later
<1>2. /\ DOMAIN n.children \subseteq Nibble
      /\ \A j \in DOMAIN n.children : Step(G, a, <<j>>) \in G.places
      /\ \E c, h : n = [type |-> "full", children |-> c, hash |-> h]
  BY <1>1 DEF Own
<1>3. /\ DOMAIN ch = DOMAIN n.children \ {i}
      /\ ch = [j \in DOMAIN ch |-> ch[j]]
      /\ \A j \in DOMAIN ch : ch[j] = n.children[j]
  BY DEF Restrict
<1>4. m.type = "full" /\ m.children = ch /\ m.hash = n.hash
      /\ m = [type |-> "full", children |-> ch, hash |-> n.hash]
  <2>1. PICK c, h : n = [type |-> "full", children |-> c, hash |-> h]
    BY <1>2
  <2>2. n.hash = h /\ m = [n EXCEPT !.children = ch]
    BY <2>1
  <2> HIDE DEF m, ch
  <2>3. m = [type |-> "full", children |-> ch, hash |-> h]
    BY <2>1, <2>2
  <2>4. QED
    BY <2>2, <2>3
<1> HIDE DEF m, ch
<1>5. \/ m.hash = ZeroHash
      \/ m.hash.type = m.type /\ Fits(G, T, m.hash, a) /\ ~Wrapping(m.hash)
  BY <1>1, <1>4, OldHash
<1>6. Own(G, T, m, a, "kept")
  BY <1>1, <1>2, <1>3, <1>4, <1>5 DEF Own
<1>7. /\ x \in Seq(Nibble) /\ x # <<>> /\ i \in Nibble /\ Tail(x) \in Seq(Nibble)
      /\ x = <<i>> \o Tail(x) /\ <<i>> \in Seq(Nibble)
  <2>1. PICK j : j \in Nibble /\ Step(G, a, <<j>>) \in G.places
    BY <1>2
  <2>2. /\ x \in Seq(Nibble) /\ x # <<>> /\ Head(x) \in Nibble /\ Tail(x) \in Seq(Nibble)
        /\ x = <<Head(x)>> \o Tail(x)
    BY <1>1, <2>1, KeysGoOn
  <2>3. <<Head(x)>> \in Seq(Nibble)
    BY <2>2
  <2>4. QED
    BY <2>2, <2>3
<1>8. \A j \in DOMAIN n.children :
        Good(G, R, n.children[j], Step(G, a, <<j>>), "kept")
        /\ Within(G, B, s.db, n.children[j], Step(G, a, <<j>>))
  BY GoodIs, WithinFull
<1>9. ASSUME NEW j \in DOMAIN ch
      PROVE  /\ Good(G, T, ch[j], Step(G, a, <<j>>), "kept")
             /\ Within(G, C, d.db, ch[j], Step(G, a, <<j>>))
  <2> DEFINE b == Step(G, a, <<j>>)
  <2>1. j \in DOMAIN n.children /\ ch[j] = n.children[j] /\ b \in G.places
        /\ j \in Nibble /\ j # i /\ <<j>> \in Seq(Nibble)
    BY <1>2, <1>3, <1>9
  <2>2. Good(G, R, n.children[j], b, "kept") /\ Within(G, B, s.db, n.children[j], b)
    BY <1>8, <2>1
  <2>3. \A q \in Seq(Nibble) : <<j>> \o q # x
    BY <1>7, <2>1, HeadOf
  <2>4. Agree(G, B, C, b)
    BY <1>1, <2>1, <2>3, AgreeAside
  <2> HIDE DEF b
  <2>5. Good(G, T, ch[j], b, "kept") /\ Within(G, B, d.db, ch[j], b)
    BY <2>1, <2>2, LastsOn
  <2>6. Good(G, T, ch[j], b, "any")
    BY <2>5, KeptIsGood
  <2>7. Within(G, C, d.db, ch[j], b)
    BY <1>1, <2>4, <2>5, <2>6, WithinAgree
  <2>8. QED
    BY <2>5, <2>7 DEF b
<1>10. Good(G, T, m, a, "kept")
  BY <1>4, <1>6, <1>9, GoodIs
<1>11. Tells(G, C, m, a)
  <2> SUFFICES ASSUME NEW z, LeafAt(G, z, a), ~Continues(At(m, z))
               PROVE  <<z, a, get(At(m, z))>> \in C
    BY DEF Tells
  <2>1. /\ z \in Seq(Nibble) /\ z # <<>> /\ Head(z) \in Nibble /\ Tail(z) \in Seq(Nibble)
        /\ z = <<Head(z)>> \o Tail(z)
    <3>1. i \in Nibble /\ Step(G, a, <<i>>) \in G.places
      BY <1>2
    <3>2. QED
      BY <1>1, <3>1, KeysGoOn
  <2>2. get(At(m, z)) = Missing
    BY <1>4, <2>1 DEF get, At
  <2>3. CASE z = x
    BY <2>2, <2>3 DEF Differ
  <2>4. CASE z # x /\ Head(z) = i
    <3> DEFINE k == n.children[i]
               u == Tail(z)
               b == Step(G, a, <<i>>)
    <3>1. LeafAt(G, <<i>> \o u, a) /\ u \in Seq(Nibble) /\ u # Tail(x) /\ b \in G.places
      BY <1>2, <1>7, <2>1, <2>4
    <3>2. LeafAt(G, u, b)
      BY <1>1, <1>7, <3>1, LeafBelow
    <3>3. Own(G, R, k, b, "kept") /\ Tells(G, B, k, b)
      BY <1>8, GoodIs, WithinIs
    <3>4. k.type = "leaf" /\ k.path = Tail(x)
      OBVIOUS
    <3> HIDE DEF k, u
    <3>5. ~Continues(At(k, u))
      BY <3>4 DEF Continues, HasChild, At
    <3>6. LeafAt(G, Tail(x), b)
      BY <3>3, <3>4 DEF Own
    <3>7. Tail(x) # <<>>
      <4>1. \A y, q \in Seq(Nibble) : LeafAt(G, y, b) /\ LeafAt(G, q, b) => Len(y) = Len(q)
        BY <3>1 DEF Frame
      <4>2. Len(u) = Len(Tail(x))
        BY <1>7, <3>1, <3>2, <3>6, <4>1
      <4>3. Len(<<>>) = 0
        OBVIOUS
      <4>4. QED
        BY <3>1, <4>2, <4>3, EmptySeq
    <3>8. get(At(k, u)) = Missing
      BY <3>1, <3>4, <3>5, <3>7 DEF get, At
    <3>9. <<u, b, Missing>> \in B
      BY <3>2, <3>3, <3>5, <3>8 DEF Tells
    <3>10. <<<<i>> \o u, a, Missing>> \in B
      BY <1>1, <1>7, <3>1, <3>2, <3>9 DEF Consistent
    <3>11. <<z, a, Missing>> \in B
      BY <2>1, <2>4, <3>10 DEF u
    <3>12. QED
      BY <2>2, <2>4, <3>11 DEF Differ
  <2>5. CASE Head(z) # i
    <3>1. ~Continues(At(n, z))
      BY <1>3, <1>4, <2>1, <2>5 DEF Continues, HasChild, At
    <3>2. get(At(n, z)) = Missing
      BY <2>1, <3>1 DEF get, At
    <3>3. <<z, a, Missing>> \in B
      BY <1>1, <3>1, <3>2 DEF Tells
    <3>4. z # x
      BY <2>5
    <3>5. QED
      BY <2>2, <3>3, <3>4 DEF Differ
  <2>6. QED
    BY <2>3, <2>4, <2>5
<1>12. Within(G, C, d.db, m, a)
  BY <1>4, <1>9, <1>11, WithinFull
<1>13. QED
  BY <1>1, <1>10, <1>12 DEF Given, m, ch


\* A call of delete for n at a: the key with rest x goes; same says that it is
\* not in the trie.
ToDelete(G, R, B, C, same, n, a, s, x, o) ==
  /\ Given(G, R, B, n, a, "kept", s)
  /\ Consistent(G, B) /\ Consistent(G, C)
  /\ LeafAt(G, x, a) /\ Differ(G, B, C, x, a, Missing)
  /\ Cleanly(same, s.db, n, x, o)
  /\ same => B = C

\* A call of delete for n at a that led from store s to result r: the leaf
\* itself is gone, or all keys that come to the node find an answer of B, and
\* when it went well one of C.
Erased(G, R, T, B, C, n, x, a, s, r) ==
  /\ Later(G, R, T, B, s, r.store)
  /\ \/ r.node = Nil /\ n.type = "leaf" /\ n.path = x
     \/ /\ r.node # Nil
        /\ Good(G, T, r.node, a, "kept") /\ Within(G, B, r.store.db, r.node, a)
        /\ r.store.ok => Within(G, C, r.store.db, r.node, a)

\* What is saved after something else was done.
LEMMA ErasedThen ==
  ASSUME NEW G, NEW R, NEW S, NEW T, NEW B, NEW C, NEW D, D \subseteq B, NEW n, NEW x, NEW a,
         NEW s, NEW d, Later(G, R, S, B, s, d), d.ok => D = C,
         NEW m, NEW r, Changed(G, S, T, D, D, m, a, "kept", d, r)
  PROVE  Erased(G, R, T, B, C, n, x, a, s, r)
<1>1. Changed(G, R, T, B, D, m, a, "kept", s, r)
  BY ChangedAfter
<1>2. /\ Later(G, R, T, B, s, r.store) /\ Good(G, T, r.node, a, "kept")
      /\ Within(G, B, r.store.db, r.node, a)
      /\ r.store.ok => Within(G, D, r.store.db, r.node, a)
  BY <1>1 DEF Changed
<1>3. r.store.ok => d.ok
  BY DEF Changed, Later
<1>4. Own(G, T, r.node, a, "kept")
  BY <1>2, GoodIs
<1>5. r.node # Nil
  BY <1>4, OwnKinds
<1>6. QED
  BY <1>2, <1>3, <1>5 DEF Erased

\* A node that stays as it is.
LEMMA Stays ==
  ASSUME NEW G, NEW R, NEW B, NEW C, NEW n, NEW x, NEW a, NEW s,
         Given(G, R, B, n, a, "kept", s), NEW T, NEW d, Later(G, R, T, B, s, d),
         d.ok => Within(G, C, d.db, n, a)
  PROVE  Erased(G, R, T, B, C, n, x, a, s, Result(n, d))
<1>1. Good(G, R, n, a, "kept") /\ Within(G, B, s.db, n, a)
  BY DEF Given
<1>2. Good(G, T, n, a, "kept") /\ Within(G, B, d.db, n, a)
  BY <1>1, LastsOn
<1>3. Own(G, R, n, a, "kept")
  BY <1>1, GoodIs
<1>4. n # Nil
  BY <1>3, OwnKinds
<1>5. Result(n, d).node = n /\ Result(n, d).store = d
  BY DEF Result
<1>6. QED
  BY <1>2, <1>4, <1>5 DEF Erased

\* A node that does not have the key tells nothing else without it.
LEMMA TellsOn ==
  ASSUME NEW G, NEW B, NEW C, NEW n, NEW a, Tells(G, B, n, a), NEW x,
         Differ(G, B, C, x, a, Missing), ~Continues(At(n, x)) => get(At(n, x)) = Missing
  PROVE  Tells(G, C, n, a)
<1> SUFFICES ASSUME NEW z, LeafAt(G, z, a), ~Continues(At(n, z))
             PROVE  <<z, a, get(At(n, z))>> \in C
  BY DEF Tells
<1>1. <<z, a, get(At(n, z))>> \in B
  BY DEF Tells
<1>2. QED
  BY <1>1 DEF Differ

\* A leaf for another key.
LEMMA LeafLeft ==
  ASSUME NEW G, Frame(G), NEW R, NEW B, NEW C, NEW n, NEW a, NEW s,
         Given(G, R, B, n, a, "kept", s), n.type = "leaf",
         NEW x, LeafAt(G, x, a), n.path # x, Differ(G, B, C, x, a, Missing)
  PROVE  Within(G, C, s.db, n, a)
<1>1. Own(G, R, n, a, "kept") /\ Tells(G, B, n, a)
  BY GoodIs, WithinIs DEF Given
<1>2. LeafAt(G, n.path, a)
  BY <1>1 DEF Own
<1>3. Len(n.path) = Len(x) /\ x \in Seq(Nibble) /\ n.path \in Seq(Nibble)
  BY <1>2 DEF Frame
<1>4. n.path # <<>>
  <2>1. Len(<<>>) = 0
    OBVIOUS
  <2>2. QED
    BY <1>3, <2>1, EmptySeq
<1>5. ~Continues(At(n, x))
  BY DEF Continues, HasChild, At
<1>6. get(At(n, x)) = Missing
  BY <1>4, <1>5 DEF get, At
<1>7. Tells(G, C, n, a)
  BY <1>1, <1>6, TellsOn
<1>8. Below(G, s.db, n, a) = {}
  BY DEF Below
<1>9. QED
  BY <1>7, <1>8, WithinIs

\* A full node without a child for the key.
LEMMA FullLeft ==
  ASSUME NEW G, Frame(G), NEW R, NEW B, NEW C, Consistent(G, B), Consistent(G, C),
         NEW n, NEW a, NEW s, Given(G, R, B, n, a, "kept", s), n.type = "full",
         NEW x, LeafAt(G, x, a), x # <<>>, ~HasChild(At(n, x)),
         Differ(G, B, C, x, a, Missing)
  PROVE  Within(G, C, s.db, n, a)
<1>1. Own(G, R, n, a, "kept") /\ Tells(G, B, n, a) /\ Sound(G, R, s.db) /\ a \in G.places
  BY GoodIs, WithinIs, OwnKinds DEF Given
<1>2. /\ DOMAIN n.children \subseteq Nibble
      /\ \A j \in DOMAIN n.children : Step(G, a, <<j>>) \in G.places
  BY <1>1 DEF Own
<1>3. Head(x) \notin DOMAIN n.children
  BY DEF HasChild, At
<1>4. ~Continues(At(n, x)) /\ get(At(n, x)) = Missing
  BY DEF Continues, At, get
<1>5. Tells(G, C, n, a)
  BY <1>1, <1>4, TellsOn
<1>6. ASSUME NEW j \in DOMAIN n.children
      PROVE  Within(G, C, s.db, n.children[j], Step(G, a, <<j>>))
  <2> DEFINE b == Step(G, a, <<j>>)
             k == n.children[j]
  <2>1. j \in Nibble /\ b \in G.places /\ <<j>> \in Seq(Nibble)
    BY <1>2
  <2>2. Good(G, R, k, b, "kept") /\ Within(G, B, s.db, k, b)
    BY GoodIs, WithinFull DEF Given
  <2>3. \A q \in Seq(Nibble) : <<j>> \o q # x
    BY <1>3, <2>1, HeadOf
  <2>4. Agree(G, B, C, b)
    BY <1>1, <2>1, <2>3, AgreeAside
  <2> HIDE DEF b, k
  <2>5. Good(G, R, k, b, "any")
    BY <2>2, KeptIsGood
  <2>6. Within(G, C, s.db, k, b)
    BY <1>1, <2>2, <2>4, <2>5, WithinAgree
  <2>7. QED
    BY <2>6 DEF b, k
<1>7. QED
  BY <1>5, <1>6, WithinFull

\* The deeper calls of delete, two at least or too few.
Unwound(f) ==
  \/ f = <<>>
  \/ \E g : f = DeleteDeeper(g) /\ (g = <<>> \/ \E h : g = DeleteDeeper(h))

\* A result that is the node, and a store that failed or that it was.
Idle(r, n, s) ==
  /\ r.node = n /\ IsStore(r.store) /\ r.store.db = s.db
  /\ r = Result(n, s) \/ ~r.store.ok

\* What stands in for a child is never deleted.
LEMMA StandInDeleted ==
  ASSUME NEW g, g = <<>> \/ \E h : g = DeleteDeeper(h), NEW k, NEW x, NEW s, IsStore(s),
         k.type = "extension", k.path = NoPath
  PROVE  Idle(Call(g, Task(k, x, Missing, s)), k, s)
<1> DEFINE t == Task(k, x, Missing, s)
<1>1. t.node = k /\ t.nibbles = x /\ t.store = s
  BY DEF Task
<1> HIDE DEF t
<1>2. CASE t \notin DOMAIN g
  <2> DEFINE e == [Fail(s) EXCEPT !.exceeded = TRUE]
  <2>1. IsStore(e) /\ ~e.ok /\ e.db = s.db
    BY Failing
  <2> HIDE DEF e
  <2>2. Call(g, t) = Result(k, e)
    BY <1>1, <1>2 DEF Call, e
  <2>3. QED
    BY <2>1, <2>2 DEF Idle, Result, t
<1>3. CASE t \in DOMAIN g
  <2>1. DOMAIN <<>> = {}
    OBVIOUS
  <2>2. PICK h : g = DeleteDeeper(h)
    BY <1>3, <2>1
  <2>3. g[t] = Deleted(h, k, x, s)
    BY <1>1, <1>3, <2>2 DEF DeleteDeeper
  <2>4. ~hasPrefix(x, Path(k))
    BY DEF hasPrefix, HasPrefix, Path
  <2>5. g[t] = Result(k, s)
    BY <2>3, <2>4 DEF Deleted
  <2>6. Call(g, t) = Result(k, s)
    BY <1>3, <2>5 DEF Call
  <2>7. QED
    BY <2>6 DEF Idle, Result, t
<1>4. QED
  BY <1>2, <1>3

\* A full node that was read back stays as it is, or is saved.
LEMMA ReadBackDeleted ==
  ASSUME NEW f, Unwound(f), NEW n, n.type = "full", Fresh(n),
         n.children = [i \in DOMAIN n.children |-> n.children[i]],
         n = [type |-> "full", children |-> n.children, hash |-> n.hash],
         NEW x, x # <<>>, NEW s, IsStore(s)
  PROVE  LET r == Call(f, Task(n, x, Missing, s))
         IN  r = saveNode(s, n) \/ Idle(r, n, s)
<1> DEFINE t == Task(n, x, Missing, s)
           r == Call(f, t)
<1>1. t.node = n /\ t.nibbles = x /\ t.store = s
  BY DEF Task
<1> HIDE DEF t
<1>2. CASE t \notin DOMAIN f
  <2> DEFINE e == [Fail(s) EXCEPT !.exceeded = TRUE]
  <2>1. IsStore(e) /\ ~e.ok /\ e.db = s.db
    BY Failing
  <2> HIDE DEF e
  <2>2. Call(f, t) = Result(n, e)
    BY <1>1, <1>2 DEF Call, e
  <2>3. QED
    BY <2>1, <2>2 DEF Idle, Result, t
<1>3. CASE t \in DOMAIN f
  <2>1. DOMAIN <<>> = {}
    OBVIOUS
  <2>2. PICK g : f = DeleteDeeper(g) /\ (g = <<>> \/ \E h : g = DeleteDeeper(h))
    BY <1>3, <2>1 DEF Unwound
  <2> DEFINE idx == Head(x)
             k == n.children[idx]
             b == Call(g, Task(k, Tail(x), Missing, s))
             m == [n EXCEPT !.children[idx] = b.node]
  <2>3. r = Deleted(g, n, x, s)
    BY <1>1, <1>3, <2>2 DEF DeleteDeeper, Call
  <2>4. CASE idx \notin DOMAIN n.children
    <3>1. r = Result(n, s)
      BY <2>3, <2>4 DEF Deleted
    <3> HIDE DEF r
    <3>2. Idle(r, n, s)
      BY <3>1 DEF Idle, Result
    <3>3. QED
      BY <3>2 DEF r, t
  <2>5. CASE idx \in DOMAIN n.children
    <3>1. k = ExtensionNode(NoPath, k.value)
      BY <2>5 DEF Fresh
    <3>2. k.type = "extension" /\ k.path = NoPath
      <4> HIDE DEF k
      <4>1. QED
        BY <3>1 DEF ExtensionNode
    <3>3. Idle(b, k, s)
      BY <2>2, <3>2, StandInDeleted
    <3>4. b.node = k /\ IsStore(b.store) /\ b.store.db = s.db
          /\ (b = Result(k, s) \/ ~b.store.ok)
      BY <3>3 DEF Idle
    <3>5. b.node # Nil
      BY <3>2, <3>4 DEF Nil
    <3>6. r = saveNode(b.store, m)
      <4>1. r = Reduced(n, idx, b)
        BY <2>3, <2>5 DEF Deleted
      <4> HIDE DEF r, b, idx
      <4>2. QED
        BY <3>5, <4>1 DEF Reduced
    <3>7. m = n
      BY <3>4
    <3>8. r = saveNode(b.store, n)
      BY <3>6, <3>7
    <3> HIDE DEF r, m, b
    <3>9. CASE b = Result(k, s)
      <4>1. b.store = s
        BY <3>9 DEF Result
      <4>2. QED
        BY <3>8, <4>1 DEF r, t
    <3>10. CASE ~b.store.ok
      <4> DEFINE u == b.store
      <4>1. IsStore(u) /\ ~u.ok /\ u.db = s.db /\ r = saveNode(u, n)
        BY <3>4, <3>8, <3>10
      <4> HIDE DEF u
      <4>2. r.node = n /\ IsStore(r.store) /\ r.store.db = s.db /\ ~r.store.ok
        BY <4>1, NothingSaved
      <4>3. QED
        BY <4>2 DEF Idle, r, t
    <3>11. QED
      BY <3>4, <3>9, <3>10
  <2>6. QED
    BY <2>4, <2>5
<1>4. QED
  BY <1>2, <1>3


\* A child that was read back, whose hash is in the database as it is: it is
\* the child that this hash is of.
LEMMA SavedAsRead ==
  ASSUME NEW G, Frame(G), NEW R, NEW B, NEW database, Sound(G, R, database),
         NEW n, NEW b, Good(G, R, n, b, "any"), Within(G, B, database, n, b), Fresh(n),
         n.type = "full", GetHash(n).hash \in DOMAIN database
  PROVE  Reached(G, R, B, database, GetHash(n).hash, b) /\ GetHash(n).hash.type = "full"
<1> DEFINE g == GetHash(n).hash
           e == g.children
<1>1. Own(G, R, n, b, "any") /\ Tells(G, B, n, b) /\ b \in G.places
  BY GoodIs, WithinIs, OwnKinds
<1>2. /\ n = [type |-> "full", children |-> n.children, hash |-> ZeroHash]
      /\ n.children = [i \in DOMAIN n.children |-> n.children[i]]
      /\ DOMAIN n.children \subseteq Nibble
      /\ \A i \in DOMAIN n.children : Step(G, b, <<i>>) \in G.places
      /\ \A i \in DOMAIN n.children : n.children[i] = ExtensionNode(NoPath, n.children[i].value)
      /\ Cardinality(DOMAIN n.children) > 1
  BY <1>1 DEF Own, Fresh
<1> DEFINE hashes == [i \in DOMAIN n.children |->
                        [type |-> "extension", path |-> NoPath, value |-> n.children[i].value]]
<1>3. g = [type |-> "full", children |-> hashes]
  <2> DEFINE ch == [i \in DOMAIN n.children |-> Hashed(n.children[i])]
             m == [n EXCEPT !.children = ch]
  <2>1. Serialize(n) = m
    BY DEF Serialize
  <2>2. \A i \in DOMAIN n.children : Hashed(n.children[i]).hash = hashes[i]
    <3> TAKE i \in DOMAIN n.children
    <3> DEFINE k == n.children[i]
    <3>1. k = ExtensionNode(NoPath, k.value)
      BY <1>2
    <3> DEFINE v == k.value
    <3> HIDE DEF v
    <3>2. k = [type |-> "extension", path |-> NoPath, value |-> v, hash |-> ZeroHash]
      BY <3>1 DEF ExtensionNode, v
    <3> HIDE DEF k
    <3>3. Hashed(k).hash = [type |-> "extension", path |-> NoPath, value |-> v]
      BY <3>2 DEF Hashed, Content
    <3>4. QED
      BY <3>3 DEF v, k
  <2> HIDE DEF hashes
  <2>3. DOMAIN ch = DOMAIN n.children /\ \A i \in DOMAIN ch : ch[i].hash = hashes[i]
    BY <2>2
  <2> HIDE DEF ch
  <2>4. m = [type |-> "full", children |-> ch, hash |-> ZeroHash]
    BY <1>2
  <2> HIDE DEF m
  <2>5. Content(m) = [type |-> "full", children |-> [i \in DOMAIN ch |-> ch[i].hash]]
    BY <2>4 DEF Content
  <2>6. [i \in DOMAIN ch |-> ch[i].hash] = hashes
    BY <2>3 DEF hashes
  <2>7. GetHash(n).hash = Content(m)
    <3>1. Hashed(m).hash = Content(m)
      <4> DEFINE c == Content(m)
      <4> HIDE DEF c
      <4>1. [m EXCEPT !.hash = c].hash = c
        BY <2>4
      <4>2. QED
        BY <2>4, <4>1 DEF Hashed, c
    <3>2. QED
      BY <2>1, <3>1 DEF GetHash
  <2>8. QED
    BY <2>5, <2>6, <2>7
<1>4. g.type = "full" /\ e = hashes /\ DOMAIN e = DOMAIN n.children
      /\ \A i \in DOMAIN e :
           /\ e[i] = [type |-> "extension", path |-> NoPath, value |-> n.children[i].value]
           /\ e[i].type = "extension" /\ e[i].path = NoPath /\ e[i].value = n.children[i].value
  BY <1>3
<1>5. g \in DOMAIN R /\ g \in DOMAIN database
  BY DEF Sound
<1> HIDE DEF g, e, hashes
<1>6. R[g] \in G.places /\ Fits(G, R, g, R[g])
  BY <1>5 DEF Sound
<1>7. PICK i \in DOMAIN n.children : TRUE
  BY <1>2, SomeChild
<1>8. ASSUME NEW j \in DOMAIN n.children
      PROVE  /\ e[j] \in DOMAIN R /\ e[j] \in DOMAIN database
             /\ R[e[j]] = Step(G, R[g], <<j>>) /\ Step(G, R[g], <<j>>) \in G.places
             /\ R[n.children[j].value] = R[e[j]] /\ n.children[j].value \in DOMAIN R
             /\ n.children[j].path = NoPath /\ n.children[j].type = "extension"
             /\ database[e[j]] = e[j]
  <2>1. /\ e[j] \in DOMAIN R /\ R[e[j]] = Step(G, R[g], <<j>>)
        /\ Step(G, R[g], <<j>>) \in G.places
    BY <1>4, <1>6 DEF Fits, e
  <2>2. e[j] \in DOMAIN database /\ Fits(G, R, e[j], R[e[j]])
    BY <2>1 DEF Sound
  <2>3. e[j].type = "extension" /\ e[j].path = NoPath /\ e[j].value = n.children[j].value
    BY <1>4
  <2>4. NoPath \notin Seq(Nibble)
    BY MptAssumption
  <2>5. R[e[j].value] = R[e[j]] /\ e[j].value \in DOMAIN R
    BY <2>2, <2>3, <2>4 DEF Fits
  <2>6. Wrapping(e[j])
    BY <2>3 DEF Wrapping, Wraps
  <2>7. database[e[j]] = e[j]
    BY <2>2, <2>6 DEF Sound
  <2>8. n.children[j].path = NoPath /\ n.children[j].type = "extension"
    BY <1>2 DEF ExtensionNode
  <2>9. QED
    BY <2>1, <2>2, <2>3, <2>5, <2>7, <2>8
<1>9. R[g] = b
  <2>1. Good(G, R, n.children[i], Step(G, b, <<i>>), "any")
    BY <1>7, GoodIs
  <2>2. Own(G, R, n.children[i], Step(G, b, <<i>>), "any")
    BY <2>1, GoodIs
  <2>3. n.children[i].type = "extension" /\ n.children[i].path = NoPath
    BY <1>7, <1>8
  <2>4. NoPath \notin Seq(Nibble)
    BY MptAssumption
  <2>5. R[n.children[i].value] = Step(G, b, <<i>>)
    BY <2>2, <2>3, <2>4 DEF Own
  <2>6. Step(G, R[g], <<i>>) = Step(G, b, <<i>>)
    BY <1>7, <1>8, <2>5
  <2>7. <<i>> \in Seq(Nibble)
    BY <1>2, <1>7
  <2>8. \A x, y \in G.places, p \in Seq(Nibble) : Step(G, x, p) = Step(G, y, p) => x = y
    BY DEF Frame
  <2>9. QED
    BY <1>1, <1>6, <2>6, <2>7, <2>8
<1> DEFINE q == FullNode([j \in DOMAIN e |-> ExtensionNode(NoPath, e[j])])
<1>10. LoadNode(database, g) = q
  <2>1. Wrapping(g)
    BY <1>4, <1>7 DEF Wrapping, Wraps, e
  <2>2. database[g] = g
    BY <1>5, <2>1 DEF Sound
  <2>3. QED
    BY <1>4, <1>5, <2>2 DEF LoadNode, deserializeNode, e
<1>11. q.type = "full" /\ DOMAIN q.children = DOMAIN n.children
       /\ \A j \in DOMAIN n.children : q.children[j] = ExtensionNode(NoPath, e[j])
  BY <1>4 DEF FullNode
<1> HIDE DEF q
<1>12. Tells(G, B, q, b)
  <2>1. SameKind(n, q)
    BY <1>11 DEF SameKind
  <2>2. QED
    BY <1>1, <2>1, TellsSame
<1>13. ASSUME NEW j \in DOMAIN n.children
       PROVE  Within(G, B, database, q.children[j], Step(G, b, <<j>>))
  <2> DEFINE c == Step(G, b, <<j>>)
             h == e[j]
             k == n.children[j]
  <2>1. /\ h \in DOMAIN R /\ R[h] = c /\ c \in G.places
        /\ h \in DOMAIN database /\ database[h] = h
        /\ h = [type |-> "extension", path |-> NoPath, value |-> k.value]
    BY <1>4, <1>8, <1>9
  <2>2. k = ExtensionNode(NoPath, k.value) /\ Within(G, B, database, k, c)
    BY <1>2, WithinFull
  <2> HIDE DEF c, h, k
  <2>3. LoadNode(database, h) = ExtensionNode(NoPath, k.value)
    <3> DEFINE v == k.value
    <3> HIDE DEF v
    <3>1. h = [type |-> "extension", path |-> NoPath, value |-> v]
      BY <2>1 DEF v
    <3>2. deserializeNode(h) = ExtensionNode(NoPath, v)
      BY <3>1 DEF deserializeNode
    <3>3. QED
      BY <2>1, <3>2 DEF LoadNode, v
  <2>4. Reached(G, R, B, database, h, c)
    BY <2>1, <2>2, <2>3, ReachedIs
  <2>5. Within(G, B, database, ExtensionNode(NoPath, h), c)
    BY <2>4 DEF Reached
  <2>6. QED
    BY <1>11, <2>5 DEF h, c
<1>14. Within(G, B, database, q, b)
  BY <1>11, <1>12, <1>13, WithinFull
<1>15. QED
  BY <1>1, <1>4, <1>5, <1>9, <1>10, <1>14, ReachedIs DEF g


LEMMA PrefixFound ==
  ASSUME NEW x \in Seq(Nibble), NEW p \in Seq(Nibble), hasPrefix(x, p)
  PROVE  IsPrefix(p, x)
<1>1. Len(p) <= Len(x) /\ SubSeq(x, 1, Len(p)) = p
  BY DEF hasPrefix, HasPrefix
<1>2. SubSeq(p, 1, Len(p)) = p
  OBVIOUS
<1>3. QED
  BY <1>1, <1>2 DEF IsPrefix

\* An extension on the way of a key that is not in the trie.
LEMMA ExtensionDeleted ==
  ASSUME NEW G, Frame(G), NEW f, Unwound(f), NEW R, NEW B, NEW C, NEW same, NEW n, NEW a,
         NEW s, NEW x, NEW o, ToDelete(G, R, B, C, same, n, a, s, x, o),
         n.type = "extension", hasPrefix(x, Path(n))
  PROVE  LET child == LoadNode(s.db, n.value)
             c == Call(f, Task(child, After(n, x), Missing, s))
             r == IF ~c.store.ok THEN Result(n, c.store)
                  ELSE saveNode(c.store, [n EXCEPT !.value = GetHash(c.node).hash])
         IN  /\ child # Nil /\ c.node # Nil
             /\ \E T : Erased(G, R, T, B, C, n, x, a, s, r)
<1> DEFINE child == LoadNode(s.db, n.value)
           q == After(n, x)
           c == Call(f, Task(child, q, Missing, s))
           m == [n EXCEPT !.value = GetHash(c.node).hash]
           r == IF ~c.store.ok THEN Result(n, c.store) ELSE saveNode(c.store, m)
           b == Step(G, a, Path(n))
<1>1. /\ Given(G, R, B, n, a, "kept", s) /\ Consistent(G, B) /\ LeafAt(G, x, a)
      /\ Differ(G, B, C, x, a, Missing) /\ Cleanly(same, s.db, n, x, o)
      /\ same => B = C
  BY DEF ToDelete
<1>2. /\ Sound(G, R, s.db) /\ IsStore(s) /\ Good(G, R, n, a, "kept")
      /\ Within(G, B, s.db, n, a)
  BY <1>1 DEF Given
<1>3. Own(G, R, n, a, "kept") /\ Tells(G, B, n, a) /\ a \in G.places /\ x \in Seq(Nibble)
  BY <1>1, <1>2, GoodIs, WithinIs, OwnKinds, LeafIsPath
<1>4. same /\ GetHash(child).hash \in DOMAIN s.db
  <2>1. ~HasChild(At(n, x))
    BY DEF HasChild, At
  <2>2. EndsWell(same, s.db, [at |-> At(n, x), others |-> o])
    BY <1>1, <2>1, CleanEnd
  <2>3. At(n, x).node = n /\ At(n, x).rest = x
    BY DEF At
  <2>4. QED
    BY <2>2, <2>3 DEF EndsWell
<1>5. B = C
  BY <1>1, <1>4
<1>6. /\ n.value \in DOMAIN R /\ Path(n) \in Seq(Nibble) /\ b = R[n.value]
      /\ n.value.type = "full"
  <2>1. n.value \in DOMAIN R /\ Path(n) \in Seq(Nibble) /\ b = R[n.value]
    BY <1>3, ChildPlace
  <2>2. n.value.type = "full"
    BY <1>3 DEF Own
  <2>3. QED
    BY <2>1, <2>2
<1>7. /\ Good(G, R, child, b, "any") /\ Fresh(child) /\ child # Nil
      /\ child.type = "full" /\ b \in G.places
  BY <1>2, <1>6, Loaded
<1>8. Within(G, B, s.db, child, b)
  BY <1>2, WithinExtension
<1>9. IsPrefix(Path(n), x)
  BY <1>3, <1>6, PrefixFound
<1>10. q \in Seq(Nibble) /\ x = Path(n) \o q
  BY <1>3, <1>6, <1>9, AfterPath
<1>11. LeafAt(G, q, b)
  BY <1>1, <1>3, <1>6, <1>7, <1>10, LeafBelow
<1> HIDE DEF child, q
<1>12. /\ child.children = [i \in DOMAIN child.children |-> child.children[i]]
       /\ child = [type |-> "full", children |-> child.children, hash |-> child.hash]
       /\ Cardinality(DOMAIN child.children) > 1 /\ DOMAIN child.children \subseteq Nibble
       /\ \A i \in DOMAIN child.children : Step(G, b, <<i>>) \in G.places
  <2>1. Own(G, R, child, b, "any")
    BY <1>7, GoodIs
  <2>2. QED
    BY <1>7, <2>1 DEF Own
<1>13. q # <<>>
  <2>1. PICK i \in DOMAIN child.children : TRUE
    BY <1>12, SomeChild
  <2>2. i \in Nibble /\ Step(G, b, <<i>>) \in G.places
    BY <1>12, <2>1
  <2> HIDE DEF b
  <2>3. QED
    BY <1>7, <1>11, <2>2, KeysGoOn
<1>14. c = saveNode(s, child) \/ Idle(c, child, s)
  BY <1>2, <1>7, <1>12, <1>13, ReadBackDeleted
<1> HIDE DEF c
<1>15. \E T : /\ Later(G, R, T, B, s, c.store) /\ c.node # Nil
              /\ c.store.ok => /\ Reached(G, T, B, c.store.db, GetHash(c.node).hash, b)
                               /\ GetHash(c.node).hash.type = "full"
  <2>1. CASE c = saveNode(s, child)
    <3>1. Given(G, R, B, child, b, "any", s)
      BY <1>2, <1>7, <1>8 DEF Given
    <3> HIDE DEF b
    <3>2. PICK T : Changed(G, R, T, B, B, child, b, "any", s, c)
      BY <2>1, <3>1, NodeChanged
    <3>3. /\ Later(G, R, T, B, s, c.store) /\ Good(G, T, c.node, b, "any")
          /\ c.node.type = "full"
          /\ c.store.ok => Reached(G, T, B, c.store.db, c.node.hash, b)
      BY <1>7, <3>2 DEF Changed
    <3>4. Sound(G, T, c.store.db)
      BY <3>3 DEF Later
    <3>5. Own(G, T, c.node, b, "any")
      BY <3>3, GoodIs
    <3>6. c.node # Nil
      BY <3>5, OwnKinds
    <3>7. c.store.ok => GetHash(c.node).hash = c.node.hash /\ c.node.hash.type = "full"
      BY <3>3, <3>4, HashReached
    <3>8. QED
      BY <3>3, <3>6, <3>7
  <2>2. CASE Idle(c, child, s)
    <3>1. c.node = child /\ IsStore(c.store) /\ c.store.db = s.db
          /\ (c = Result(child, s) \/ ~c.store.ok)
      BY <2>2 DEF Idle
    <3>2. c.store.ok => s.ok
      BY <3>1 DEF Result
    <3>3. Later(G, R, R, B, s, c.store)
      BY <1>2, <3>1, <3>2, KeepsItself, ExtendsItself DEF Later
    <3> HIDE DEF b
    <3>4. /\ Reached(G, R, B, s.db, GetHash(child).hash, b)
          /\ GetHash(child).hash.type = "full"
      BY <1>2, <1>4, <1>7, <1>8, SavedAsRead DEF child
    <3>5. QED
      BY <1>7, <3>1, <3>3, <3>4
  <2>3. QED
    BY <1>14, <2>1, <2>2
<1>16. PICK T : /\ Later(G, R, T, B, s, c.store) /\ c.node # Nil
                /\ c.store.ok => /\ Reached(G, T, B, c.store.db, GetHash(c.node).hash, b)
                                 /\ GetHash(c.node).hash.type = "full"
  BY <1>15
<1>17. CASE ~c.store.ok
  <2>1. r = Result(n, c.store)
    BY <1>17
  <2>2. Erased(G, R, T, B, C, n, x, a, s, Result(n, c.store))
    BY <1>1, <1>16, <1>17, Stays
  <2>3. QED
    BY <1>7, <1>16, <2>1, <2>2 DEF child, c, q
<1>18. CASE c.store.ok
  <2> DEFINE h == GetHash(c.node).hash
             d == c.store
  <2>1. Sound(G, T, d.db) /\ IsStore(d) /\ Extends(R, T) /\ Later(G, R, T, B, s, d)
    BY <1>16 DEF Later
  <2>2. /\ Reached(G, T, B, d.db, h, Step(G, a, Path(n)))
        /\ n.value.type = "full" => h.type = "full"
    BY <1>16, <1>18
  <2>3. m = [n EXCEPT !.value = h] /\ r = saveNode(d, m)
    BY <1>18
  <2> HIDE DEF h, d, m, r, b
  <2>4. Differ(G, B, B, x, a, Missing)
    BY <1>1, <1>5
  <2>5. Given(G, T, B, [n EXCEPT !.value = h], a, "kept", d)
    BY <1>2, <1>3, <1>9, <2>1, <2>2, <2>4, Repointed
  <2>6. Given(G, T, B, m, a, "kept", d)
    BY <2>3, <2>5
  <2>7. PICK U : Changed(G, T, U, B, B, m, a, "kept", d, r)
    BY <2>3, <2>6, NodeChanged
  <2>8. Erased(G, R, U, B, C, n, x, a, s, r)
    <3> DEFINE D == B
    <3>1. D \subseteq B /\ (d.ok => D = C)
      BY <1>5
    <3>2. Changed(G, T, U, D, D, m, a, "kept", d, r)
      BY <2>7
    <3> HIDE DEF D
    <3>3. QED
      BY <2>1, <3>1, <3>2, ErasedThen
  <2>9. QED
    BY <1>7, <1>16, <2>8 DEF child, r, m, c, q, d
<1>19. QED
  BY <1>17, <1>18


\* The calls of f do what delete should.
Deleter(G, f) ==
  \A y \in DOMAIN f : \A R, B, C, same, a, o :
    ToDelete(G, R, B, C, same, y.node, a, y.store, y.nibbles, o)
      => \E T : Erased(G, R, T, B, C, y.node, y.nibbles, a, y.store, f[y])

LEMMA CallDeletes ==
  ASSUME NEW G, NEW R, NEW B, NEW C, NEW same, NEW n, NEW a, NEW s, NEW x, NEW o,
         ToDelete(G, R, B, C, same, n, a, s, x, o), NEW f, Deleter(G, f)
  PROVE  \E T : Erased(G, R, T, B, C, n, x, a, s, Call(f, Task(n, x, Missing, s)))
<1> DEFINE y == Task(n, x, Missing, s)
<1>1. y.node = n /\ y.nibbles = x /\ y.store = s
  BY DEF Task
<1> HIDE DEF y
<1>2. CASE y \in DOMAIN f
  <2>1. \E T : Erased(G, R, T, B, C, y.node, y.nibbles, a, y.store, f[y])
    BY <1>1, <1>2 DEF Deleter
  <2>2. Call(f, y) = f[y]
    BY <1>2 DEF Call
  <2>3. QED
    BY <1>1, <2>1, <2>2 DEF y
<1>3. CASE y \notin DOMAIN f
  <2> DEFINE t == [Fail(s) EXCEPT !.exceeded = TRUE]
  <2>1. Given(G, R, B, n, a, "kept", s) /\ Sound(G, R, s.db) /\ IsStore(s)
    BY DEF ToDelete, Given
  <2>2. IsStore(t) /\ ~t.ok /\ t.db = s.db
    BY <2>1, Failing
  <2> HIDE DEF t
  <2>3. Call(f, y) = Result(n, t)
    BY <1>1, <1>3 DEF Call, t
  <2>4. Later(G, R, R, B, s, t)
    BY <2>1, <2>2, KeepsItself, ExtendsItself DEF Later
  <2>5. Erased(G, R, R, B, C, n, x, a, s, Result(n, t))
    BY <2>1, <2>2, <2>4, Stays
  <2>6. QED
    BY <2>3, <2>5 DEF y
<1>4. QED
  BY <1>2, <1>3

\* Below a full node.
LEMMA FullDeleted ==
  ASSUME NEW G, Frame(G), NEW f, Deleter(G, f), NEW R, NEW B, NEW C, NEW same, NEW n, NEW a,
         NEW s, NEW x, NEW o, ToDelete(G, R, B, C, same, n, a, s, x, o),
         n.type = "full", Head(x) \in DOMAIN n.children
  PROVE  LET idx == Head(x)
             b == Call(f, Task(n.children[idx], Tail(x), Missing, s))
             others == Restrict(n.children, DOMAIN n.children \ {idx})
             r == IF b.node # Nil
                  THEN saveNode(b.store, [n EXCEPT !.children[idx] = b.node])
                  ELSE saveNode(b.store, [n EXCEPT !.children = others])
         IN  /\ x # <<>>
             /\ b.node = Nil => others # <<>> /\ Cardinality(DOMAIN others) # 1
             /\ \E T : Erased(G, R, T, B, C, n, x, a, s, r)
<1> DEFINE i == Head(x)
           u == Tail(x)
           c == Step(G, a, <<i>>)
           k == n.children[i]
           b == Call(f, Task(k, u, Missing, s))
           others == Restrict(n.children, DOMAIN n.children \ {i})
           r == IF b.node # Nil
                THEN saveNode(b.store, [n EXCEPT !.children[i] = b.node])
                ELSE saveNode(b.store, [n EXCEPT !.children = others])
<1>1. /\ Given(G, R, B, n, a, "kept", s) /\ Consistent(G, B) /\ Consistent(G, C)
      /\ LeafAt(G, x, a) /\ Differ(G, B, C, x, a, Missing) /\ Cleanly(same, s.db, n, x, o)
      /\ C \subseteq B
      /\ same => B = C
  BY DEF ToDelete, Differ
<1>2. /\ Sound(G, R, s.db) /\ IsStore(s) /\ Good(G, R, n, a, "kept")
      /\ Within(G, B, s.db, n, a)
  BY <1>1 DEF Given
<1>3. Own(G, R, n, a, "kept") /\ Tells(G, B, n, a) /\ a \in G.places
  BY <1>2, GoodIs, WithinIs, OwnKinds
<1>4. /\ x \in Seq(Nibble) /\ x # <<>> /\ i \in Nibble /\ u \in Seq(Nibble) /\ x = <<i>> \o u
      /\ c \in G.places /\ LeafAt(G, u, c) /\ <<i>> \in Seq(Nibble)
  <2>1. PICK j : j \in Nibble /\ Step(G, a, <<j>>) \in G.places
    BY <1>3 DEF Own
  <2>2. /\ x \in Seq(Nibble) /\ x # <<>>
        /\ Head(x) \in Nibble /\ Tail(x) \in Seq(Nibble) /\ x = <<Head(x)>> \o Tail(x)
        /\ Step(G, a, <<Head(x)>>) \in G.places
        /\ LeafAt(G, Tail(x), Step(G, a, <<Head(x)>>))
    BY <1>1, <1>3, <2>1, KeysGoOn
  <2>3. <<Head(x)>> \in Seq(Nibble)
    BY <2>2
  <2>4. QED
    BY <2>2, <2>3
<1>5. Good(G, R, k, c, "kept") /\ Within(G, B, s.db, k, c)
  BY <1>2, GoodIs, WithinFull
<1>6. Differ(G, B, C, u, c, Missing)
  BY <1>1, <1>3, <1>4, DifferBelow
<1>7. HasChild(At(n, x))
  BY <1>4 DEF HasChild, At
<1>8. Cleanly(same, s.db, k, u, DOMAIN n.children \ {i})
  BY <1>1, <1>7, CleanFurther
<1>9. ToDelete(G, R, B, C, same, k, c, s, u, DOMAIN n.children \ {i})
  <2> HIDE DEF k, c, u, i
  <2>1. QED
    BY <1>1, <1>2, <1>4, <1>5, <1>6, <1>8 DEF ToDelete, Given
<1>10. \E T : Erased(G, R, T, B, C, k, u, c, s, b)
  <2> DEFINE left == DOMAIN n.children \ {i}
  <2>1. ToDelete(G, R, B, C, same, k, c, s, u, left)
    BY <1>9
  <2> HIDE DEF k, c, u, i, left
  <2>2. QED
    BY <2>1, CallDeletes
<1> HIDE DEF b
<1>11. PICK T : Erased(G, R, T, B, C, k, u, c, s, b)
  BY <1>10
<1>12. Later(G, R, T, B, s, b.store)
  BY <1>11 DEF Erased
<1>13. CASE b.node # Nil
  <2> DEFINE D == IF b.store.ok THEN C ELSE B
             e == b.node
             d == b.store
             m == [n EXCEPT !.children = Including(@, i, e)]
  <2>1. /\ Good(G, T, e, c, "kept") /\ Within(G, D, d.db, e, c)
    BY <1>11, <1>13 DEF Erased
  <2>2. Others(G, B, D, i, a) /\ Consistent(G, D) /\ D \subseteq B /\ (d.ok => D = C)
    BY <1>1 DEF Others, Differ
  <2>3. [n EXCEPT !.children[i] = e] = m
    <3>1. PICK ch, h : n = [type |-> "full", children |-> ch, hash |-> h]
      BY <1>3 DEF Own
    <3>2. n.children = ch /\ ch = [j \in DOMAIN ch |-> ch[j]] /\ i \in DOMAIN ch
      BY <1>3, <3>1 DEF Own
    <3> HIDE DEF e, i
    <3>3. Including(ch, i, e) = [ch EXCEPT ![i] = e]
      BY <3>2 DEF Including
    <3>4. QED
      BY <3>1, <3>2, <3>3
  <2>4. r = saveNode(d, m)
    BY <1>13, <2>3
  <2> HIDE DEF D, e, d, r, c, i
  <2>5. Given(G, T, D, [n EXCEPT !.children = Including(@, i, e)], a, "kept", d)
    <3>1. Later(G, R, T, B, s, d)
      BY <1>12 DEF d
    <3>2. Good(G, T, e, Step(G, a, <<i>>), "kept") /\ Within(G, D, d.db, e, Step(G, a, <<i>>))
          /\ Step(G, a, <<i>>) \in G.places
      BY <1>4, <2>1 DEF c
    <3>3. QED
      BY <1>1, <1>2, <1>4, <2>2, <3>1, <3>2, ChildTaken
  <2> HIDE DEF m
  <2>6. Given(G, T, D, m, a, "kept", d)
    BY <2>5 DEF m
  <2>7. PICK U : Changed(G, T, U, D, D, m, a, "kept", d, r)
    BY <2>4, <2>6, NodeChanged
  <2>8. Later(G, R, T, B, s, d)
    BY <1>12 DEF d
  <2>9. Erased(G, R, U, B, C, n, x, a, s, r)
    BY <2>2, <2>7, <2>8, ErasedThen
  <2>10. QED
    BY <1>4, <1>13, <2>9 DEF r, b, i, d, e
<1>14. CASE b.node = Nil
  <2>1. k.type = "leaf" /\ k.path = u
    BY <1>11, <1>14 DEF Erased
  <2>2. Cardinality(DOMAIN n.children \ {i}) > 1
    <3> DEFINE left == DOMAIN n.children \ {i}
    <3>1. Cleanly(same, s.db, k, u, left)
      BY <1>8
    <3> HIDE DEF left, k, u
    <3>2. ~HasChild(At(k, u)) /\ At(k, u).node = k /\ At(k, u).rest = u
      BY <2>1 DEF HasChild, At
    <3>3. EndsWell(same, s.db, [at |-> At(k, u), others |-> left])
      BY <3>1, <3>2, CleanEnd
    <3>4. Cardinality(left) > 1
      BY <2>1, <3>2, <3>3 DEF EndsWell
    <3>5. QED
      BY <3>4 DEF left
  <2>3. DOMAIN others = DOMAIN n.children \ {i}
    BY DEF Restrict
  <2>4. others # <<>> /\ Cardinality(DOMAIN others) # 1
    <3>1. Cardinality(DOMAIN others) > 1
      BY <2>2, <2>3
    <3>2. DOMAIN <<>> = {} /\ Cardinality({}) = 0
      BY FS_EmptySet
    <3> HIDE DEF others
    <3>3. DOMAIN others \subseteq Nibble
      BY <1>3, <2>3 DEF Own
    <3>4. Cardinality(DOMAIN others) \in Nat
      BY <3>3, NibblesFinite, FS_Subset, FS_CardinalityType
    <3>5. QED
      BY <3>1, <3>2, <3>4
  <2> DEFINE m == [n EXCEPT !.children = others]
             d == b.store
  <2>5. r = saveNode(d, m)
    BY <1>14
  <2>6. Later(G, R, T, B, s, d)
    BY <1>12
  <2> HIDE DEF d, r
  <2>7. Given(G, T, C, m, a, "kept", d)
    BY <1>1, <1>2, <2>1, <2>2, <2>6, WithoutChild
  <2> HIDE DEF m
  <2>8. PICK U : Changed(G, T, U, C, C, m, a, "kept", d, r)
    BY <2>5, <2>7, NodeChanged
  <2>9. Erased(G, R, U, B, C, n, x, a, s, r)
    BY <1>1, <2>6, <2>8, ErasedThen
  <2>10. QED
    BY <1>4, <1>14, <2>4, <2>9 DEF r, b, d, m
<1>15. QED
  BY <1>13, <1>14


LEMMA DeletedErased ==
  ASSUME NEW G, Frame(G), NEW f, Deleter(G, f), Unwound(f), NEW R, NEW B, NEW C, NEW same,
         NEW n, NEW a, NEW s, NEW x, NEW o, ToDelete(G, R, B, C, same, n, a, s, x, o)
  PROVE  \E T : Erased(G, R, T, B, C, n, x, a, s, Deleted(f, n, x, s))
<1> DEFINE r == Deleted(f, n, x, s)
<1>1. /\ Given(G, R, B, n, a, "kept", s) /\ Consistent(G, B) /\ Consistent(G, C)
      /\ LeafAt(G, x, a) /\ Differ(G, B, C, x, a, Missing) /\ Cleanly(same, s.db, n, x, o)
      /\ same => B = C
  BY DEF ToDelete
<1>2. /\ Sound(G, R, s.db) /\ IsStore(s) /\ Good(G, R, n, a, "kept") /\ Own(G, R, n, a, "kept")
      /\ Within(G, B, s.db, n, a)
  BY <1>1, GoodIs DEF Given
<1>3. n.type \in {"leaf", "extension", "full"}
  BY <1>2, OwnKinds
<1>4. Later(G, R, R, B, s, s)
  BY <1>2, LaterItself
<1>5. ASSUME s.ok => Within(G, C, s.db, n, a), r = Result(n, s)
      PROVE  \E T : Erased(G, R, T, B, C, n, x, a, s, r)
  <2> HIDE DEF r
  <2>1. Erased(G, R, R, B, C, n, x, a, s, Result(n, s))
    BY <1>1, <1>4, <1>5, Stays
  <2>2. QED
    BY <1>5, <2>1
<1>6. CASE n.type = "leaf" /\ n.path = x
  <2>1. r = Result(Nil, s)
    BY <1>6 DEF Deleted
  <2> HIDE DEF r
  <2>2. r.node = Nil /\ r.store = s
    BY <2>1 DEF Result
  <2>3. Erased(G, R, R, B, C, n, x, a, s, r)
    BY <1>4, <1>6, <2>2 DEF Erased
  <2>4. QED
    BY <2>3 DEF r
<1>7. CASE n.type = "leaf" /\ n.path # x
  <2>1. r = Result(n, s)
    BY <1>7 DEF Deleted
  <2>2. Within(G, C, s.db, n, a)
    BY <1>1, <1>7, LeafLeft
  <2>3. QED
    BY <1>5, <2>1, <2>2
<1>8. CASE n.type = "extension" /\ ~hasPrefix(x, Path(n))
  <2>1. r = Result(n, s)
    BY <1>8 DEF Deleted
  <2>2. same
    <3>1. ~HasChild(At(n, x)) /\ At(n, x).node = n
      BY <1>8 DEF HasChild, At
    <3>2. EndsWell(same, s.db, [at |-> At(n, x), others |-> o])
      BY <1>1, <3>1, CleanEnd
    <3>3. QED
      BY <1>8, <3>1, <3>2 DEF EndsWell
  <2>3. Within(G, C, s.db, n, a)
    BY <1>1, <1>2, <2>2
  <2>4. QED
    BY <1>5, <2>1, <2>3
<1>9. CASE n.type = "extension" /\ hasPrefix(x, Path(n))
  <2> DEFINE child == LoadNode(s.db, n.value)
             c == Call(f, Task(child, After(n, x), Missing, s))
             q == IF ~c.store.ok THEN Result(n, c.store)
                  ELSE saveNode(c.store, [n EXCEPT !.value = GetHash(c.node).hash])
  <2>1. /\ child # Nil /\ c.node # Nil
        /\ \E T : Erased(G, R, T, B, C, n, x, a, s, q)
    BY <1>9, ExtensionDeleted
  <2>2. r = q
    <3>1. child # Nil /\ c.node # Nil
      BY <2>1
    <3>2. r = IF child = Nil THEN Result(n, Fail(s)) ELSE Shrunk(n, c)
      BY <1>9 DEF Deleted
    <3> HIDE DEF child, c, r
    <3>3. Shrunk(n, c) = q
      BY <3>1 DEF Shrunk, Renamed
    <3>4. QED
      BY <3>1, <3>2, <3>3
  <2> HIDE DEF r, q
  <2>3. QED
    BY <2>1, <2>2 DEF r
<1>10. CASE n.type = "full" /\ Head(x) \in DOMAIN n.children
  <2> DEFINE idx == Head(x)
             b == Call(f, Task(n.children[idx], Tail(x), Missing, s))
             others == Restrict(n.children, DOMAIN n.children \ {idx})
             q == IF b.node # Nil
                  THEN saveNode(b.store, [n EXCEPT !.children[idx] = b.node])
                  ELSE saveNode(b.store, [n EXCEPT !.children = others])
  <2>1. /\ x # <<>>
        /\ b.node = Nil => others # <<>> /\ Cardinality(DOMAIN others) # 1
        /\ \E T : Erased(G, R, T, B, C, n, x, a, s, q)
    BY <1>10, FullDeleted
  <2>2. r = q
    <3>1. r = IF x = <<>> THEN saveNode(s, n)
              ELSE IF idx \notin DOMAIN n.children THEN Result(n, s)
              ELSE Reduced(n, idx, b)
      BY <1>10 DEF Deleted
    <3>2. /\ x # <<>> /\ idx \in DOMAIN n.children
          /\ b.node = Nil => others # <<>> /\ Cardinality(DOMAIN others) # 1
      BY <1>10, <2>1
    <3> HIDE DEF r, b, idx
    <3>3. r = Reduced(n, idx, b)
      BY <3>1, <3>2
    <3>4. Reduced(n, idx, b) =
            IF b.node # Nil THEN saveNode(b.store, [n EXCEPT !.children[idx] = b.node])
            ELSE IF others = <<>> THEN b
            ELSE IF Cardinality(DOMAIN others) = 1
            THEN Result(others[Min(DOMAIN others)], b.store)
            ELSE saveNode(b.store, [n EXCEPT !.children = others])
      BY DEF Reduced
    <3> HIDE DEF others
    <3>5. QED
      BY <3>2, <3>3, <3>4
  <2> HIDE DEF r, q
  <2>3. QED
    BY <2>1, <2>2 DEF r
<1>11. CASE n.type = "full" /\ Head(x) \notin DOMAIN n.children
  <2>1. x # <<>>
    <3>1. PICK j : j \in Nibble /\ Step(G, a, <<j>>) \in G.places
      <4>1. Cardinality(DOMAIN n.children) > 1 /\ DOMAIN n.children \subseteq Nibble
            /\ \A i \in DOMAIN n.children : Step(G, a, <<i>>) \in G.places
        BY <1>2, <1>11 DEF Own
      <4>2. PICK i \in DOMAIN n.children : TRUE
        BY <4>1, SomeChild
      <4>3. QED
        BY <4>1, <4>2
    <3>2. a \in G.places
      BY <1>2, OwnKinds
    <3>3. QED
      BY <1>1, <3>1, <3>2, KeysGoOn
  <2>2. r = Result(n, s)
    BY <1>11, <2>1 DEF Deleted
  <2>3. ~HasChild(At(n, x))
    BY <1>11 DEF HasChild, At
  <2>4. Within(G, C, s.db, n, a)
    BY <1>1, <1>11, <2>1, <2>3, FullLeft
  <2>5. QED
    BY <1>5, <2>2, <2>4
<1>12. QED
  BY <1>3, <1>6, <1>7, <1>8, <1>9, <1>10, <1>11

\* However deep calls may nest, delete does what it should.
LEMMA DeletingUnwound ==
  ASSUME NEW d \in 0..MaxDepth
  PROVE  Unwound(deleting[d])
<1>1. deleting[0] = <<>> /\ \A i \in 1..MaxDepth : deleting[i] = DeleteDeeper(deleting[i - 1])
  BY DeletingSteps
<1>2. MaxDepth \in Nat
  BY MptAssumption
<1>3. CASE d = 0
  BY <1>1, <1>3 DEF Unwound
<1>4. CASE d # 0
  <2>1. d \in 1..MaxDepth /\ (d - 1 = 0 \/ d - 1 \in 1..MaxDepth)
    BY <1>2, <1>4
  <2>2. deleting[d] = DeleteDeeper(deleting[d - 1])
    BY <1>1, <2>1
  <2>3. CASE d - 1 = 0
    <3>1. deleting[d - 1] = <<>>
      BY <1>1, <2>3
    <3>2. QED
      BY <2>2, <3>1 DEF Unwound
  <2>4. CASE d - 1 \in 1..MaxDepth
    <3>1. deleting[d - 1] = DeleteDeeper(deleting[(d - 1) - 1])
      BY <1>1, <2>4
    <3>2. QED
      BY <2>2, <3>1 DEF Unwound
  <2>5. QED
    BY <2>1, <2>3, <2>4
<1>5. QED
  BY <1>3, <1>4

LEMMA DeletingDeletes ==
  ASSUME NEW G, Frame(G)
  PROVE  Deleter(G, deleting[MaxDepth])
<1> DEFINE C == {d \in Nat : d <= MaxDepth /\ ~Deleter(G, deleting[d])}
<1>1. MaxDepth \in Nat
  BY MptAssumption
<1>2. SUFFICES ASSUME C # {} PROVE FALSE
  BY <1>1
<1>3. PICK d \in C : \A e \in C : d <= e
  <2>1. C \subseteq Nat
    OBVIOUS
  <2> HIDE DEF C
  <2>2. QED
    BY <1>2, <2>1, LeastNatural
<1>4. d \in Nat /\ d <= MaxDepth /\ ~Deleter(G, deleting[d])
  BY <1>3
<1>5. CASE d = 0
  <2>1. deleting[0] = <<>>
    BY DeletingSteps
  <2>2. DOMAIN <<>> = {}
    OBVIOUS
  <2>3. Deleter(G, <<>>)
    BY <2>2 DEF Deleter
  <2>4. QED
    BY <1>4, <1>5, <2>1, <2>3
<1>6. CASE d # 0
  <2>1. d \in 1..MaxDepth /\ d - 1 \in Nat /\ d - 1 <= MaxDepth /\ ~(d <= d - 1)
        /\ d - 1 \in 0..MaxDepth
    BY <1>1, <1>4, <1>6
  <2>2. Deleter(G, deleting[d - 1])
    BY <1>3, <2>1
  <2>3. deleting[d] = DeleteDeeper(deleting[d - 1])
    BY <2>1, DeletingSteps
  <2>4. Unwound(deleting[d - 1])
    BY <2>1, DeletingUnwound
  <2> DEFINE f == deleting[d - 1]
             g == deleting[d]
  <2>5. Deleter(G, f) /\ g = DeleteDeeper(f) /\ Unwound(f)
    BY <2>2, <2>3, <2>4
  <2> HIDE DEF f, g
  <2>6. DOMAIN g = Datum
        /\ \A y \in Datum : g[y] = Deleted(f, y.node, y.nibbles, y.store)
    BY <2>5 DEF DeleteDeeper
  <2>7. ASSUME NEW y \in DOMAIN g, NEW R, NEW B, NEW E, NEW same, NEW a, NEW o,
               ToDelete(G, R, B, E, same, y.node, a, y.store, y.nibbles, o)
        PROVE  \E T : Erased(G, R, T, B, E, y.node, y.nibbles, a, y.store, g[y])
    <3>1. g[y] = Deleted(f, y.node, y.nibbles, y.store)
      BY <2>6
    <3>2. QED
      BY <2>5, <2>7, <3>1, DeletedErased
  <2>8. Deleter(G, g)
    BY <2>7 DEF Deleter
  <2>9. QED
    BY <1>4, <2>8 DEF g
<1>7. QED
  BY <1>5, <1>6

\* What delete does.
LEMMA NodeDeleted ==
  ASSUME NEW G, Frame(G), NEW R, NEW B, NEW C, NEW same, NEW n, NEW a, NEW s, NEW x, NEW o,
         ToDelete(G, R, B, C, same, n, a, s, x, o)
  PROVE  \E T : Erased(G, R, T, B, C, n, x, a, s, delete(s, n, x))
<1>1. Deleter(G, deleting[MaxDepth])
  BY DeletingDeletes
<1>2. QED
  BY <1>1, CallDeletes DEF delete


-----------------------------------------------------------------------------
(* What Get answers, and what is in memory.                                *)

\* Step e of the way of the key with rest x at a: the node is where what the
\* key went through leads.
OnWay(G, R, B, database, a, x, e) ==
  \E p \in Seq(Nibble) :
    /\ e = At(e.node, e.rest) /\ e.rest \in Seq(Nibble) /\ x = p \o e.rest
    /\ Step(G, a, p) \in G.places /\ LeafAt(G, e.rest, Step(G, a, p))
    /\ Good(G, R, e.node, Step(G, a, p), "any")
    /\ Within(G, B, database, e.node, Step(G, a, p))

\* From n the way of the key with rest x leads along p to m, and leaves q.
Leads(G, database, n, a, x, m, p, q) ==
  /\ p \in Seq(Nibble) /\ q \in Seq(Nibble) /\ x = p \o q
  /\ Onward(database, At(n, x)) = At(m, q)
  /\ <<m, Step(G, a, p)>> \in Below(G, database, n, a)
  /\ Step(G, a, p) \in G.places /\ LeafAt(G, q, Step(G, a, p))

LEMMA OnwardIs ==
  ASSUME NEW G, Frame(G), NEW R, NEW database, Sound(G, R, database),
         NEW n, NEW a, Good(G, R, n, a, "any"), NEW x, LeafAt(G, x, a),
         Continues(At(n, x))
  PROVE  \E m, p, q : Leads(G, database, n, a, x, m, p, q)
<1>1. Own(G, R, n, a, "any") /\ a \in G.places /\ x \in Seq(Nibble)
  BY GoodIs, OwnKinds, LeafIsPath
<1>2. At(n, x).node = n /\ At(n, x).rest = x
  BY DEF At
<1>3. CASE HasChild(At(n, x))
  <2> DEFINE i == Head(x)
             u == Tail(x)
  <2>1. n.type = "full" /\ x # <<>> /\ i \in DOMAIN n.children
    BY <1>2, <1>3 DEF HasChild
  <2>2. i \in Nibble /\ u \in Seq(Nibble) /\ <<i>> \in Seq(Nibble) /\ x = <<i>> \o u
    BY <1>1, <2>1, FirstAndRest
  <2>3. Onward(database, At(n, x)) = At(n.children[i], u)
    BY <1>2, <2>1 DEF Onward, ToChild
  <2>4. <<n.children[i], Step(G, a, <<i>>)>> \in Below(G, database, n, a)
    BY <2>1 DEF Below
  <2>5. Step(G, a, <<i>>) \in G.places
    BY <1>1, <2>1 DEF Own
  <2> HIDE DEF i, u
  <2>6. LeafAt(G, u, Step(G, a, <<i>>))
    BY <1>1, <2>2, <2>5, LeafBelow
  <2>7. QED
    BY <2>2, <2>3, <2>4, <2>5, <2>6 DEF Leads
<1>4. CASE ~HasChild(At(n, x))
  <2> DEFINE p == Path(n)
             q == After(n, x)
             m == LoadNode(database, n.value)
  <2>1. n.type = "extension" /\ IsPrefix(p, x)
    BY <1>2, <1>4 DEF Continues
  <2>2. n.value \in DOMAIN R /\ p \in Seq(Nibble) /\ Step(G, a, p) = R[n.value]
    BY <1>1, <2>1, ChildPlace
  <2>3. q \in Seq(Nibble) /\ x = p \o q
    BY <1>1, <2>1, <2>2, AfterPath
  <2>4. Step(G, a, p) \in G.places
    BY <2>2, Loaded
  <2>5. Onward(database, At(n, x)) = At(m, q)
    BY <1>2, <2>1 DEF Onward
  <2>6. <<m, Step(G, a, p)>> \in Below(G, database, n, a)
    BY <2>1 DEF Below
  <2> HIDE DEF p, q, m
  <2>7. LeafAt(G, q, Step(G, a, p))
    BY <1>1, <2>2, <2>3, <2>4, LeafBelow
  <2>8. QED
    BY <2>2, <2>3, <2>4, <2>5, <2>6, <2>7 DEF Leads
<1>5. QED
  BY <1>3, <1>4

LEMMA StaysOnWay ==
  ASSUME NEW G, Frame(G), NEW R, NEW B, NEW database, Sound(G, R, database),
         NEW a \in G.places, NEW x, NEW e, OnWay(G, R, B, database, a, x, e)
  PROVE  OnWay(G, R, B, database, a, x, NextOnWay(database, e))
<1>1. PICK p \in Seq(Nibble) :
         /\ e = At(e.node, e.rest) /\ e.rest \in Seq(Nibble) /\ x = p \o e.rest
         /\ Step(G, a, p) \in G.places /\ LeafAt(G, e.rest, Step(G, a, p))
         /\ Good(G, R, e.node, Step(G, a, p), "any")
         /\ Within(G, B, database, e.node, Step(G, a, p))
  BY DEF OnWay
<1>2. CASE ~Continues(e)
  BY <1>2 DEF NextOnWay
<1>3. CASE Continues(e)
  <2> DEFINE n == e.node
             y == e.rest
             b == Step(G, a, p)
  <2>1. /\ e = At(n, y) /\ y \in Seq(Nibble) /\ x = p \o y /\ b \in G.places
        /\ LeafAt(G, y, b) /\ Good(G, R, n, b, "any") /\ Within(G, B, database, n, b)
        /\ Continues(At(n, y))
    BY <1>1, <1>3
  <2>2. b = Step(G, a, p)
    OBVIOUS
  <2> HIDE DEF n, y, b
  <2>0. PICK m, r, q : Leads(G, database, n, b, y, m, r, q)
    BY <2>1, OnwardIs
  <2>3. /\ r \in Seq(Nibble) /\ q \in Seq(Nibble) /\ y = r \o q
        /\ Onward(database, At(n, y)) = At(m, q)
        /\ <<m, Step(G, b, r)>> \in Below(G, database, n, b)
        /\ Step(G, b, r) \in G.places /\ LeafAt(G, q, Step(G, b, r))
    BY <2>0 DEF Leads
  <2>4. NextOnWay(database, e) = At(m, q)
    BY <1>3, <2>1, <2>3 DEF NextOnWay
  <2> DEFINE c == Step(G, b, r)
             z == <<m, c>>
  <2>5. z \in Below(G, database, n, b) /\ z[1] = m /\ z[2] = c
    BY <2>3
  <2> HIDE DEF z
  <2>6. Good(G, R, m, c, "any")
    BY <2>1, <2>5, BelowIsGood
  <2>7. Within(G, B, database, m, c)
    BY <2>1, <2>5, WithinIs
  <2>8. Step(G, a, p \o r) = c
    BY <1>1, <2>1, <2>2, <2>3 DEF Frame
  <2>9. p \o r \in Seq(Nibble) /\ x = (p \o r) \o q
    <3>1. (p \o r) \o q = p \o (r \o q)
      BY <2>1, <2>2, <2>3, Associated
    <3>2. QED
      BY <2>1, <2>2, <2>3, <3>1
  <2> DEFINE f == At(m, q)
             g == p \o r
  <2>10. f.node = m /\ f.rest = q
    BY DEF At
  <2>11. /\ c \in G.places /\ LeafAt(G, q, c) /\ Step(G, a, g) = c
         /\ g \in Seq(Nibble) /\ x = g \o q /\ q \in Seq(Nibble)
    BY <2>3, <2>8, <2>9
  <2>12. f = At(f.node, f.rest)
    BY <2>10
  <2> HIDE DEF f, g, c
  <2>13. OnWay(G, R, B, database, a, x, f)
    BY <2>6, <2>7, <2>10, <2>11, <2>12 DEF OnWay
  <2>14. QED
    BY <2>4, <2>13 DEF f
<1>4. QED
  BY <1>2, <1>3

LEMMA WayIs ==
  ASSUME NEW G, Frame(G), NEW R, NEW B, NEW database, Sound(G, R, database),
         NEW n, NEW a, Good(G, R, n, a, "any"), Within(G, B, database, n, a),
         NEW x, LeafAt(G, x, a), NEW f, Way(f, database, n, x)
  PROVE  \A i \in 0..MaxDepth : OnWay(G, R, B, database, a, x, f[i])
<1> DEFINE C == {i \in 0..MaxDepth : ~OnWay(G, R, B, database, a, x, f[i])}
<1>1. MaxDepth \in Nat
  BY MptAssumption
<1>2. SUFFICES ASSUME C # {} PROVE FALSE
  OBVIOUS
<1>3. PICK i \in C : \A j \in C : i <= j
  <2>1. C \subseteq Nat
    BY <1>1
  <2> HIDE DEF C
  <2>2. QED
    BY <1>2, <2>1, LeastNatural
<1>4. i \in 0..MaxDepth /\ ~OnWay(G, R, B, database, a, x, f[i])
  BY <1>3
<1>5. a \in G.places /\ x \in Seq(Nibble)
  BY LeafIsPath
<1>6. f[0] = At(n, x) /\ \A j \in 1..MaxDepth : f[j] = NextOnWay(database, f[j - 1])
  BY DEF Way
<1>7. CASE i = 0
  <2>1. Step(G, a, <<>>) = a
    BY <1>5 DEF Frame
  <2>2. <<>> \in Seq(Nibble) /\ x = <<>> \o x
    BY <1>5
  <2> DEFINE e == At(n, x)
  <2>3. e.node = n /\ e.rest = x
    BY DEF At
  <2>4. e = At(e.node, e.rest)
    BY <2>3
  <2> HIDE DEF e
  <2>5. OnWay(G, R, B, database, a, x, e)
    BY <1>5, <2>1, <2>2, <2>3, <2>4 DEF OnWay
  <2>6. QED
    BY <1>4, <1>6, <1>7, <2>5 DEF e
<1>8. CASE i # 0
  <2>1. i \in 1..MaxDepth /\ i - 1 \in 0..MaxDepth /\ ~(i <= i - 1)
    BY <1>1, <1>4, <1>8
  <2>2. OnWay(G, R, B, database, a, x, f[i - 1])
    BY <1>3, <2>1
  <2>3. f[i] = NextOnWay(database, f[i - 1])
    BY <1>6, <2>1
  <2>4. QED
    BY <1>4, <1>5, <2>2, <2>3, StaysOnWay
<1>9. QED
  BY <1>7, <1>8

\* What a key that ends at a node finds there.
LEMMA AnswerIs ==
  ASSUME NEW G, Frame(G), NEW R, NEW n, NEW a, Good(G, R, n, a, "any"), NEW x, LeafAt(G, x, a)
  PROVE  get(At(n, x)) \in Value \cup {Missing, Nil}
<1>1. Own(G, R, n, a, "any") /\ a \in G.places /\ x \in Seq(Nibble)
  BY GoodIs, OwnKinds, LeafIsPath
<1>2. At(n, x).node = n /\ At(n, x).rest = x
  BY DEF At
<1>3. CASE n.type = "leaf"
  <2>1. n.value \in Value
    BY <1>1, <1>3 DEF Own
  <2>2. QED
    BY <1>2, <1>3, <2>1 DEF get
<1>4. CASE n.type = "full"
  <2>1. Cardinality(DOMAIN n.children) > 1 /\ DOMAIN n.children \subseteq Nibble
        /\ \A j \in DOMAIN n.children : Step(G, a, <<j>>) \in G.places
    BY <1>1, <1>4 DEF Own
  <2>2. PICK j \in DOMAIN n.children : TRUE
    BY <2>1, SomeChild
  <2>3. j \in Nibble /\ Step(G, a, <<j>>) \in G.places
    BY <2>1, <2>2
  <2>4. x # <<>>
    BY <1>1, <2>3, KeysGoOn
  <2>5. QED
    BY <1>2, <1>4, <2>4 DEF get
<1>5. CASE n.type = "extension"
  BY <1>2, <1>5 DEF get
<1>6. QED
  BY <1>1, <1>3, <1>4, <1>5, OwnKinds

\* What Get answers for a key.
LEMMA GetIs ==
  ASSUME NEW G, Frame(G), NEW R, NEW B, NEW database, Sound(G, R, database),
         NEW n, NEW a, Good(G, R, n, a, "any"), Within(G, B, database, n, a), Consistent(G, B),
         NEW x, LeafAt(G, x, a)
  PROVE  LET y == get(Walk(database, n, x))
         IN  /\ y \in Value \cup {Missing, Nil}
             /\ y # Nil => <<x, a, y>> \in B
<1>1. PICK f : Way(f, database, n, x)
  BY WalkSteps
<1> DEFINE e == f[MaxDepth]
<1>2. MaxDepth \in 0..MaxDepth
  BY MptAssumption
<1>3. Walk(database, n, x) = e
  BY <1>1 DEF Way
<1>4. OnWay(G, R, B, database, a, x, e)
  <2>1. \A i \in 0..MaxDepth : OnWay(G, R, B, database, a, x, f[i])
    BY <1>1, WayIs
  <2>2. QED
    BY <1>2, <2>1
<1> HIDE DEF e
<1>5. PICK p \in Seq(Nibble) :
         /\ e = At(e.node, e.rest) /\ e.rest \in Seq(Nibble) /\ x = p \o e.rest
         /\ Step(G, a, p) \in G.places /\ LeafAt(G, e.rest, Step(G, a, p))
         /\ Good(G, R, e.node, Step(G, a, p), "any")
         /\ Within(G, B, database, e.node, Step(G, a, p))
  BY <1>4 DEF OnWay
<1> DEFINE m == e.node
           q == e.rest
           b == Step(G, a, p)
           y == get(e)
<1>6. /\ e = At(m, q) /\ q \in Seq(Nibble) /\ x = p \o q /\ b \in G.places /\ LeafAt(G, q, b)
      /\ Good(G, R, m, b, "any") /\ Within(G, B, database, m, b) /\ a \in G.places
  BY <1>5, LeafIsPath
<1> HIDE DEF m, q
<1>7. y \in Value \cup {Missing, Nil}
  BY <1>6, AnswerIs
<1>8. ASSUME y # Nil PROVE <<x, a, y>> \in B
  <2>1. ~Continues(At(m, q))
    BY <1>6, <1>8 DEF get
  <2>2. Tells(G, B, m, b)
    BY <1>6, WithinIs
  <2>3. <<q, b, y>> \in B
    BY <1>6, <2>1, <2>2 DEF Tells
  <2> HIDE DEF y
  <2>4. <<p \o q, a, y>> \in B
    BY <1>6, <2>3 DEF Consistent
  <2>5. QED
    BY <1>6, <2>4
<1>9. QED
  BY <1>3, <1>7, <1>8


\* The way of the key with rest x from n comes to e.
Visits(database, n, x, e) ==
  \E f : Way(f, database, n, x) /\ \E i \in 0..MaxDepth : f[i] = e

LEMMA VisitsNext ==
  ASSUME NEW database, NEW n, NEW x, NEW e, Visits(database, n, x, e), Continues(e),
         get(Walk(database, n, x)) # Nil
  PROVE  Visits(database, n, x, Onward(database, e))
<1>1. PICK f : Way(f, database, n, x) /\ \E i \in 0..MaxDepth : f[i] = e
  BY DEF Visits
<1>2. PICK i \in 0..MaxDepth : f[i] = e
  BY <1>1
<1>3. Walk(database, n, x) = f[MaxDepth] /\ \A j \in 1..MaxDepth : f[j] = NextOnWay(database, f[j - 1])
  BY <1>1 DEF Way
<1>4. i # MaxDepth
  BY <1>2, <1>3 DEF get
<1>5. i + 1 \in 1..MaxDepth /\ i + 1 \in 0..MaxDepth /\ (i + 1) - 1 = i
  BY <1>2, <1>4, MptAssumption
<1>6. f[i + 1] = NextOnWay(database, f[i])
  BY <1>3, <1>5
<1>7. f[i + 1] = Onward(database, e)
  BY <1>2, <1>6 DEF NextOnWay
<1>8. QED
  BY <1>1, <1>5, <1>7 DEF Visits

LEMMA VisitsEnd ==
  ASSUME NEW database, NEW n, NEW x, NEW e, Visits(database, n, x, e), ~Continues(e)
  PROVE  Walk(database, n, x) = e
<1>1. PICK f : Way(f, database, n, x) /\ \E i \in 0..MaxDepth : f[i] = e
  BY DEF Visits
<1>2. PICK i \in 0..MaxDepth : f[i] = e
  BY <1>1
<1>3. Walk(database, n, x) = f[MaxDepth] /\ \A j \in 1..MaxDepth : f[j] = NextOnWay(database, f[j - 1])
  BY <1>1 DEF Way
<1> DEFINE E == {j \in Nat : i <= j /\ j <= MaxDepth /\ f[j] # e}
<1>4. E = {}
  <2> SUFFICES ASSUME E # {} PROVE FALSE
    OBVIOUS
  <2>1. PICK j \in E : \A k \in E : j <= k
    <3>1. E \subseteq Nat
      OBVIOUS
    <3> HIDE DEF E
    <3>2. QED
      BY <3>1, LeastNatural
  <2>2. j \in Nat /\ i <= j /\ j <= MaxDepth /\ f[j] # e /\ j # i
    BY <1>2, <2>1
  <2>3. j \in 1..MaxDepth /\ j - 1 \in Nat /\ i <= j - 1 /\ j - 1 <= MaxDepth /\ ~(j <= j - 1)
    BY <1>2, <2>2, MptAssumption
  <2>4. f[j - 1] = e
    BY <2>1, <2>3
  <2>5. f[j] = NextOnWay(database, e)
    BY <1>3, <2>3, <2>4
  <2>6. QED
    BY <2>2, <2>5 DEF NextOnWay
<1>5. f[MaxDepth] = e
  BY <1>2, <1>4, MptAssumption
<1>6. QED
  BY <1>3, <1>5

\* Each key that comes to n and has a path below it goes on to what is there.
LEMMA OnwardTo ==
  ASSUME NEW G, Frame(G), NEW R, NEW database, Sound(G, R, database),
         NEW n, NEW a, Good(G, R, n, a, "any"), NEW y \in Below(G, database, n, a)
  PROVE  \E p \in Seq(Nibble) :
           /\ y[2] = Step(G, a, p) /\ y[2] \in G.places
           /\ \A q \in Seq(Nibble) : /\ Continues(At(n, p \o q))
                                     /\ Onward(database, At(n, p \o q)) = At(y[1], q)
<1>1. Own(G, R, n, a, "any") /\ a \in G.places
  BY GoodIs, OwnKinds
<1>2. \A x : At(n, x).node = n /\ At(n, x).rest = x
  BY DEF At
<1>3. CASE n.type = "full"
  <2>1. PICK i \in DOMAIN n.children : y = <<n.children[i], Step(G, a, <<i>>)>>
    BY <1>3 DEF Below
  <2>2. i \in Nibble /\ Step(G, a, <<i>>) \in G.places
    BY <1>1, <1>3 DEF Own
  <2>3. y[1] = n.children[i] /\ y[2] = Step(G, a, <<i>>) /\ <<i>> \in Seq(Nibble)
    BY <2>1, <2>2
  <2>4. ASSUME NEW q \in Seq(Nibble)
        PROVE  /\ Continues(At(n, <<i>> \o q))
               /\ Onward(database, At(n, <<i>> \o q)) = At(y[1], q)
    <3> DEFINE x == <<i>> \o q
    <3>1. Head(x) = i /\ Tail(x) = q /\ x # <<>>
      BY <2>2, HeadOf
    <3> HIDE DEF x
    <3>2. HasChild(At(n, x))
      BY <1>2, <1>3, <2>1, <3>1 DEF HasChild
    <3>3. Continues(At(n, x))
      BY <3>2 DEF Continues
    <3>4. Onward(database, At(n, x)) = At(y[1], q)
      BY <1>2, <1>3, <2>3, <3>1 DEF Onward, ToChild
    <3>5. QED
      BY <3>3, <3>4 DEF x
  <2>5. QED
    BY <2>2, <2>3, <2>4
<1>4. CASE n.type = "extension"
  <2> DEFINE p == Path(n)
             m == LoadNode(database, n.value)
  <2>1. n.value \in DOMAIN R /\ p \in Seq(Nibble) /\ Step(G, a, p) = R[n.value]
    BY <1>1, <1>4, ChildPlace
  <2>2. Step(G, a, p) \in G.places
    BY <2>1, Loaded
  <2>3. y = <<m, Step(G, a, p)>>
    BY <1>4 DEF Below
  <2>4. y[1] = m /\ y[2] = Step(G, a, p)
    BY <2>3
  <2>5. ASSUME NEW q \in Seq(Nibble)
        PROVE  Continues(At(n, p \o q)) /\ Onward(database, At(n, p \o q)) = At(y[1], q)
    <3> DEFINE x == p \o q
    <3>0. p \in Seq(Nibble) /\ x \in Seq(Nibble)
      BY <2>1
    <3>1. x \in Seq(Nibble) /\ IsPrefix(p, x)
      <4> HIDE DEF p
      <4>1. \E z \in Seq(Nibble) : x = p \o z
        OBVIOUS
      <4> HIDE DEF x
      <4>2. QED
        BY <3>0, <4>1, PrefixIs
    <3> HIDE DEF x
    <3>2. After(n, x) \in Seq(Nibble) /\ x = p \o After(n, x)
      BY <2>1, <3>1, AfterPath
    <3> DEFINE z == After(n, x)
    <3> HIDE DEF z
    <3>3. z \in Seq(Nibble) /\ p \o q = p \o z /\ p \in Seq(Nibble)
      BY <2>1, <3>2 DEF x, z
    <3> HIDE DEF p
    <3>4. z = q
      BY <3>3, CancelLeft
    <3>5. Continues(At(n, x))
      BY <1>2, <1>4, <3>1 DEF Continues, p
    <3>6. Onward(database, At(n, x)) = At(y[1], q)
      BY <1>2, <1>4, <2>4, <3>4 DEF Onward, z
    <3>7. QED
      BY <3>5, <3>6 DEF x
  <2> HIDE DEF p
  <2>6. QED
    BY <2>1, <2>2, <2>4, <2>5
<1>5. CASE n.type \notin {"full", "extension"}
  BY <1>5 DEF Below
<1>6. QED
  BY <1>3, <1>4, <1>5

\* When Get answers for every key, what it answers is all that is allowed.
LEMMA Narrowed ==
  ASSUME NEW G, Frame(G), NEW R, NEW B, NEW C, Consistent(G, C),
         NEW database, Sound(G, R, database),
         NEW n, NEW a, Good(G, R, n, a, "any"), Within(G, B, database, n, a),
         \A x : LeafAt(G, x, a) =>
           /\ get(Walk(database, n, x)) # Nil
           /\ <<x, a, get(Walk(database, n, x))>> \in C
  PROVE  Within(G, C, database, n, a)
<1>1. PICK W : /\ <<n, a>> \in W
               /\ \A z \in W : Below(G, database, z[1], z[2]) \subseteq W
  BY DEF Within
<1> DEFINE Led(m, b, p) ==
             /\ p \in Seq(Nibble) /\ b = Step(G, a, p) /\ b \in G.places
             /\ Good(G, R, m, b, "any")
             /\ \A q : LeafAt(G, q, b) => Visits(database, n, p \o q, At(m, q))
           V == {z \in W : \E p : Led(z[1], z[2], p)}
<1>2. a \in G.places
  <2>1. Own(G, R, n, a, "any")
    BY GoodIs
  <2>2. QED
    BY <2>1, OwnKinds
<1>3. Led(n, a, <<>>)
  <2>1. Step(G, a, <<>>) = a /\ <<>> \in Seq(Nibble)
    BY <1>2 DEF Frame
  <2>2. ASSUME NEW q, LeafAt(G, q, a) PROVE Visits(database, n, <<>> \o q, At(n, q))
    <3>1. q \in Seq(Nibble)
      BY <2>2, LeafIsPath
    <3>2. <<>> \o q = q
      BY <3>1
    <3>3. PICK f : Way(f, database, n, q)
      BY WalkSteps
    <3>4. f[0] = At(n, q) /\ 0 \in 0..MaxDepth
      BY <3>3, MptAssumption DEF Way
    <3>5. QED
      BY <3>2, <3>3, <3>4 DEF Visits
  <2>3. QED
    BY <1>2, <2>1, <2>2
<1>4. <<n, a>> \in V
  <2> DEFINE z == <<n, a>>
  <2>1. z[1] = n /\ z[2] = a /\ z \in W
    BY <1>1
  <2> HIDE DEF z, Led
  <2>2. z \in V
    BY <1>3, <2>1
  <2>3. QED
    BY <2>2 DEF z
<1>5. ASSUME NEW z \in V
      PROVE  Tells(G, C, z[1], z[2]) /\ Below(G, database, z[1], z[2]) \subseteq V
  <2> DEFINE m == z[1]
             b == z[2]
  <2>1. z \in W
    OBVIOUS
  <2>2. PICK p : Led(m, b, p)
    <3> HIDE DEF Led
    <3>1. QED
      OBVIOUS
  <2>3. /\ p \in Seq(Nibble) /\ b = Step(G, a, p) /\ b \in G.places
        /\ Good(G, R, m, b, "any")
    BY <2>2
  <2>4. \A q : LeafAt(G, q, b) => Visits(database, n, p \o q, At(m, q))
    BY <2>2
  <2>5. Below(G, database, m, b) \subseteq W
    BY <1>1, <2>1
  <2>6. \A q : LeafAt(G, q, b) => q \in Seq(Nibble) /\ LeafAt(G, p \o q, a)
    <3> TAKE q
    <3> HAVE LeafAt(G, q, b)
    <3> HIDE DEF b
    <3>1. q \in Seq(Nibble)
      BY LeafIsPath
    <3>2. QED
      BY <1>2, <2>3, <3>1, LeafBelow
  <2> HIDE DEF Led, m, b
  <2>7. Tells(G, C, m, b)
    <3> SUFFICES ASSUME NEW q, LeafAt(G, q, b), ~Continues(At(m, q))
                 PROVE  <<q, b, get(At(m, q))>> \in C
      BY DEF Tells
    <3> DEFINE x == p \o q
    <3>1. LeafAt(G, x, a) /\ Visits(database, n, x, At(m, q)) /\ q \in Seq(Nibble)
      BY <2>4, <2>6
    <3> HIDE DEF x
    <3>2. Walk(database, n, x) = At(m, q)
      BY <3>1, VisitsEnd
    <3> DEFINE y == get(At(m, q))
    <3>3. <<x, a, y>> \in C
      BY <3>1, <3>2
    <3> HIDE DEF y
    <3>4. <<p \o q, a, y>> \in C
      BY <3>3 DEF x
    <3>5. <<q, b, y>> \in C
      BY <1>2, <2>3, <3>4 DEF Consistent
    <3>6. QED
      BY <3>5 DEF y
  <2>8. ASSUME NEW y \in Below(G, database, m, b)
        PROVE  y \in V
    <3>1. y \in W
      BY <2>5
    <3>2. Good(G, R, y[1], y[2], "any")
      BY <2>3, BelowIsGood
    <3>3. PICK r \in Seq(Nibble) :
             /\ y[2] = Step(G, b, r) /\ y[2] \in G.places
             /\ \A q \in Seq(Nibble) : /\ Continues(At(m, r \o q))
                                       /\ Onward(database, At(m, r \o q)) = At(y[1], q)
      BY <2>3, OnwardTo
    <3> DEFINE k == y[1]
               c == y[2]
    <3> HIDE DEF k, c
    <3>4. p \o r \in Seq(Nibble) /\ c = Step(G, a, p \o r) /\ c \in G.places
      BY <1>2, <2>3, <3>3 DEF Frame, c
    <3>5. ASSUME NEW q, LeafAt(G, q, c)
          PROVE  Visits(database, n, (p \o r) \o q, At(k, q))
      <4>1. q \in Seq(Nibble)
        BY <3>5, LeafIsPath
      <4> DEFINE u == r \o q
      <4>0. c = Step(G, b, r) /\ Step(G, b, r) \in G.places /\ LeafAt(G, q, Step(G, b, r))
        BY <3>3, <3>5 DEF c
      <4>2. LeafAt(G, u, b) /\ u \in Seq(Nibble)
        BY <2>3, <4>0, <4>1, LeafBelow
      <4>3. Continues(At(m, u)) /\ Onward(database, At(m, u)) = At(k, q)
        BY <3>3, <4>1 DEF k
      <4> HIDE DEF u
      <4> DEFINE x == p \o u
      <4>4. Visits(database, n, x, At(m, u)) /\ LeafAt(G, x, a)
        BY <2>4, <2>6, <4>2
      <4>5. get(Walk(database, n, x)) # Nil
        BY <4>4
      <4> HIDE DEF x
      <4>6. Visits(database, n, x, At(k, q))
        BY <4>3, <4>4, <4>5, VisitsNext
      <4>7. (p \o r) \o q = x
        BY <2>3, <4>1, Associated DEF x, u
      <4>8. QED
        BY <4>6, <4>7
    <3>6. Led(k, c, p \o r)
      BY <3>2, <3>4, <3>5 DEF Led, k, c
    <3>7. QED
      BY <3>1, <3>6 DEF k, c
  <2>9. QED
    BY <2>7, <2>8 DEF m, b
<1> HIDE DEF V
<1>6. QED
  BY <1>4, <1>5 DEF Within


\* The nodes in memory below a node that is kept there.
LEMMA MemoryGood ==
  ASSUME NEW G, NEW R, NEW n, NEW a, NEW w, Good(G, R, n, a, w), NEW m \in InMemory(n)
  PROVE  \E b : Good(G, R, m, b, w)
<1>1. PICK f : Levels(f, n)
  BY MemorySteps
<1>2. /\ InMemory(n) = UNION {f[i] : i \in 0..MaxDepth} /\ f[0] = {n}
      /\ \A i \in 1..MaxDepth : f[i] = ChildrenOf(f[i - 1])
  BY <1>1 DEF Levels
<1> DEFINE Fine(i) == \A k \in f[i] : \E b : Good(G, R, k, b, w)
           C == {i \in 0..MaxDepth : ~Fine(i)}
<1>3. MaxDepth \in Nat
  BY MptAssumption
<1>4. C = {}
  <2> SUFFICES ASSUME C # {} PROVE FALSE
    OBVIOUS
  <2>1. PICK i \in C : \A j \in C : i <= j
    <3>1. C \subseteq Nat
      BY <1>3
    <3> HIDE DEF C
    <3>2. QED
      BY <3>1, LeastNatural
  <2>2. i \in 0..MaxDepth /\ ~Fine(i)
    BY <2>1
  <2>3. i # 0
    BY <1>2, <2>2
  <2>4. i \in 1..MaxDepth /\ i - 1 \in 0..MaxDepth /\ ~(i <= i - 1)
    BY <1>3, <2>2, <2>3
  <2>5. Fine(i - 1)
    BY <2>1, <2>4
  <2>6. f[i] = ChildrenOf(f[i - 1])
    BY <1>2, <2>4
  <2>7. ASSUME NEW k \in f[i] PROVE \E b : Good(G, R, k, b, w)
    <3>1. PICK p \in f[i - 1] : p.type = "full" /\ \E j \in DOMAIN p.children : k = p.children[j]
      BY <2>6, <2>7 DEF ChildrenOf
    <3>2. PICK j \in DOMAIN p.children : k = p.children[j]
      BY <3>1
    <3>3. PICK b : Good(G, R, p, b, w)
      BY <2>5, <3>1
    <3>4. Good(G, R, p.children[j], Step(G, b, <<j>>), w)
      BY <3>1, <3>3, GoodIs
    <3>5. QED
      BY <3>2, <3>4
  <2>8. QED
    BY <2>2, <2>7
<1>5. PICK i \in 0..MaxDepth : m \in f[i]
  BY <1>2
<1>6. Fine(i)
  BY <1>4
<1>7. QED
  BY <1>5, <1>6

-----------------------------------------------------------------------------
(* The calls of Put and Delete.                                            *)

\* Root n over a database: all keys find an answer of B.
Holds(G, R, B, database, n, a) ==
  /\ Sound(G, R, database)
  /\ \/ n = Nil /\ \A y : LeafAt(G, y, a) => <<y, a, Missing>> \in B
     \/ n # Nil /\ Good(G, R, n, a, "kept") /\ Within(G, B, database, n, a)

\* What Get answers with that root.
LEMMA HeldAnswers ==
  ASSUME NEW G, Frame(G), NEW R, NEW B, Consistent(G, B), NEW database, NEW n, NEW a,
         Holds(G, R, B, database, n, a), NEW x, LeafAt(G, x, a)
  PROVE  LET y == get(Walk(database, n, x))
         IN  /\ y \in Value \cup {Missing, Nil}
             /\ y # Nil => <<x, a, y>> \in B
<1>1. CASE n = Nil
  <2> DEFINE e == At(n, x)
  <2>1. e.node.type = "nil"
    BY <1>1 DEF At, Nil
  <2>2. ~Continues(e)
    BY <2>1 DEF Continues, HasChild
  <2>3. get(e) = Missing
    BY <2>1, <2>2 DEF get
  <2> HIDE DEF e
  <2>4. PICK f : Way(f, database, n, x)
    BY WalkSteps
  <2>5. f[0] = e /\ 0 \in 0..MaxDepth
    BY <2>4, MptAssumption DEF Way, e
  <2>6. Visits(database, n, x, e)
    BY <2>4, <2>5 DEF Visits
  <2>7. Walk(database, n, x) = e
    BY <2>2, <2>6, VisitsEnd
  <2>8. <<x, a, Missing>> \in B
    BY <1>1 DEF Holds
  <2>9. QED
    BY <2>3, <2>7, <2>8
<1>2. CASE n # Nil
  <2>1. Sound(G, R, database) /\ Good(G, R, n, a, "kept") /\ Within(G, B, database, n, a)
    BY <1>2 DEF Holds
  <2>2. Good(G, R, n, a, "any")
    BY <2>1, KeptIsGood
  <2>3. QED
    BY <2>1, <2>2, GetIs
<1>3. QED
  BY <1>1, <1>2

\* The first leaf of a trie.
LEMMA FirstLeaf ==
  ASSUME NEW G, Frame(G), NEW R, NEW B, NEW C, NEW a, NEW s, Sound(G, R, s.db), IsStore(s),
         \A y : LeafAt(G, y, a) => <<y, a, Missing>> \in B,
         NEW x, LeafAt(G, x, a), NEW v \in Value, Differ(G, B, C, x, a, v)
  PROVE  Given(G, R, C, LeafNode(x, v), a, "kept", s)
<1> DEFINE m == LeafNode(x, v)
<1>1. x \in Seq(Nibble) /\ a \in G.places
  BY LeafIsPath
<1>2. m.type = "leaf" /\ m.path = x /\ m.value = v /\ m.hash = ZeroHash
      /\ m = [type |-> "leaf", path |-> x, value |-> v, hash |-> ZeroHash]
  BY DEF LeafNode
<1> HIDE DEF m
<1>3. Own(G, R, m, a, "kept")
  BY <1>1, <1>2 DEF Own
<1>4. Good(G, R, m, a, "kept")
  BY <1>2, <1>3, GoodIs
<1>5. Tells(G, C, m, a)
  <2> SUFFICES ASSUME NEW z, LeafAt(G, z, a) PROVE <<z, a, get(At(m, z))>> \in C
    BY DEF Tells
  <2>1. ~Continues(At(m, z))
    BY <1>2 DEF Continues, HasChild, At
  <2>2. CASE z = x
    <3>1. get(At(m, z)) = v
      BY <1>2, <2>1, <2>2 DEF get, At
    <3>2. QED
      BY <2>2, <3>1 DEF Differ
  <2>3. CASE z # x
    <3>1. Len(x) = Len(z) /\ z \in Seq(Nibble)
      BY <1>1 DEF Frame
    <3>2. x # <<>>
      <4>1. Len(<<>>) = 0
        OBVIOUS
      <4>2. QED
        BY <2>3, <3>1, <4>1, EmptySeq
    <3>3. get(At(m, z)) = Missing
      BY <1>2, <2>1, <2>3, <3>2 DEF get, At
    <3>4. QED
      BY <2>3, <3>3 DEF Differ
  <2>4. QED
    BY <2>2, <2>3
<1>6. Below(G, s.db, m, a) = {}
  BY <1>2 DEF Below
<1>7. Within(G, C, s.db, m, a)
  BY <1>5, <1>6, WithinIs
<1>8. QED
  BY <1>4, <1>7 DEF Given, m

\* A call that led to result r: the keys find what they found, and after it
\* went well one the answer that the call is for.
Called(G, T, B, C, a, r) ==
  /\ IsStore(r.store)
  /\ Holds(G, T, B, r.store.db, r.node, a)
  /\ r.store.ok => Holds(G, T, C, r.store.db, r.node, a)

LEMMA ChangedHolds ==
  ASSUME NEW G, NEW R, NEW T, NEW B, NEW C, NEW n, NEW a, NEW s, NEW r,
         Changed(G, R, T, B, C, n, a, "kept", s, r)
  PROVE  Called(G, T, B, C, a, r)
<1>1. /\ Good(G, T, r.node, a, "kept") /\ Within(G, B, r.store.db, r.node, a)
      /\ Later(G, R, T, B, s, r.store)
      /\ r.store.ok => Within(G, C, r.store.db, r.node, a)
  BY DEF Changed
<1>2. Own(G, T, r.node, a, "kept")
  BY <1>1, GoodIs
<1>3. r.node # Nil
  BY <1>2, OwnKinds
<1>4. Sound(G, T, r.store.db) /\ IsStore(r.store)
  BY <1>1 DEF Later
<1>5. QED
  BY <1>1, <1>3, <1>4 DEF Called, Holds

\* Put, as a whole.
LEMMA PutHolds ==
  ASSUME NEW G, Frame(G), NEW B, NEW C, Consistent(G, B), Consistent(G, C), NEW R, NEW s,
         NEW n, NEW a, Holds(G, R, B, s.db, n, a), IsStore(s),
         NEW x, LeafAt(G, x, a), NEW v \in Value, Differ(G, B, C, x, a, v)
  PROVE  LET i == insert(s, n, x, v)
             r == IF n = Nil THEN saveNode(s, LeafNode(x, v)) ELSE saveNode(i.store, i.node)
         IN  \E T : Called(G, T, B, C, a, r)
<1> DEFINE i == insert(s, n, x, v)
           r == IF n = Nil THEN saveNode(s, LeafNode(x, v)) ELSE saveNode(i.store, i.node)
<1>1. Sound(G, R, s.db) /\ C \subseteq B
  BY DEF Holds, Differ
<1>2. CASE n = Nil
  <2> DEFINE m == LeafNode(x, v)
  <2>1. r = saveNode(s, m)
    BY <1>2
  <2>2. \A y : LeafAt(G, y, a) => <<y, a, Missing>> \in B
    BY <1>2 DEF Holds
  <2> HIDE DEF r
  <2>3. Given(G, R, C, m, a, "kept", s)
    BY <1>1, <2>2, FirstLeaf
  <2> HIDE DEF m
  <2>4. PICK T : Changed(G, R, T, C, C, m, a, "kept", s, r)
    BY <2>1, <2>3, NodeChanged
  <2>5. Later(G, R, R, B, s, s)
    BY <1>1, LaterItself
  <2>6. Changed(G, R, T, B, C, m, a, "kept", s, r)
    BY <1>1, <2>4, <2>5, ChangedAfter
  <2>7. Called(G, T, B, C, a, r)
    BY <2>6, ChangedHolds
  <2>8. QED
    BY <2>7 DEF r
<1>3. CASE n # Nil
  <2>1. r = saveNode(i.store, i.node)
    BY <1>3
  <2>2. Good(G, R, n, a, "kept") /\ Within(G, B, s.db, n, a)
    BY <1>3 DEF Holds
  <2>3. ToInsert(G, R, B, C, n, a, "kept", s, x, v)
    BY <1>1, <2>2 DEF ToInsert, Given
  <2>4. PICK T : Changed(G, R, T, B, C, n, a, "kept", s, i)
    BY <2>3, NodeInserted
  <2> HIDE DEF i, r
  <2>5. PICK U : Changed(G, R, U, B, C, n, a, "kept", s, saveNode(i.store, i.node))
    BY <1>1, <2>4, SavedAfter
  <2>6. Called(G, U, B, C, a, r)
    BY <2>1, <2>5, ChangedHolds
  <2>7. QED
    BY <2>6 DEF r, i
<1>4. QED
  BY <1>2, <1>3

\* Delete, as a whole.
LEMMA DeleteHolds ==
  ASSUME NEW G, Frame(G), NEW B, NEW C, Consistent(G, B), Consistent(G, C), NEW R, NEW s,
         NEW n, NEW a, Holds(G, R, B, s.db, n, a), IsStore(s), n # Nil,
         NEW x, LeafAt(G, x, a), Differ(G, B, C, x, a, Missing),
         NEW same, NEW o, Cleanly(same, s.db, n, x, o), same => B = C
  PROVE  LET d == delete(s, n, x)
             r == IF d.node = Nil THEN d ELSE saveNode(d.store, d.node)
         IN  \E T : Called(G, T, B, C, a, r)
<1> DEFINE d == delete(s, n, x)
           r == IF d.node = Nil THEN d ELSE saveNode(d.store, d.node)
<1>1. /\ Sound(G, R, s.db) /\ C \subseteq B
      /\ Good(G, R, n, a, "kept") /\ Within(G, B, s.db, n, a)
  BY DEF Holds, Differ
<1>2. ToDelete(G, R, B, C, same, n, a, s, x, o)
  BY <1>1 DEF ToDelete, Given
<1>3. PICK T : Erased(G, R, T, B, C, n, x, a, s, d)
  BY <1>2, NodeDeleted
<1> HIDE DEF d
<1>4. Later(G, R, T, B, s, d.store) /\ Sound(G, T, d.store.db) /\ IsStore(d.store)
  BY <1>3 DEF Erased, Later
<1>5. CASE d.node = Nil
  <2>1. n.type = "leaf" /\ n.path = x
    BY <1>3, <1>5 DEF Erased
  <2>2. Tells(G, B, n, a)
    BY <1>1, WithinIs
  <2>3. ASSUME NEW y, LeafAt(G, y, a) PROVE <<y, a, Missing>> \in C
    <3>1. ~Continues(At(n, y))
      BY <2>1 DEF Continues, HasChild, At
    <3>2. <<y, a, get(At(n, y))>> \in B
      BY <2>2, <2>3, <3>1 DEF Tells
    <3>3. CASE y = x
      BY <3>3 DEF Differ
    <3>4. CASE y # x
      <4>1. Len(x) = Len(y) /\ y \in Seq(Nibble) /\ x \in Seq(Nibble)
        BY <2>3 DEF Frame
      <4>2. x # <<>>
        <5>1. Len(<<>>) = 0
          OBVIOUS
        <5>2. QED
          BY <3>4, <4>1, <5>1, EmptySeq
      <4>3. get(At(n, y)) = Missing
        BY <2>1, <3>1, <3>4, <4>2 DEF get, At
      <4>4. QED
        BY <2>3, <3>2, <3>4, <4>3 DEF Differ
    <3>5. QED
      BY <3>3, <3>4
  <2>4. r = d
    BY <1>5
  <2> HIDE DEF r
  <2>5. Called(G, T, B, C, a, r)
    BY <1>1, <1>4, <1>5, <2>3, <2>4 DEF Called, Holds
  <2>6. QED
    BY <2>5 DEF r, d
<1>6. CASE d.node # Nil
  <2> DEFINE m == d.node
             t == d.store
             D == IF t.ok THEN C ELSE B
  <2>1. r = saveNode(t, m)
    BY <1>6
  <2>2. Good(G, T, m, a, "kept") /\ Within(G, D, t.db, m, a)
    BY <1>3, <1>6 DEF Erased
  <2>3. D \subseteq B /\ (t.ok => D = C)
    BY <1>1
  <2>4. Sound(G, T, t.db) /\ IsStore(t) /\ Later(G, R, T, B, s, t)
    BY <1>4
  <2> HIDE DEF r, m, t, D
  <2>5. Given(G, T, D, m, a, "kept", t)
    BY <2>2, <2>4 DEF Given
  <2>6. PICK U : Changed(G, T, U, D, D, m, a, "kept", t, r)
    BY <2>1, <2>5, NodeChanged
  <2>7. Changed(G, R, U, B, D, m, a, "kept", s, r)
    BY <2>3, <2>4, <2>6, ChangedAfter
  <2>8. r.store.ok => t.ok
    BY <2>6 DEF Changed, Later
  <2>9. Changed(G, R, U, B, C, m, a, "kept", s, r)
    BY <2>3, <2>7, <2>8 DEF Changed
  <2>10. Called(G, U, B, C, a, r)
    BY <2>9, ChangedHolds
  <2>11. QED
    BY <2>10 DEF r, m, t, d
<1>7. QED
  BY <1>5, <1>6


\* What a step does to a trie whose keys find answers of B.
LEMMA StepHolds ==
  ASSUME ~AnyDelete, NEW G, Frame(G), NEW a, NEW B, NEW C, Consistent(G, B), Consistent(G, C),
         NEW R, Holds(G, R, B, db, root, a), NEW k, LeafAt(G, keyToNibbles(k), a), NEW v,
         Differ(G, B, C, keyToNibbles(k), a, v), NEW left,
         \/ v \in Value /\ Put(k, v, left)
         \/ v = Missing /\ Delete(k, left) /\ (answers[k] = Missing => B = C)
  PROVE  /\ call'.ok \in BOOLEAN
         /\ \E T : /\ Holds(G, T, B, db', root', a)
                   /\ call'.ok => Holds(G, T, C, db', root', a)
<1> DEFINE s == Opened(left)
           x == keyToNibbles(k)
<1>1. IsStore(s) /\ s.db = db
  BY DEF Opened, IsStore
<1>2. LeafAt(G, x, a) /\ Differ(G, B, C, x, a, v)
  OBVIOUS
<1>3. CASE v \in Value /\ Put(k, v, left)
  <2> DEFINE i == insert(s, root, x, v)
             r == IF root = Nil THEN saveNode(s, LeafNode(x, v)) ELSE saveNode(i.store, i.node)
  <2>1. /\ root' = r.node /\ db' = r.store.db
        /\ call' = [op |-> "put", key |-> k, value |-> v, ok |-> r.store.ok]
    <3>1. Returns("put", k, v, left, r)
      BY <1>3 DEF Put, SaveResult
    <3> HIDE DEF r
    <3>2. QED
      BY <3>1 DEF Returns
  <2>2. \E T : Called(G, T, B, C, a, r)
    <3> HIDE DEF s, x
    <3>1. Holds(G, R, B, s.db, root, a)
      BY <1>1
    <3>2. QED
      BY <1>1, <1>2, <1>3, <3>1, PutHolds
  <2> HIDE DEF r
  <2>3. call'.ok = r.store.ok
    BY <2>1
  <2>4. QED
    BY <2>1, <2>2, <2>3 DEF Called, IsStore
<1>4. CASE v = Missing /\ Delete(k, left) /\ (answers[k] = Missing => B = C)
  <2> DEFINE d == delete(s, root, x)
             r == IF d.node = Nil THEN d ELSE saveNode(d.store, d.node)
             same == answers[k] = Missing
  <2>1. /\ root' = r.node /\ db' = r.store.db
        /\ call' = [op |-> "delete", key |-> k, value |-> Missing, ok |-> r.store.ok]
    <3>1. Returns("delete", k, Missing, left, r)
      BY <1>4 DEF Delete, SaveLeft, SaveResult
    <3> HIDE DEF r
    <3>2. QED
      BY <3>1 DEF Returns
  <2>2. DeletesCleanly(k) /\ root # Nil
    BY <1>4 DEF Delete
  <2>3. EndsWell(same, db, Down(root, x))
    BY <2>2 DEF DeletesCleanly, EndsWell
  <2>4. same => B = C
    BY <1>4
  <2>5. \E T : Called(G, T, B, C, a, r)
    <3> HIDE DEF s, x, same
    <3>1. Holds(G, R, B, s.db, root, a) /\ Differ(G, B, C, x, a, Missing)
      BY <1>1, <1>2, <1>4
    <3>2. Cleanly(same, s.db, root, x, Nibble)
      BY <1>1, <2>3, DownCleanly
    <3>3. QED
      BY <1>1, <1>2, <2>2, <2>4, <3>1, <3>2, DeleteHolds
  <2> HIDE DEF r
  <2>6. call'.ok = r.store.ok
    BY <2>1
  <2>7. QED
    BY <2>1, <2>5, <2>6 DEF Called, IsStore
<1>5. QED
  BY <1>3, <1>4


-----------------------------------------------------------------------------
(* What holds whatever the keys are: places are how much of a key is left.  *)

Rank ==
  [places |-> Nat,
   step   |-> [y \in Nat \X Seq(Nibble) |-> y[1] - Len(y[2])],
   leaves |-> {y \in Seq(Nibble) \X Nat : Len(y[1]) = y[2]}]

\* Every answer that is a value, or none.
AnyAnswer == Seq(Nibble) \X Nat \X (Value \cup {Missing})

LEMMA RankIs ==
  /\ Rank.places = Nat
  /\ \A a \in Nat, p \in Seq(Nibble) : Step(Rank, a, p) = a - Len(p)
  /\ \A p, a : LeafAt(Rank, p, a) <=> p \in Seq(Nibble) /\ a \in Nat /\ Len(p) = a
<1>1. Rank.places = Nat
  BY DEF Rank
<1>2. \A a \in Nat, p \in Seq(Nibble) : Step(Rank, a, p) = a - Len(p)
  BY DEF Rank, Step
<1>3. \A p, a : LeafAt(Rank, p, a) <=> p \in Seq(Nibble) /\ a \in Nat /\ Len(p) = a
  BY DEF Rank, LeafAt
<1>4. QED
  BY <1>1, <1>2, <1>3

LEMMA RankFrame == Frame(Rank)
<1> DEFINE S == Seq(Nibble)
<1>1. /\ Rank.places = Nat
      /\ \A a \in Nat, p \in S : Step(Rank, a, p) = a - Len(p)
      /\ \A p, a : LeafAt(Rank, p, a) <=> p \in S /\ a \in Nat /\ Len(p) = a
  BY RankIs
<1>2. \A p, q \in S : p \o q \in S /\ Len(p \o q) = Len(p) + Len(q)
  BY LenSum
<1>3. \A p \in S : Len(p) \in Nat
  OBVIOUS
<1>4. <<>> \in S /\ Len(<<>>) = 0
  OBVIOUS
<1>5. \A i \in Nibble : <<i>> \in S /\ Len(<<i>>) = 1
  OBVIOUS
<1> HIDE DEF S
<1>6. \A p, a : LeafAt(Rank, p, a) => p \in S /\ a \in Rank.places
  BY <1>1
<1>7. \A p, a, b : LeafAt(Rank, p, a) /\ LeafAt(Rank, p, b) => a = b
  BY <1>1
<1>8. \A a, b \in Rank.places, p \in S : Step(Rank, a, p) = Step(Rank, b, p) => a = b
  BY <1>1, <1>3
<1>9. \A a \in Rank.places : Step(Rank, a, <<>>) = a
  BY <1>1, <1>4
<1>10. \A a \in Rank.places, p, q \in S :
         Step(Rank, a, p) \in Rank.places => Step(Rank, Step(Rank, a, p), q) = Step(Rank, a, p \o q)
  <2> TAKE a \in Rank.places, p, q \in S
  <2> HAVE Step(Rank, a, p) \in Rank.places
  <2>1. Step(Rank, a, p) = a - Len(p) /\ a - Len(p) \in Nat /\ a \in Nat
    BY <1>1
  <2>2. Step(Rank, a - Len(p), q) = (a - Len(p)) - Len(q)
    BY <1>1, <2>1
  <2> DEFINE u == p \o q
  <2>3. u \in S /\ Len(u) = Len(p) + Len(q)
    BY <1>2
  <2> HIDE DEF u
  <2>4. Step(Rank, a, u) = a - (Len(p) + Len(q))
    BY <1>1, <2>1, <2>3
  <2>5. Step(Rank, Step(Rank, a, p), q) = Step(Rank, a, u)
    BY <1>3, <2>1, <2>2, <2>4
  <2>6. QED
    BY <2>5 DEF u
<1>11. \A a \in Rank.places, p, q \in S :
         Step(Rank, a, p \o q) \in Rank.places => Step(Rank, a, p) \in Rank.places
  <2> TAKE a \in Rank.places, p, q \in S
  <2> DEFINE u == p \o q
  <2> HAVE Step(Rank, a, u) \in Rank.places
  <2>1. u \in S /\ Len(u) = Len(p) + Len(q)
    BY <1>2
  <2> HIDE DEF u
  <2>2. a \in Nat /\ Step(Rank, a, p) = a - Len(p) /\ Step(Rank, a, u) = a - (Len(p) + Len(q))
    BY <1>1, <2>1
  <2>3. QED
    BY <1>1, <1>3, <2>2
<1>12. \A a \in Rank.places, p, q \in S :
         Step(Rank, a, p) \in Rank.places
           => (LeafAt(Rank, p \o q, a) <=> LeafAt(Rank, q, Step(Rank, a, p)))
  <2> TAKE a \in Rank.places, p, q \in S
  <2> HAVE Step(Rank, a, p) \in Rank.places
  <2>1. a \in Nat /\ Step(Rank, a, p) = a - Len(p) /\ a - Len(p) \in Nat
    BY <1>1
  <2> DEFINE u == p \o q
  <2>2. u \in S /\ Len(u) = Len(p) + Len(q)
    BY <1>2
  <2> HIDE DEF u
  <2>3. LeafAt(Rank, u, a) <=> Len(p) + Len(q) = a
    BY <1>1, <2>1, <2>2
  <2>4. LeafAt(Rank, q, a - Len(p)) <=> Len(q) = a - Len(p)
    BY <1>1, <2>1
  <2>5. LeafAt(Rank, u, a) <=> LeafAt(Rank, q, Step(Rank, a, p))
    BY <1>3, <2>1, <2>3, <2>4
  <2>6. QED
    BY <2>5 DEF u
<1>13. \A a \in Rank.places, c, p, q \in S, i, j \in Nibble :
         i # j /\ LeafAt(Rank, c \o (<<i>> \o p), a) /\ LeafAt(Rank, c \o (<<j>> \o q), a)
           => Step(Rank, a, c \o <<i>>) \in Rank.places
  <2> TAKE a \in Rank.places, c, p, q \in S, i, j \in Nibble
  <2> HAVE i # j /\ LeafAt(Rank, c \o (<<i>> \o p), a) /\ LeafAt(Rank, c \o (<<j>> \o q), a)
  <2>1. <<i>> \o p \in S /\ Len(<<i>> \o p) = 1 + Len(p)
    BY <1>2, <1>5
  <2>2. Len(c \o (<<i>> \o p)) = Len(c) + (1 + Len(p))
    BY <1>2, <2>1
  <2>3. a = Len(c) + (1 + Len(p)) /\ a \in Nat
    BY <1>1, <2>2
  <2>4. c \o <<i>> \in S /\ Len(c \o <<i>>) = Len(c) + 1
    BY <1>2, <1>5
  <2>5. Step(Rank, a, c \o <<i>>) = a - (Len(c) + 1)
    BY <1>1, <2>3, <2>4
  <2>6. QED
    BY <1>1, <1>3, <2>3, <2>5
<1>14. \A a \in Rank.places, c, q \in S, i, j \in Nibble :
         Step(Rank, a, c \o <<i>>) \in Rank.places /\ LeafAt(Rank, c \o (<<j>> \o q), a)
           => Step(Rank, a, c \o <<j>>) \in Rank.places
  <2> TAKE a \in Rank.places, c, q \in S, i, j \in Nibble
  <2> HAVE Step(Rank, a, c \o <<i>>) \in Rank.places /\ LeafAt(Rank, c \o (<<j>> \o q), a)
  <2>1. /\ c \o <<i>> \in S /\ Len(c \o <<i>>) = Len(c) + 1
        /\ c \o <<j>> \in S /\ Len(c \o <<j>>) = Len(c) + 1
    BY <1>2, <1>5
  <2>2. /\ a \in Nat /\ Step(Rank, a, c \o <<i>>) = a - (Len(c) + 1)
        /\ Step(Rank, a, c \o <<j>>) = a - (Len(c) + 1)
    BY <1>1, <2>1
  <2>3. QED
    BY <2>2
<1>15. \A a \in Rank.places, p, x \in S :
         Step(Rank, a, p) \in Rank.places /\ LeafAt(Rank, x, a) => Len(p) <= Len(x)
  BY <1>1, <1>3
<1>16. \A a \in Rank.places, p, x \in S :
         LeafAt(Rank, p, a) /\ LeafAt(Rank, x, a) => Len(p) = Len(x)
  BY <1>1
<1> DEFINE H == Rank
<1>17. Frame(H)
  <2> HIDE DEF H
  <2>1. Rank = H
    BY DEF H
  <2>2. QED
    BY <1>6, <1>7, <1>8, <1>9, <1>10, <1>11, <1>12, <1>13, <1>14, <1>15, <1>16, <2>1
       DEF Frame, S
<1>18. QED
  BY <1>17

LEMMA RankConsistent == Consistent(Rank, AnyAnswer)
<1> SUFFICES ASSUME NEW a \in Rank.places, NEW p \in Seq(Nibble), Step(Rank, a, p) \in Rank.places,
                    NEW q, NEW y, LeafAt(Rank, q, Step(Rank, a, p))
             PROVE  <<q, Step(Rank, a, p), y>> \in AnyAnswer <=> <<p \o q, a, y>> \in AnyAnswer
  BY DEF Consistent
<1>1. a \in Nat /\ Step(Rank, a, p) \in Nat /\ q \in Seq(Nibble)
  BY RankIs
<1>2. p \o q \in Seq(Nibble)
  BY <1>1
<1>3. QED
  BY <1>1, <1>2 DEF AnyAnswer

\* A key's nibbles.
LEMMA KeyNibbles ==
  ASSUME NEW k \in Key
  PROVE  keyToNibbles(k) \in Seq(Nibble) /\ Len(keyToNibbles(k)) = 2 * Len(k)
<1>1. k \in Seq(Byte) /\ Len(k) \in Nat
  BY MptAssumption
<1> DEFINE x == keyToNibbles(k)
<1>2. x = [i \in 1..2 * Len(k) |-> IF i % 2 = 1 THEN k[(i + 1) \div 2] \div 16
                                   ELSE k[i \div 2] % 16]
  BY DEF keyToNibbles, ToNibbles
<1>3. \A i \in 1..2 * Len(k) : x[i] \in Nibble
  <2> TAKE i \in 1..2 * Len(k)
  <2>1. i \in Nat /\ i >= 1 /\ i <= 2 * Len(k)
    BY <1>1
  <2>2. CASE i % 2 = 1
    <3>1. (i + 1) \div 2 \in 1..Len(k)
      BY <1>1, <2>1, <2>2
    <3>2. k[(i + 1) \div 2] \in Byte
      BY <1>1, <3>1
    <3> DEFINE b == k[(i + 1) \div 2]
    <3>3. x[i] = b \div 16
      BY <1>2, <2>2
    <3> HIDE DEF b, x
    <3>4. b \in 0..255
      BY <3>2 DEF b, Byte
    <3>5. b \div 16 \in 0..15
      BY <3>4
    <3>6. QED
      BY <3>3, <3>5 DEF Nibble
  <2>3. CASE i % 2 # 1
    <3>1. i \div 2 \in 1..Len(k)
      BY <1>1, <2>1, <2>3
    <3>2. k[i \div 2] \in Byte
      BY <1>1, <3>1
    <3> DEFINE b == k[i \div 2]
    <3>3. x[i] = b % 16
      BY <1>2, <2>3
    <3> HIDE DEF b, x
    <3>4. b \in 0..255
      BY <3>2 DEF b, Byte
    <3>5. b % 16 \in 0..15
      BY <3>4
    <3>6. QED
      BY <3>3, <3>5 DEF Nibble
  <2>4. QED
    BY <2>2, <2>3
<1>4. x = [i \in 1..2 * Len(k) |-> x[i]] /\ 2 * Len(k) \in Nat
  BY <1>1, <1>2
<1> HIDE DEF x
<1>5. x \in Seq(Nibble) /\ Len(x) = 2 * Len(k)
  <2>1. x \in [1..2 * Len(k) -> Nibble]
    BY <1>3, <1>4
  <2>2. QED
    BY <1>4, <2>1, LenProperties, SeqDef
<1>6. QED
  BY <1>5 DEF x

\* What is left of a key at the root.
KeyLength == 2 * Len(CHOOSE k \in Key : TRUE)

LEMMA KeysRank ==
  ASSUME NEW k \in Key
  PROVE  LeafAt(Rank, keyToNibbles(k), KeyLength)
<1>1. KeyLength = 2 * Len(k) /\ Len(k) \in Nat
  BY MptAssumption DEF KeyLength
<1>2. QED
  BY <1>1, KeyNibbles, RankIs


-----------------------------------------------------------------------------
(* The invariants of every state.                                          *)

\* The database and the root make a trie, over some places of the hashes.
Standing ==
  /\ \E R : Holds(Rank, R, AnyAnswer, db, root, KeyLength)
  /\ answers \in [Key -> Value \cup {Missing}]

\* What a call leaves as answers is what Get answers afterwards.
LEMMA AnswersAre ==
  ASSUME NEW k, NEW v, NEW left, Put(k, v, left) \/ Delete(k, left)
  PROVE  /\ answers' = [x \in Key |-> Get(db', root', x)]
         /\ \A x \in Key : answers'[x] # Nil
<1>1. \A op, w, r : Returns(op, k, w, left, r) =>
        /\ answers' = [x \in Key |-> Get(db', root', x)]
        /\ \A x \in Key : answers'[x] # Nil
  BY DEF Returns
<1>2. CASE Put(k, v, left)
  <2> DEFINE s == Opened(left)
             nibbles == keyToNibbles(k)
             i == insert(s, root, nibbles, v)
             r == IF root = Nil THEN saveNode(s, LeafNode(nibbles, v))
                  ELSE saveNode(i.store, i.node)
  <2>1. Returns("put", k, v, left, r)
    BY <1>2 DEF Put, SaveResult
  <2> HIDE DEF r
  <2>2. QED
    BY <1>1, <2>1
<1>3. CASE Delete(k, left)
  <2> DEFINE d == delete(Opened(left), root, keyToNibbles(k))
             r == IF d.node = Nil THEN d ELSE saveNode(d.store, d.node)
  <2>1. Returns("delete", k, Missing, left, r)
    BY <1>3 DEF Delete, SaveLeft, SaveResult
  <2> HIDE DEF r
  <2>2. QED
    BY <1>1, <2>1
<1>4. QED
  BY <1>2, <1>3

LEMMA AnyDiffers ==
  ASSUME NEW x, NEW a, LeafAt(Rank, x, a), NEW v \in Value \cup {Missing}
  PROVE  Differ(Rank, AnyAnswer, AnyAnswer, x, a, v)
<1>1. <<x, a, v>> \in AnyAnswer
  BY RankIs DEF AnyAnswer
<1>2. QED
  BY <1>1 DEF Differ

\* A nil root stands over every sound database.
LEMMA NilHolds ==
  ASSUME NEW R, NEW database, Sound(Rank, R, database), NEW a
  PROVE  Holds(Rank, R, AnyAnswer, database, Nil, a)
<1>1. \A y : LeafAt(Rank, y, a) => <<y, a, Missing>> \in AnyAnswer
  BY RankIs DEF AnyAnswer
<1>2. QED
  BY <1>1 DEF Holds

LEMMA StandingInit == ASSUME MptInit PROVE Standing
<1>1. db = <<>> /\ root = Nil /\ answers = [k \in Key |-> Missing]
  BY DEF MptInit
<1> DEFINE R == [h \in {} |-> 0]
<1>2. DOMAIN db = {} /\ DOMAIN R = {}
  BY <1>1
<1> HIDE DEF R
<1>3. Sound(Rank, R, db)
  BY <1>2 DEF Sound
<1>4. Holds(Rank, R, AnyAnswer, db, root, KeyLength)
  BY <1>1, <1>3, NilHolds
<1>5. QED
  BY <1>1, <1>4 DEF Standing

LEMMA StandingStep ==
  ASSUME ~AnyDelete, Standing, MptNext(Int)
  PROVE  Standing'
<1>1. PICK R : Holds(Rank, R, AnyAnswer, db, root, KeyLength)
  BY DEF Standing
<1>2. ASSUME NEW k \in Key, NEW v \in Value \cup {Missing}, NEW left,
             (v \in Value /\ Put(k, v, left)) \/ (v = Missing /\ Delete(k, left))
      PROVE  Standing'
  <2> DEFINE x == keyToNibbles(k)
  <2>1. LeafAt(Rank, x, KeyLength)
    BY KeysRank
  <2> HIDE DEF x
  <2>2. Differ(Rank, AnyAnswer, AnyAnswer, x, KeyLength, v)
    BY <2>1, AnyDiffers
  <2>3. PICK T : Holds(Rank, T, AnyAnswer, db', root', KeyLength)
    BY <1>1, <1>2, <2>1, <2>2, RankFrame, RankConsistent, StepHolds DEF x
  <2>4. /\ answers' = [z \in Key |-> Get(db', root', z)]
        /\ \A z \in Key : answers'[z] # Nil
    BY <1>2, AnswersAre
  <2>5. ASSUME NEW z \in Key
        PROVE  answers'[z] \in Value \cup {Missing}
    <3>1. LeafAt(Rank, keyToNibbles(z), KeyLength)
      BY KeysRank
    <3>2. get(Walk(db', root', keyToNibbles(z))) \in Value \cup {Missing, Nil}
      BY <2>3, <3>1, RankFrame, RankConsistent, HeldAnswers
    <3>3. answers'[z] = get(Walk(db', root', keyToNibbles(z))) /\ answers'[z] # Nil
      BY <2>4 DEF Get
    <3>4. QED
      BY <3>2, <3>3
  <2>6. answers' \in [Key -> Value \cup {Missing}]
    BY <2>4, <2>5
  <2>7. QED
    BY <2>3, <2>6 DEF Standing
<1>3. ASSUME NewMPT PROVE Standing'
  <2>1. root' = Nil /\ db' = db /\ answers' = [k \in Key |-> Missing]
    BY <1>3 DEF NewMPT
  <2>2. Sound(Rank, R, db)
    BY <1>1 DEF Holds
  <2>3. Holds(Rank, R, AnyAnswer, db', root', KeyLength)
    BY <2>1, <2>2, NilHolds
  <2>4. QED
    BY <2>1, <2>3 DEF Standing
<1>4. CASE \E k \in Key, v \in Value, left \in Int : Put(k, v, left)
  BY <1>2, <1>4
<1>5. CASE \E k \in Key, left \in Int : Delete(k, left)
  BY <1>2, <1>5
<1>6. CASE NewMPT
  BY <1>3, <1>6
<1>7. QED
  BY <1>4, <1>5, <1>6 DEF MptNext

\* The nodes in memory below a nil root: itself.
LEMMA NilMemory == InMemory(Nil) = {Nil}
<1>1. PICK f : Levels(f, Nil)
  BY MemorySteps
<1>2. /\ InMemory(Nil) = UNION {f[i] : i \in 0..MaxDepth} /\ f[0] = {Nil}
      /\ \A i \in 1..MaxDepth : f[i] = ChildrenOf(f[i - 1])
  BY <1>1 DEF Levels
<1>3. MaxDepth \in Nat
  BY MptAssumption
<1>4. Nil.type # "full"
  BY DEF Nil
<1> DEFINE C == {i \in 0..MaxDepth : ~(f[i] \subseteq {Nil})}
<1>5. C = {}
  <2>1. SUFFICES ASSUME C # {} PROVE FALSE
    OBVIOUS
  <2>2. C \subseteq Nat
    OBVIOUS
  <2>3. PICK i \in C : \A j \in C : i <= j
    <3> HIDE DEF C
    <3>1. QED
      BY <2>1, <2>2, LeastNatural
  <2>4. i \in 0..MaxDepth /\ ~(f[i] \subseteq {Nil})
    BY <2>3
  <2>5. i # 0
    BY <1>2, <2>4
  <2>6. i \in 1..MaxDepth /\ i - 1 \in 0..MaxDepth /\ ~(i <= i - 1)
    BY <1>3, <2>4, <2>5
  <2>7. f[i - 1] \subseteq {Nil}
    BY <2>3, <2>6
  <2>8. ChildrenOf(f[i - 1]) \subseteq {Nil}
    BY <1>4, <2>7 DEF ChildrenOf
  <2>9. QED
    BY <1>2, <2>4, <2>6, <2>8
<1>6. \A i \in 0..MaxDepth : f[i] \subseteq {Nil}
  BY <1>5
<1>7. 0 \in 0..MaxDepth
  BY <1>3
<1>8. QED
  BY <1>2, <1>6, <1>7

\* A node in memory is nil or has a place.
LEMMA MemoryOwn ==
  ASSUME NEW R, Holds(Rank, R, AnyAnswer, db, root, KeyLength), NEW m \in InMemory(root)
  PROVE  m = Nil \/ \E b : Own(Rank, R, m, b, "kept")
<1>1. CASE root = Nil
  BY <1>1, NilMemory
<1>2. CASE root # Nil
  <2>1. Good(Rank, R, root, KeyLength, "kept")
    BY <1>2 DEF Holds
  <2>2. PICK b : Good(Rank, R, m, b, "kept")
    BY <2>1, MemoryGood
  <2>3. QED
    BY <2>2, GoodIs
<1>3. QED
  BY <1>1, <1>2

LEMMA StandingTypeOK == ASSUME Standing PROVE TypeOK
<1>1. PICK R : Holds(Rank, R, AnyAnswer, db, root, KeyLength)
  BY DEF Standing
<1>2. Sound(Rank, R, db)
  BY <1>1 DEF Holds
<1>3. \A h \in DOMAIN db : db[h].type = h.type
  BY <1>2 DEF Sound
<1>4. QED
  BY <1>3 DEF Standing, TypeOK

LEMMA StandingResolves == ASSUME Standing PROVE HashesResolve
<1>1. PICK R : Holds(Rank, R, AnyAnswer, db, root, KeyLength)
  BY DEF Standing
<1>2. Sound(Rank, R, db)
  BY <1>1 DEF Holds
<1>3. DOMAIN R = DOMAIN db
  BY <1>2 DEF Sound
<1>4. ASSUME NEW h \in DOMAIN db
      PROVE  HashesIn(db[h]) \subseteq DOMAIN db
  <2> DEFINE c == db[h]
  <2>1. Fits(Rank, R, c, R[h])
    BY <1>2, <1>4 DEF Sound
  <2> HIDE DEF c
  <2>2. CASE c.type = "leaf"
    <3>1. HashesIn(c) = {}
      BY <2>2 DEF HashesIn
    <3>2. QED
      BY <3>1 DEF c
  <2>3. CASE c.type = "extension"
    <3>1. HashesIn(c) = {c.value}
      BY <2>3 DEF HashesIn
    <3>2. c.value \in DOMAIN R
      BY <2>1, <2>3 DEF Fits
    <3>3. QED
      BY <1>3, <3>1, <3>2 DEF c
  <2>4. CASE c.type = "full"
    <3>1. HashesIn(c) = {c.children[i] : i \in DOMAIN c.children}
      BY <2>4 DEF HashesIn
    <3>2. \A i \in DOMAIN c.children : c.children[i] \in DOMAIN R
      BY <2>1, <2>4 DEF Fits
    <3>3. QED
      BY <1>3, <3>1, <3>2 DEF c
  <2>5. QED
    BY <2>1, <2>2, <2>3, <2>4 DEF Fits
<1>5. ASSUME NEW n \in InMemory(root), n.type = "extension"
      PROVE  n.value \in DOMAIN db
  <2>1. n # Nil
    BY <1>5 DEF Nil
  <2>2. PICK b : Own(Rank, R, n, b, "kept")
    BY <1>1, <2>1, MemoryOwn
  <2>3. n.value \in DOMAIN R
    BY <1>5, <2>2 DEF Own
  <2>4. QED
    BY <1>3, <2>3
<1>6. QED
  BY <1>4, <1>5 DEF HashesResolve

LEMMA StandingBranches == ASSUME Standing PROVE FullNodesBranch
<1>1. PICK R : Holds(Rank, R, AnyAnswer, db, root, KeyLength)
  BY DEF Standing
<1>2. ASSUME NEW n \in InMemory(root), n.type = "full"
      PROVE  Cardinality(DOMAIN n.children) > 1
  <2>1. n # Nil
    BY <1>2 DEF Nil
  <2>2. PICK b : Own(Rank, R, n, b, "kept")
    BY <1>1, <2>1, MemoryOwn
  <2>3. QED
    BY <1>2, <2>2 DEF Own
<1>3. ASSUME NEW h \in DOMAIN db, db[h].type = "full"
      PROVE  Cardinality(DOMAIN db[h].children) > 1
  <2> DEFINE c == db[h]
  <2>1. Fits(Rank, R, c, R[h])
    BY <1>1, <1>3 DEF Holds, Sound
  <2>2. c.type = "full"
    BY <1>3
  <2> HIDE DEF c
  <2>3. Cardinality(DOMAIN c.children) > 1
    BY <2>1, <2>2 DEF Fits
  <2>4. QED
    BY <2>3 DEF c
<1>4. QED
  BY <1>2, <1>3 DEF FullNodesBranch, Everywhere

LEMMA MptStands == ASSUME ~AnyDelete PROVE MptSpec => []Standing
<1>1. ASSUME Standing, UNCHANGED mptVars PROVE Standing'
  BY <1>1 DEF Standing, mptVars
<1>2. Standing /\ [MptNext(Int)]_mptVars => Standing'
  BY <1>1, StandingStep
<1>3. MptInit => Standing
  BY StandingInit
<1>4. QED
  BY <1>2, <1>3, PTL DEF MptSpec

\* Whatever keys were put and deleted, whichever write failed and wherever the
\* program started again on its database, there is a node of the kind that was
\* hashed under every hash, and Get answers a value or that there is none.
THEOREM MptTyped == ASSUME ~AnyDelete PROVE MptSpec => []TypeOK
BY MptStands, StandingTypeOK, PTL

\* Nodes are saved before what names them, so every hash that a content in the
\* database or an extension in memory names can be loaded.
THEOREM MptHashesResolve == ASSUME ~AnyDelete PROVE MptSpec => []HashesResolve
BY MptStands, StandingResolves, PTL

\* No full node in memory or in the database has less than two children, after
\* any split, any delete and any failed write.
THEOREM MptFullNodesBranch == ASSUME ~AnyDelete PROVE MptSpec => []FullNodesBranch
BY MptStands, StandingBranches, PTL


-----------------------------------------------------------------------------
(* What holds when any two keys differ in their first nibbles and after      *)
(* them: places are the beginnings of keys, no longer than what is first.    *)

KeyPaths == {keyToNibbles(k) : k \in Key}

Begins(first) ==
  {p \in Seq(Nibble) : Len(p) <= first /\ \E q \in Seq(Nibble) : p \o q \in KeyPaths}

Position(first) ==
  [places |-> Begins(first),
   step   |-> [y \in Seq(Nibble) \X Seq(Nibble) |-> y[1] \o y[2]],
   leaves |-> {y \in Seq(Nibble) \X Begins(first) : y[2] \o y[1] \in KeyPaths}]

LEMMA PositionIs ==
  ASSUME NEW first
  PROVE  /\ Position(first).places = Begins(first)
         /\ \A a, p \in Seq(Nibble) : Step(Position(first), a, p) = a \o p
         /\ \A p, a : LeafAt(Position(first), p, a) <=>
              p \in Seq(Nibble) /\ a \in Begins(first) /\ a \o p \in KeyPaths
<1>1. Position(first).places = Begins(first)
  BY DEF Position
<1>2. \A a, p \in Seq(Nibble) : Step(Position(first), a, p) = a \o p
  BY DEF Position, Step
<1>3. ASSUME NEW p, NEW a
      PROVE  LeafAt(Position(first), p, a) <=>
               p \in Seq(Nibble) /\ a \in Begins(first) /\ a \o p \in KeyPaths
  <2>1. LeafAt(Position(first), p, a) <=>
          <<p, a>> \in {y \in Seq(Nibble) \X Begins(first) : y[2] \o y[1] \in KeyPaths}
    BY DEF Position, LeafAt
  <2>2. <<p, a>>[1] = p /\ <<p, a>>[2] = a
    OBVIOUS
  <2>3. QED
    BY <2>1, <2>2
<1>4. QED
  BY <1>1, <1>2, <1>3

\* Keys' paths have one length; two of them differ twice.
LEMMA PathsPart ==
  ASSUME NEW first \in Nat, KeysPart(first), NEW x \in KeyPaths, NEW y \in KeyPaths
  PROVE  /\ x \in Seq(Nibble) /\ y \in Seq(Nibble) /\ Len(x) = Len(y)
         /\ x # y => /\ \E i \in 1..Len(x) : i <= first /\ x[i] # y[i]
                     /\ \E i \in 1..Len(x) : i > first /\ x[i] # y[i]
<1>1. PICK k \in Key, l \in Key : x = keyToNibbles(k) /\ y = keyToNibbles(l)
  BY DEF KeyPaths
<1>2. x \in Seq(Nibble) /\ y \in Seq(Nibble) /\ Len(x) = Len(y)
  BY <1>1, KeyNibbles, MptAssumption
<1>3. x # y => k # l
  BY <1>1
<1>4. k # l => /\ \E i \in DOMAIN x : i <= first /\ x[i] # y[i]
               /\ \E i \in DOMAIN x : i > first /\ x[i] # y[i]
  BY <1>1 DEF KeysPart
<1>5. DOMAIN x = 1..Len(x)
  BY <1>2
<1>6. QED
  BY <1>2, <1>3, <1>4, <1>5

\* Paths that agree on all of the first nibbles, or after them, are the same.
LEMMA PathsMeet ==
  ASSUME NEW first \in Nat, KeysPart(first), NEW x \in KeyPaths, NEW y \in KeyPaths,
         \/ \A i \in 1..Len(x) : i <= first => x[i] = y[i]
         \/ \A i \in 1..Len(x) : i > first => x[i] = y[i]
  PROVE  x = y
BY PathsPart

\* A leaf's path determines the place.
LEMMA LeafsPosition ==
  ASSUME NEW first \in Nat, KeysPart(first), NEW p \in Seq(Nibble),
         NEW a \in Begins(first), NEW b \in Begins(first),
         a \o p \in KeyPaths, b \o p \in KeyPaths
  PROVE  a = b
<1>1. a \in Seq(Nibble) /\ b \in Seq(Nibble) /\ Len(a) <= first /\ Len(b) <= first
  BY DEF Begins
<1> DEFINE x == a \o p
           y == b \o p
<1>2. /\ x \in Seq(Nibble) /\ Len(x) = Len(a) + Len(p) /\ Len(a) \in Nat /\ Len(p) \in Nat
      /\ \A i \in 1..Len(p) : x[Len(a) + i] = p[i]
  BY <1>1, Joined
<1>3. /\ y \in Seq(Nibble) /\ Len(y) = Len(b) + Len(p) /\ Len(b) \in Nat
      /\ \A i \in 1..Len(p) : y[Len(b) + i] = p[i]
  BY <1>1, Joined
<1>4. x \in KeyPaths /\ y \in KeyPaths
  OBVIOUS
<1>5. x = y => a = b
  BY <1>1, ConcatSimplifications
<1> HIDE DEF x, y
<1>6. Len(x) = Len(y)
  BY <1>4, PathsPart
<1>7. Len(a) = Len(b)
  BY <1>2, <1>3, <1>6
<1>8. ASSUME NEW i \in 1..Len(x), i > first
      PROVE  x[i] = y[i]
  <2> DEFINE j == i - Len(a)
  <2>1. j \in 1..Len(p) /\ i = Len(a) + j /\ i = Len(b) + j
    BY <1>1, <1>2, <1>7, <1>8
  <2> HIDE DEF j
  <2>2. x[Len(a) + j] = p[j] /\ y[Len(b) + j] = p[j]
    BY <1>2, <1>3, <2>1
  <2>3. QED
    BY <2>1, <2>2
<1>9. x = y
  BY <1>4, <1>8, PathsMeet
<1>10. QED
  BY <1>5, <1>9

\* Where two keys part there are first nibbles left.
LEMMA PartEarly ==
  ASSUME NEW first \in Nat, KeysPart(first), NEW d \in Seq(Nibble),
         NEW p \in Seq(Nibble), NEW q \in Seq(Nibble), NEW i \in Nibble, NEW j \in Nibble, i # j,
         d \o (<<i>> \o p) \in KeyPaths, d \o (<<j>> \o q) \in KeyPaths
  PROVE  Len(d) + 1 <= first
<1> DEFINE s == <<i>> \o p
           t == <<j>> \o q
           x == d \o s
           y == d \o t
<1>1. <<i>> \in Seq(Nibble) /\ <<j>> \in Seq(Nibble) /\ Len(<<i>>) = 1 /\ Len(<<j>>) = 1
      /\ <<i>>[1] = i /\ <<j>>[1] = j
  OBVIOUS
<1>2. s \in Seq(Nibble) /\ Len(s) = 1 + Len(p) /\ s[1] = i /\ Len(p) \in Nat
  <2>1. 1 \in 1..Len(<<i>>)
    BY <1>1
  <2>2. QED
    BY <1>1, <2>1, Joined
<1>3. t \in Seq(Nibble) /\ Len(t) = 1 + Len(q) /\ t[1] = j /\ Len(q) \in Nat
  <2>1. 1 \in 1..Len(<<j>>)
    BY <1>1
  <2>2. QED
    BY <1>1, <2>1, Joined
<1>4. x \in KeyPaths /\ y \in KeyPaths
  OBVIOUS
<1> HIDE DEF s, t
<1>5. /\ Len(x) = Len(d) + Len(s) /\ Len(d) \in Nat
      /\ \A m \in 1..Len(d) : x[m] = d[m]
      /\ \A m \in 1..Len(s) : x[Len(d) + m] = s[m]
  BY <1>2, Joined
<1>6. /\ Len(y) = Len(d) + Len(t)
      /\ \A m \in 1..Len(d) : y[m] = d[m]
      /\ \A m \in 1..Len(t) : y[Len(d) + m] = t[m]
  BY <1>3, Joined
<1> HIDE DEF x, y
<1>7. x[Len(d) + 1] = i /\ y[Len(d) + 1] = j
  <2>1. 1 \in 1..Len(s) /\ 1 \in 1..Len(t)
    BY <1>2, <1>3
  <2>2. QED
    BY <1>2, <1>3, <1>5, <1>6, <2>1
<1>8. x # y
  BY <1>7
<1>9. PICK m \in 1..Len(x) : m <= first /\ x[m] # y[m]
  BY <1>4, <1>8, PathsPart
<1>10. ~(m \in 1..Len(d))
  BY <1>5, <1>6, <1>9
<1>11. QED
  BY <1>2, <1>5, <1>9, <1>10

LEMMA BeginsIs ==
  ASSUME NEW first, NEW p \in Seq(Nibble), NEW q \in Seq(Nibble),
         Len(p) <= first, p \o q \in KeyPaths
  PROVE  p \in Begins(first)
BY DEF Begins


\* Path r is p and q after it.
Joins(p, q, r) == p \in Seq(Nibble) /\ q \in Seq(Nibble) /\ r = p \o q

LEMMA JoinsIs ==
  /\ \A p, q, r, l, m, x :
       Joins(p, q, l) /\ Joins(q, r, m) /\ Joins(p, m, x) => Joins(l, r, x)
  /\ \A p, q, r : Joins(p, q, r) =>
       /\ p \in Seq(Nibble) /\ q \in Seq(Nibble) /\ r \in Seq(Nibble)
       /\ Len(p) \in Nat /\ Len(q) \in Nat /\ Len(r) = Len(p) + Len(q)
<1>1. \A p, q, r : Joins(p, q, r) =>
       /\ p \in Seq(Nibble) /\ q \in Seq(Nibble) /\ r \in Seq(Nibble)
       /\ Len(p) \in Nat /\ Len(q) \in Nat /\ Len(r) = Len(p) + Len(q)
  BY JoinedAll DEF Joins
<1>2. ASSUME NEW p, NEW q, NEW r, NEW l, NEW m, NEW x,
             Joins(p, q, l), Joins(q, r, m), Joins(p, m, x)
      PROVE  Joins(l, r, x)
  <2>1. p \in Seq(Nibble) /\ q \in Seq(Nibble) /\ r \in Seq(Nibble) /\ l \in Seq(Nibble)
    BY <1>1, <1>2
  <2>2. l = p \o q /\ m = q \o r /\ x = p \o m
    BY <1>2 DEF Joins
  <2>3. (p \o q) \o r = p \o (q \o r)
    BY <2>1, Associated
  <2>4. x = l \o r
    BY <2>2, <2>3
  <2>5. QED
    BY <2>1, <2>4 DEF Joins
<1>3. QED
  BY <1>1, <1>2

\* Path f after c from place a, and p after it.
LEMMA Rejoined ==
  ASSUME NEW a, NEW c, NEW f, NEW p, NEW s, NEW w, NEW e, NEW u, NEW d, NEW x,
         Joins(f, p, s), Joins(c, s, w), Joins(c, f, e), Joins(a, e, u), Joins(a, c, d),
         Joins(a, w, x)
  PROVE  /\ Joins(d, s, x) /\ Joins(u, p, x)
         /\ d \in Seq(Nibble) /\ Len(d) = Len(a) + Len(c)
         /\ u \in Seq(Nibble) /\ Len(u) = Len(a) + (Len(c) + Len(f))
         /\ Len(a) \in Nat /\ Len(c) \in Nat
<1>1. Joins(d, s, x)
  BY JoinsIs
<1>2. Joins(e, p, w)
  BY JoinsIs
<1>3. Joins(u, p, x)
  BY <1>2, JoinsIs
<1>4. /\ d \in Seq(Nibble) /\ Len(d) = Len(a) + Len(c)
      /\ Len(a) \in Nat /\ Len(c) \in Nat
  <2>1. Joins(a, c, d)
    OBVIOUS
  <2>2. QED
    BY ONLY <2>1, JoinsIs
<1>5. Len(e) = Len(c) + Len(f)
  <2>1. Joins(c, f, e)
    OBVIOUS
  <2>2. QED
    BY ONLY <2>1, JoinsIs
<1>6. u \in Seq(Nibble) /\ Len(u) = Len(a) + Len(e)
  <2>1. Joins(a, e, u)
    OBVIOUS
  <2>2. QED
    BY ONLY <2>1, JoinsIs
<1>7. QED
  BY <1>1, <1>3, <1>4, <1>5, <1>6

\* Where two keys part, the next nibble leads to a place.
LEMMA PartingPlace ==
  ASSUME NEW first \in Nat, KeysPart(first), NEW a \in Seq(Nibble), NEW c \in Seq(Nibble),
         NEW p \in Seq(Nibble), NEW q \in Seq(Nibble), NEW i \in Nibble, NEW j \in Nibble, i # j,
         a \o (c \o (<<i>> \o p)) \in KeyPaths, a \o (c \o (<<j>> \o q)) \in KeyPaths
  PROVE  a \o (c \o <<i>>) \in Begins(first)
<1> DEFINE f == <<i>>
           g == <<j>>
           s == f \o p
           t == g \o q
           d == a \o c
           e == c \o f
           h == c \o g
           u == a \o e
           v == a \o h
           w == c \o s
           z == c \o t
           x == a \o w
           y == a \o z
<1>1. f \in Seq(Nibble) /\ g \in Seq(Nibble) /\ Len(f) = 1
  OBVIOUS
<1>2. x \in KeyPaths /\ y \in KeyPaths
  OBVIOUS
<1>3. a \o (c \o <<i>>) = u /\ s = <<i>> \o p /\ t = <<j>> \o q
  OBVIOUS
<1> HIDE DEF f, g
<1>4. Joins(f, p, s) /\ Joins(g, q, t)
  BY <1>1 DEF Joins
<1> HIDE DEF s, t
<1>5. /\ Joins(c, s, w) /\ Joins(c, t, z) /\ Joins(c, f, e) /\ Joins(c, g, h)
      /\ Joins(a, c, d)
  BY <1>1, <1>4, JoinsIs DEF Joins
<1> HIDE DEF w, z, e, h, d
<1>6. Joins(a, e, u) /\ Joins(a, h, v) /\ Joins(a, w, x) /\ Joins(a, z, y)
  BY <1>5, JoinsIs DEF Joins
<1> HIDE DEF u, v, x, y
<1>7. /\ Joins(d, s, x) /\ Joins(u, p, x)
      /\ d \in Seq(Nibble) /\ Len(d) = Len(a) + Len(c)
      /\ u \in Seq(Nibble) /\ Len(u) = Len(a) + (Len(c) + Len(f))
      /\ Len(a) \in Nat /\ Len(c) \in Nat
  BY <1>4, <1>5, <1>6, Rejoined
<1>8. Joins(d, t, y)
  BY <1>4, <1>5, <1>6, Rejoined
<1>9. d \o (<<i>> \o p) \in KeyPaths /\ d \o (<<j>> \o q) \in KeyPaths
  BY <1>2, <1>3, <1>7, <1>8 DEF Joins
<1>10. Len(d) + 1 <= first
  BY <1>7, <1>9, PartEarly
<1>11. Len(u) <= first
  BY <1>1, <1>7, <1>10
<1>12. u \in Begins(first)
  BY <1>2, <1>7, <1>11, BeginsIs DEF Joins
<1>13. QED
  BY <1>3, <1>12

\* Beside a place there is one for every key that comes there.
LEMMA PlaceBeside ==
  ASSUME NEW first, NEW a \in Seq(Nibble), NEW c \in Seq(Nibble), NEW q \in Seq(Nibble),
         NEW i \in Nibble, NEW j \in Nibble,
         a \o (c \o <<i>>) \in Begins(first), a \o (c \o (<<j>> \o q)) \in KeyPaths
  PROVE  a \o (c \o <<j>>) \in Begins(first)
<1> DEFINE f == <<i>>
           g == <<j>>
           s == f \o q
           t == g \o q
           d == a \o c
           e == c \o f
           h == c \o g
           u == a \o e
           v == a \o h
           w == c \o s
           z == c \o t
           x == a \o w
           y == a \o z
<1>1. f \in Seq(Nibble) /\ g \in Seq(Nibble) /\ Len(f) = 1 /\ Len(g) = 1
  OBVIOUS
<1>2. u \in Begins(first) /\ y \in KeyPaths
  OBVIOUS
<1>3. a \o (c \o <<j>>) = v
  OBVIOUS
<1> HIDE DEF f, g
<1>4. Joins(f, q, s) /\ Joins(g, q, t)
  BY <1>1 DEF Joins
<1> HIDE DEF s, t
<1>5. /\ Joins(c, s, w) /\ Joins(c, t, z) /\ Joins(c, f, e) /\ Joins(c, g, h)
      /\ Joins(a, c, d)
  BY <1>1, <1>4, JoinsIs DEF Joins
<1> HIDE DEF w, z, e, h, d
<1>6. Joins(a, e, u) /\ Joins(a, h, v) /\ Joins(a, w, x) /\ Joins(a, z, y)
  BY <1>5, JoinsIs DEF Joins
<1> HIDE DEF u, v, x, y
<1>7. Len(u) = Len(a) + (Len(c) + Len(f))
  BY <1>4, <1>5, <1>6, Rejoined
<1>8. Joins(v, q, y) /\ v \in Seq(Nibble) /\ Len(v) = Len(a) + (Len(c) + Len(g))
  BY <1>4, <1>5, <1>6, Rejoined
<1>9. Len(v) = Len(u)
  BY <1>1, <1>7, <1>8
<1>10. Len(u) <= first
  BY <1>2 DEF Begins
<1>11. v \in Begins(first)
  BY <1>2, <1>8, <1>9, <1>10, BeginsIs DEF Joins
<1>12. QED
  BY <1>3, <1>11

LEMMA PositionFrame ==
  ASSUME NEW first \in Nat, KeysPart(first)
  PROVE  Frame(Position(first))
<1> DEFINE H == Position(first)
           S == Seq(Nibble)
           P == Begins(first)
<1>1. /\ H.places = P
      /\ \A a, p \in S : Step(H, a, p) = a \o p
      /\ \A p, a : LeafAt(H, p, a) <=> p \in S /\ a \in P /\ a \o p \in KeyPaths
  BY PositionIs
<1>2. \A p, q \in S :
        /\ p \o q \in S /\ Len(p \o q) = Len(p) + Len(q)
        /\ Len(p) \in Nat /\ Len(q) \in Nat
  BY JoinedAll
<1>3. \A p, q, r \in S : (p \o q) \o r = p \o (q \o r)
  BY Associated
<1>4. <<>> \in S /\ \A p \in S : p \o <<>> = p
  <2>1. \A p \in S : p \o <<>> = p
    BY ConcatEmptySeq
  <2>2. QED
    BY <2>1
<1>5. \A i \in Nibble : <<i>> \in S /\ Len(<<i>>) = 1
  OBVIOUS
<1>6. \A p : p \in P <=> p \in S /\ Len(p) <= first /\ \E q \in S : p \o q \in KeyPaths
  BY DEF Begins
<1>7. \A p \in S, a, b \in P : a \o p \in KeyPaths /\ b \o p \in KeyPaths => a = b
  BY LeafsPosition
<1>8. \A a, b, p \in S : a \o p = b \o p => a = b
  BY ConcatSimplifications
<1>9. /\ \A a, c, p, q \in S, i, j \in Nibble :
           i # j /\ a \o (c \o (<<i>> \o p)) \in KeyPaths /\ a \o (c \o (<<j>> \o q)) \in KeyPaths
             => a \o (c \o <<i>>) \in P
      /\ \A a, c, q \in S, i, j \in Nibble :
           a \o (c \o <<i>>) \in P /\ a \o (c \o (<<j>> \o q)) \in KeyPaths
             => a \o (c \o <<j>>) \in P
  BY PartingPlace, PlaceBeside
<1>10. \A x, y \in KeyPaths : Len(x) = Len(y)
  BY PathsPart
<1> HIDE DEF H, S, P
<1>11. \A p, a : LeafAt(H, p, a) => p \in S /\ a \in H.places
  BY <1>1
<1>12. \A p, a, b : LeafAt(H, p, a) /\ LeafAt(H, p, b) => a = b
  BY <1>1, <1>7
<1>13. \A a, b \in H.places, p \in S : Step(H, a, p) = Step(H, b, p) => a = b
  <2> TAKE a, b \in H.places, p \in S
  <2>1. a \in S /\ b \in S
    BY <1>1, <1>6
  <2>2. Step(H, a, p) = a \o p /\ Step(H, b, p) = b \o p
    BY <1>1, <2>1
  <2>3. a \o p = b \o p => a = b
    BY <1>8, <2>1
  <2>4. QED
    BY <2>2, <2>3
<1>14. \A a \in H.places : Step(H, a, <<>>) = a
  BY <1>1, <1>4, <1>6
<1>15. \A a \in H.places, p, q \in S :
         Step(H, a, p) \in H.places => Step(H, Step(H, a, p), q) = Step(H, a, p \o q)
  <2> TAKE a \in H.places, p, q \in S
  <2> HAVE Step(H, a, p) \in H.places
  <2> DEFINE u == p \o q
             w == a \o p
  <2>1. a \in S /\ u \in S /\ w \in S
    BY <1>1, <1>2, <1>6
  <2>2. w \o q = a \o u
    <3>1. a \in S
      BY <2>1
    <3>2. QED
      BY ONLY Zenon, <3>1, p \in S, q \in S, <1>3
  <2>3. Step(H, a, p) = w
    BY <1>1, <2>1
  <2> HIDE DEF u, w
  <2>4. Step(H, w, q) = w \o q /\ Step(H, a, u) = a \o u
    BY <1>1, <2>1
  <2>5. Step(H, Step(H, a, p), q) = Step(H, a, u)
    BY <2>2, <2>3, <2>4
  <2>6. QED
    BY <2>5 DEF u
<1>16. \A a \in H.places, p, q \in S :
         Step(H, a, p \o q) \in H.places => Step(H, a, p) \in H.places
  <2> TAKE a \in H.places, p, q \in S
  <2> DEFINE u == p \o q
             w == a \o p
  <2> HAVE Step(H, a, u) \in H.places
  <2>1. a \in S /\ u \in S /\ w \in S /\ Len(w) = Len(a) + Len(p) /\ Len(p) \in Nat /\ Len(q) \in Nat
        /\ Len(u) = Len(p) + Len(q) /\ Len(a) \in Nat
    BY <1>1, <1>2, <1>6
  <2>2. w \o q = a \o u
    <3>1. a \in S
      BY <2>1
    <3>2. QED
      BY ONLY Zenon, <3>1, p \in S, q \in S, <1>3
  <2>3. Step(H, a, p) = w
    BY <1>1, <2>1
  <2> HIDE DEF u, w
  <2>4. Step(H, a, u) = a \o u
    BY <1>1, <2>1
  <2>5. Len(w \o q) = Len(w) + Len(q)
    BY <1>2, <2>1
  <2>6. w \o q \in P
    BY <1>1, <2>2, <2>4
  <2>7. Len(w) <= first
    <3>1. Len(w \o q) <= first
      BY <1>6, <2>6
    <3>2. QED
      BY <2>1, <2>5, <3>1
  <2>8. PICK r \in S : (w \o q) \o r \in KeyPaths
    BY <1>6, <2>6
  <2>9. w \o (q \o r) \in KeyPaths /\ q \o r \in S
    <3>1. (w \o q) \o r = w \o (q \o r)
      <4>1. w \in S
        BY <2>1
      <4> HIDE DEF w
      <4>2. QED
        BY ONLY Zenon, <4>1, q \in S, r \in S, <1>3
    <3>2. QED
      BY <1>2, <2>8, <3>1
  <2>10. w \in P
    BY <1>6, <2>1, <2>7, <2>9
  <2>11. QED
    BY <1>1, <2>3, <2>10
<1>17. \A a \in H.places, p, q \in S :
         Step(H, a, p) \in H.places => (LeafAt(H, p \o q, a) <=> LeafAt(H, q, Step(H, a, p)))
  <2> TAKE a \in H.places, p, q \in S
  <2> HAVE Step(H, a, p) \in H.places
  <2> DEFINE u == p \o q
             w == a \o p
  <2>1. a \in S /\ u \in S /\ w \in S
    BY <1>1, <1>2, <1>6
  <2>2. w \o q = a \o u
    <3>1. a \in S
      BY <2>1
    <3>2. QED
      BY ONLY Zenon, <3>1, p \in S, q \in S, <1>3
  <2>3. Step(H, a, p) = w
    BY <1>1, <2>1
  <2> HIDE DEF u, w
  <2>4. a \in P /\ w \in P
    BY <1>1, <2>3
  <2>5. LeafAt(H, u, a) <=> LeafAt(H, q, Step(H, a, p))
    BY <1>1, <2>1, <2>2, <2>3, <2>4
  <2>6. QED
    BY <2>5 DEF u
<1>18. \A a \in H.places, c, p, q \in S, i, j \in Nibble :
         i # j /\ LeafAt(H, c \o (<<i>> \o p), a) /\ LeafAt(H, c \o (<<j>> \o q), a)
           => Step(H, a, c \o <<i>>) \in H.places
  <2> TAKE a \in H.places, c, p, q \in S, i, j \in Nibble
  <2> HAVE i # j /\ LeafAt(H, c \o (<<i>> \o p), a) /\ LeafAt(H, c \o (<<j>> \o q), a)
  <2> DEFINE e == c \o <<i>>
  <2>1. a \in S /\ e \in S
    BY <1>1, <1>2, <1>5, <1>6
  <2>2. a \o (c \o (<<i>> \o p)) \in KeyPaths /\ a \o (c \o (<<j>> \o q)) \in KeyPaths
    BY <1>1
  <2>3. a \o e \in P
    BY <1>9, <2>1, <2>2
  <2> HIDE DEF e
  <2>4. Step(H, a, e) \in H.places
    BY ZenonT(60), <1>1, <2>1, <2>3
  <2>5. QED
    BY <2>4 DEF e
<1>19. \A a \in H.places, c, q \in S, i, j \in Nibble :
         Step(H, a, c \o <<i>>) \in H.places /\ LeafAt(H, c \o (<<j>> \o q), a)
           => Step(H, a, c \o <<j>>) \in H.places
  <2> TAKE a \in H.places, c, q \in S, i, j \in Nibble
  <2> DEFINE e == c \o <<i>>
             h == c \o <<j>>
  <2> HAVE Step(H, a, e) \in H.places /\ LeafAt(H, c \o (<<j>> \o q), a)
  <2>1. a \in S /\ e \in S /\ h \in S
    BY <1>1, <1>2, <1>5, <1>6
  <2>2. a \o (c \o (<<j>> \o q)) \in KeyPaths
    BY <1>1
  <2>3. Step(H, a, e) = a \o e /\ Step(H, a, h) = a \o h
    <3> HIDE DEF e, h
    <3>1. QED
      BY <1>1, <2>1
  <2>4. a \o e \in P => a \o h \in P
    BY <1>9, <2>1, <2>2
  <2> HIDE DEF e, h
  <2>5. Step(H, a, h) \in H.places
    BY <1>1, <2>3, <2>4
  <2>6. QED
    BY <2>5 DEF h
<1>20. \A a \in H.places, p, x \in S :
         Step(H, a, p) \in H.places /\ LeafAt(H, x, a) => Len(p) <= Len(x)
  <2> TAKE a \in H.places, p, x \in S
  <2> HAVE Step(H, a, p) \in H.places /\ LeafAt(H, x, a)
  <2>1. a \in S /\ a \o p \in P /\ a \o x \in KeyPaths
    BY <1>1, <1>6
  <2>2. PICK q \in S : (a \o p) \o q \in KeyPaths
    BY <1>6, <2>1
  <2> DEFINE u == a \o p
  <2>3. u \in S /\ Len(u) = Len(a) + Len(p) /\ Len(a) \in Nat /\ Len(p) \in Nat /\ Len(x) \in Nat
    BY <1>2, <2>1
  <2>4. u \o q \in KeyPaths
    BY <2>2
  <2> HIDE DEF u
  <2>5. Len(u \o q) = Len(u) + Len(q) /\ Len(a \o x) = Len(a) + Len(x) /\ Len(q) \in Nat
    BY <1>2, <2>1, <2>2, <2>3
  <2>6. Len(u \o q) = Len(a \o x)
    BY <1>10, <2>1, <2>4
  <2>7. QED
    BY <2>3, <2>5, <2>6
<1>21. \A a \in H.places, p, x \in S :
         LeafAt(H, p, a) /\ LeafAt(H, x, a) => Len(p) = Len(x)
  <2> TAKE a \in H.places, p, x \in S
  <2> HAVE LeafAt(H, p, a) /\ LeafAt(H, x, a)
  <2> DEFINE u == a \o p
             w == a \o x
  <2>1. a \in S /\ u \in KeyPaths /\ w \in KeyPaths
    BY <1>1, <1>6
  <2>2. /\ Len(u) = Len(a) + Len(p) /\ Len(w) = Len(a) + Len(x)
        /\ Len(a) \in Nat /\ Len(p) \in Nat /\ Len(x) \in Nat
    BY <1>2, <2>1
  <2> HIDE DEF u, w
  <2>3. Len(u) = Len(w)
    BY <1>10, <2>1
  <2>4. QED
    BY <2>2, <2>3
<1>22. Frame(H)
  BY <1>11, <1>12, <1>13, <1>14, <1>15, <1>16, <1>17, <1>18, <1>19, <1>20, <1>21
     DEF Frame, S
<1>23. QED
  BY <1>22 DEF H


-----------------------------------------------------------------------------
(* The trie is a map.                                                      *)

\* The answers of A, which gives every key those allowed for it, at all places.
Told(first, A) ==
  {z \in Seq(Nibble) \X Begins(first) \X (Value \cup {Missing}) :
     \E k \in Key : z[2] \o z[1] = keyToNibbles(k) /\ z[3] \in A[k]}

\* The rest q of a key at a may find y.
MayFind(first, A, q, a, y) ==
  /\ q \in Seq(Nibble) /\ a \in Begins(first) /\ y \in Value \cup {Missing}
  /\ \E k \in Key : a \o q = keyToNibbles(k) /\ y \in A[k]

LEMMA ToldIs ==
  ASSUME NEW first, NEW A, NEW q, NEW a, NEW y
  PROVE  <<q, a, y>> \in Told(first, A) <=> MayFind(first, A, q, a, y)
<1> DEFINE z == <<q, a, y>>
<1>1. z[1] = q /\ z[2] = a /\ z[3] = y
  OBVIOUS
<1>2. z \in Seq(Nibble) \X Begins(first) \X (Value \cup {Missing}) <=>
        q \in Seq(Nibble) /\ a \in Begins(first) /\ y \in Value \cup {Missing}
  OBVIOUS
<1> HIDE DEF z
<1>3. z \in Told(first, A) <=>
        /\ z \in Seq(Nibble) \X Begins(first) \X (Value \cup {Missing})
        /\ \E k \in Key : z[2] \o z[1] = keyToNibbles(k) /\ z[3] \in A[k]
  BY DEF Told
<1>4. QED
  BY <1>1, <1>2, <1>3 DEF z, MayFind

LEMMA ToldConsistent ==
  ASSUME NEW first, NEW A
  PROVE  Consistent(Position(first), Told(first, A))
<1> DEFINE G == Position(first)
<1>1. /\ G.places = Begins(first)
      /\ \A a, p \in Seq(Nibble) : Step(G, a, p) = a \o p
      /\ \A p, a : LeafAt(G, p, a) <=>
           p \in Seq(Nibble) /\ a \in Begins(first) /\ a \o p \in KeyPaths
  BY PositionIs
<1> HIDE DEF G
<1>2. ASSUME NEW a \in G.places, NEW p \in Seq(Nibble), Step(G, a, p) \in G.places,
             NEW q, NEW y, LeafAt(G, q, Step(G, a, p))
      PROVE  <<q, Step(G, a, p), y>> \in Told(first, A) <=> <<p \o q, a, y>> \in Told(first, A)
  <2> DEFINE b == Step(G, a, p)
             r == p \o q
  <2>1. a \in Begins(first) /\ a \in Seq(Nibble) /\ b \in Begins(first)
    BY <1>1, <1>2 DEF Begins
  <2>2. q \in Seq(Nibble)
    BY <1>1, <1>2
  <2>3. r \in Seq(Nibble)
    BY <2>2
  <2>4. b = a \o p
    BY <1>1, <2>1
  <2>5. Joins(p, q, r) /\ Joins(a, p, b)
    BY <2>1, <2>2, <2>4 DEF Joins
  <2> HIDE DEF b, r
  <2>6. Joins(a, r, a \o r)
    BY <2>1, <2>3 DEF Joins
  <2>7. Joins(b, q, a \o r)
    BY <2>5, <2>6, JoinsIs
  <2>8. a \o r = b \o q
    BY <2>7 DEF Joins
  <2>9. <<q, b, y>> \in Told(first, A) <=> MayFind(first, A, q, b, y)
    BY Zenon, ToldIs
  <2>10. <<r, a, y>> \in Told(first, A) <=> MayFind(first, A, r, a, y)
    BY Zenon, ToldIs
  <2>11. <<q, b, y>> \in Told(first, A) <=> <<r, a, y>> \in Told(first, A)
    BY <2>1, <2>2, <2>3, <2>8, <2>9, <2>10 DEF MayFind
  <2>12. QED
    BY <2>11 DEF b, r
<1>3. Consistent(G, Told(first, A))
  BY <1>2 DEF Consistent
<1>4. QED
  BY <1>3 DEF G

\* All keys come to the root.
LEMMA TopLeaf ==
  ASSUME NEW first \in Nat, NEW x
  PROVE  LeafAt(Position(first), x, <<>>) <=> \E k \in Key : x = keyToNibbles(k)
<1>1. \A p \in Seq(Nibble) : <<>> \o p = p
  BY ConcatEmptySeq
<1>2. <<>> \in Seq(Nibble) /\ Len(<<>>) = 0
  OBVIOUS
<1>3. LeafAt(Position(first), x, <<>>) <=>
        x \in Seq(Nibble) /\ <<>> \in Begins(first) /\ <<>> \o x \in KeyPaths
  BY PositionIs
<1>4. ASSUME NEW k \in Key, x = keyToNibbles(k)
      PROVE  x \in Seq(Nibble) /\ <<>> \in Begins(first) /\ <<>> \o x \in KeyPaths
  <2>1. x \in Seq(Nibble) /\ x \in KeyPaths
    BY <1>4, KeyNibbles DEF KeyPaths
  <2>2. <<>> \o x \in KeyPaths
    BY <1>1, <2>1
  <2>3. Len(<<>>) <= first
    BY <1>2
  <2>4. <<>> \in Begins(first)
    BY <1>2, <2>1, <2>2, <2>3, BeginsIs
  <2>5. QED
    BY <2>1, <2>2, <2>4
<1>5. ASSUME x \in Seq(Nibble), <<>> \o x \in KeyPaths
      PROVE  \E k \in Key : x = keyToNibbles(k)
  BY <1>1, <1>5 DEF KeyPaths
<1>6. QED
  BY <1>3, <1>4, <1>5

\* At the root a key finds what is allowed for it.
LEMMA ToldAtTop ==
  ASSUME NEW first \in Nat, KeysPart(first), NEW A, NEW k \in Key, NEW y
  PROVE  <<keyToNibbles(k), <<>>, y>> \in Told(first, A)
           <=> y \in Value \cup {Missing} /\ y \in A[k]
<1> DEFINE x == keyToNibbles(k)
<1>1. x \in Seq(Nibble) /\ <<>> \in Begins(first)
  <2>1. LeafAt(Position(first), x, <<>>)
    BY TopLeaf
  <2>2. QED
    BY <2>1, PositionIs
<1>2. <<>> \o x = x
  BY <1>1, ConcatEmptySeq
<1>3. \A l \in Key : keyToNibbles(l) = x => l = k
  <2> SUFFICES ASSUME NEW l \in Key, keyToNibbles(l) = keyToNibbles(k), l # k PROVE FALSE
    OBVIOUS
  <2>1. \E i \in DOMAIN keyToNibbles(l) : i <= first /\ keyToNibbles(l)[i] # keyToNibbles(k)[i]
    BY DEF KeysPart
  <2>2. QED
    BY <2>1
<1>4. x = keyToNibbles(k)
  OBVIOUS
<1> HIDE DEF x
<1>5. <<x, <<>>, y>> \in Told(first, A) <=> MayFind(first, A, x, <<>>, y)
  BY Zenon, ToldIs
<1>6. QED
  BY <1>1, <1>2, <1>3, <1>4, <1>5 DEF x, MayFind

\* One answer for every key.
Only(ans) == [k \in Key |-> {ans[k]}]

\* Two for one of them.
Or(ans, k, v) == [l \in Key |-> IF l = k THEN {ans[l], v} ELSE {ans[l]}]

LEMMA ToldMore ==
  ASSUME NEW first, NEW A, NEW B, \A k \in Key : A[k] \subseteq B[k]
  PROVE  Told(first, A) \subseteq Told(first, B)
BY DEF Told

\* Calls with key k and value v, or none: what keys found before and find after.
LEMMA ToldDiffers ==
  ASSUME NEW first \in Nat, KeysPart(first), NEW ans \in [Key -> Value \cup {Missing}],
         NEW k \in Key, NEW v \in Value \cup {Missing}
  PROVE  /\ Told(first, Only(ans)) \subseteq Told(first, Or(ans, k, v))
         /\ Differ(Position(first), Told(first, Or(ans, k, v)),
                   Told(first, Only([ans EXCEPT ![k] = v])), keyToNibbles(k), <<>>, v)
         /\ (v = ans[k]) =>
              Told(first, Or(ans, k, v)) = Told(first, Only([ans EXCEPT ![k] = v]))
<1> DEFINE B == Told(first, Or(ans, k, v))
           C == Told(first, Only([ans EXCEPT ![k] = v]))
           x == keyToNibbles(k)
<1>1. Told(first, Only(ans)) \subseteq B
  <2>1. \A l \in Key : Only(ans)[l] \subseteq Or(ans, k, v)[l]
    BY DEF Only, Or
  <2>2. QED
    BY <2>1, ToldMore
<1>2. C \subseteq B
  <2>1. \A l \in Key : Only([ans EXCEPT ![k] = v])[l] \subseteq Or(ans, k, v)[l]
    BY DEF Only, Or
  <2>2. QED
    BY <2>1, ToldMore
<1>3. <<x, <<>>, v>> \in C
  <2>1. v \in Only([ans EXCEPT ![k] = v])[k]
    BY DEF Only
  <2>2. QED
    BY <2>1, ToldAtTop
<1>4. ASSUME NEW z, NEW y, LeafAt(Position(first), z, <<>>), z # x, <<z, <<>>, y>> \in B
      PROVE  <<z, <<>>, y>> \in C
  <2>1. PICK l \in Key : z = keyToNibbles(l)
    BY <1>4, TopLeaf
  <2>2. l # k
    BY <1>4, <2>1
  <2>3. y \in Value \cup {Missing} /\ y \in Or(ans, k, v)[l]
    BY <1>4, <2>1, ToldAtTop
  <2>4. y \in Only([ans EXCEPT ![k] = v])[l]
    BY <2>2, <2>3 DEF Only, Or
  <2>5. QED
    BY <2>1, <2>3, <2>4, ToldAtTop
<1>5. ASSUME v = ans[k] PROVE B = C
  <2>1. \A l \in Key : Or(ans, k, v)[l] \subseteq Only([ans EXCEPT ![k] = v])[l]
    BY <1>5 DEF Only, Or
  <2>2. B \subseteq C
    BY <2>1, ToldMore
  <2>3. QED
    BY <1>2, <2>2
<1>6. Differ(Position(first), B, C, x, <<>>, v)
  BY <1>2, <1>3, <1>4 DEF Differ
<1>7. QED
  BY <1>1, <1>5, <1>6


\* No key is below a nil root.
LEMMA NilAnswers ==
  ASSUME NEW database, NEW x
  PROVE  get(Walk(database, Nil, x)) = Missing
<1> DEFINE e == At(Nil, x)
<1>1. e.node.type = "nil"
  BY DEF At, Nil
<1>2. ~Continues(e)
  BY <1>1 DEF Continues, HasChild
<1>3. get(e) = Missing
  BY <1>1, <1>2 DEF get
<1> HIDE DEF e
<1>4. PICK f : Way(f, database, Nil, x)
  BY WalkSteps
<1>5. f[0] = e /\ 0 \in 0..MaxDepth
  BY <1>4, MptAssumption DEF Way, e
<1>6. Visits(database, Nil, x, e)
  BY <1>4, <1>5 DEF Visits
<1>7. Walk(database, Nil, x) = e
  BY <1>2, <1>6, VisitsEnd
<1>8. QED
  BY <1>3, <1>7

LEMMA HoldsMore ==
  ASSUME NEW G, NEW R, NEW B, NEW C, B \subseteq C, NEW database, NEW n, NEW a,
         Holds(G, R, B, database, n, a)
  PROVE  Holds(G, R, C, database, n, a)
<1>1. Within(G, B, database, n, a) => Within(G, C, database, n, a)
  BY WithinMore
<1>2. QED
  BY <1>1 DEF Holds

\* The root and the database make a trie in which every key finds the answer
\* that it has in answers.
Mapped(first) ==
  /\ answers \in [Key -> Value \cup {Missing}]
  /\ \E R : Holds(Position(first), R, Told(first, Only(answers)), db, root, <<>>)

\* A new root over a database.
LEMMA NilMapped ==
  ASSUME NEW first \in Nat, KeysPart(first), NEW R, NEW database,
         Sound(Position(first), R, database), NEW ans, ans = [k \in Key |-> Missing]
  PROVE  Holds(Position(first), R, Told(first, Only(ans)), database, Nil, <<>>)
<1>1. ASSUME NEW y, LeafAt(Position(first), y, <<>>)
      PROVE  <<y, <<>>, Missing>> \in Told(first, Only(ans))
  <2>1. PICK l \in Key : y = keyToNibbles(l)
    BY <1>1, TopLeaf
  <2>2. Missing \in Only(ans)[l]
    BY DEF Only
  <2>3. QED
    BY <2>1, <2>2, ToldAtTop
<1>2. QED
  BY <1>1 DEF Holds

LEMMA MappedInit ==
  ASSUME NEW first \in Nat, KeysPart(first), MptInit
  PROVE  Mapped(first)
<1>1. db = <<>> /\ root = Nil /\ answers = [k \in Key |-> Missing]
  BY DEF MptInit
<1> DEFINE R == [h \in {} |-> 0]
<1>2. DOMAIN db = {} /\ DOMAIN R = {}
  BY <1>1
<1> HIDE DEF R
<1>3. Sound(Position(first), R, db)
  BY <1>2 DEF Sound
<1>4. Holds(Position(first), R, Told(first, Only(answers)), db, root, <<>>)
  BY <1>1, <1>3, NilMapped
<1>5. QED
  BY <1>1, <1>4 DEF Mapped

\* The root and the database after a call allow only what Get answers there.
LEMMA HoldsExactly ==
  ASSUME NEW first \in Nat, KeysPart(first), NEW A, NEW T, NEW database, NEW n,
         Holds(Position(first), T, Told(first, A), database, n, <<>>),
         NEW ans \in [Key -> Value \cup {Missing}],
         \A l \in Key : ans[l] = get(Walk(database, n, keyToNibbles(l))) /\ ans[l] # Nil
  PROVE  Holds(Position(first), T, Told(first, Only(ans)), database, n, <<>>)
<1> DEFINE G == Position(first)
           B == Told(first, A)
           D == Told(first, Only(ans))
<1>1. Frame(G)
  BY PositionFrame
<1>2. Consistent(G, D)
  BY ToldConsistent
<1>3. \A l \in Key : <<keyToNibbles(l), <<>>, ans[l]>> \in D
  <2> TAKE l \in Key
  <2>1. ans[l] \in Only(ans)[l]
    BY DEF Only
  <2>2. QED
    BY <2>1, ToldAtTop
<1>4. \A y : LeafAt(G, y, <<>>) => \E l \in Key : y = keyToNibbles(l)
  BY TopLeaf
<1>5. Holds(G, T, B, database, n, <<>>)
  OBVIOUS
<1> HIDE DEF G, B, D
<1>6. Sound(G, T, database)
  BY <1>5 DEF Holds
<1>7. CASE n = Nil
  <2>1. ASSUME NEW y, LeafAt(G, y, <<>>) PROVE <<y, <<>>, Missing>> \in D
    <3>1. PICK l \in Key : y = keyToNibbles(l)
      BY <1>4, <2>1
    <3>2. ans[l] = Missing
      BY <1>7, NilAnswers
    <3>3. QED
      BY <1>3, <3>1, <3>2
  <2>2. Holds(G, T, D, database, n, <<>>)
    BY <1>6, <1>7, <2>1 DEF Holds
  <2>3. QED
    BY <2>2 DEF G, D
<1>8. CASE n # Nil
  <2>1. Good(G, T, n, <<>>, "kept") /\ Within(G, B, database, n, <<>>)
    BY <1>5, <1>8 DEF Holds
  <2>2. Good(G, T, n, <<>>, "any")
    BY <2>1, KeptIsGood
  <2>3. \A x : LeafAt(G, x, <<>>) =>
           /\ get(Walk(database, n, x)) # Nil
           /\ <<x, <<>>, get(Walk(database, n, x))>> \in D
    <3> TAKE x
    <3> HAVE LeafAt(G, x, <<>>)
    <3>1. PICK l \in Key : x = keyToNibbles(l)
      BY <1>4
    <3>2. ans[l] = get(Walk(database, n, x)) /\ ans[l] # Nil
      BY <3>1
    <3>3. QED
      BY <1>3, <3>1, <3>2
  <2>4. Within(G, D, database, n, <<>>)
    BY <1>1, <1>2, <1>6, <2>1, <2>2, <2>3, Narrowed
  <2>5. Holds(G, T, D, database, n, <<>>)
    BY <1>6, <1>8, <2>1, <2>4 DEF Holds
  <2>6. QED
    BY <2>5 DEF G, D
<1>9. QED
  BY <1>7, <1>8


\* A call gives its key its value or, when it failed, changes nothing.
LEMMA MappedCall ==
  ASSUME ~AnyDelete, NEW first \in Nat, KeysPart(first), Mapped(first),
         NEW k \in Key, NEW v \in Value \cup {Missing}, NEW left,
         (v \in Value /\ Put(k, v, left)) \/ (v = Missing /\ Delete(k, left))
  PROVE  /\ Mapped(first)'
         /\ call'.ok \in BOOLEAN
         /\ \/ answers' = [answers EXCEPT ![k] = v]
            \/ ~call'.ok /\ answers' = answers
<1> DEFINE G == Position(first)
           A == Or(answers, k, v)
           E == Only([answers EXCEPT ![k] = v])
           B == Told(first, A)
           C == Told(first, E)
           x == keyToNibbles(k)
<1>1. PICK R : Holds(G, R, Told(first, Only(answers)), db, root, <<>>)
  BY DEF Mapped
<1>2. answers \in [Key -> Value \cup {Missing}]
  BY DEF Mapped
<1>3. /\ Told(first, Only(answers)) \subseteq B
      /\ Differ(G, B, C, x, <<>>, v)
      /\ (v = answers[k]) => B = C
  BY <1>2, ToldDiffers
<1>4. Frame(G) /\ Consistent(G, B) /\ Consistent(G, C)
  BY PositionFrame, ToldConsistent
<1>5. LeafAt(G, x, <<>>)
  BY TopLeaf
<1>6. \A l \in Key : \A y :
        /\ <<keyToNibbles(l), <<>>, y>> \in B => y \in A[l]
        /\ <<keyToNibbles(l), <<>>, y>> \in C => y \in E[l]
  BY ToldAtTop
<1>7. \A l \in Key : LeafAt(G, keyToNibbles(l), <<>>)
  BY TopLeaf
<1> HIDE DEF G, A, E, B, C
<1>8. Holds(G, R, B, db, root, <<>>)
  BY <1>1, <1>3, HoldsMore
<1>9. /\ call'.ok \in BOOLEAN
      /\ \E T : /\ Holds(G, T, B, db', root', <<>>)
                /\ call'.ok => Holds(G, T, C, db', root', <<>>)
  <2>1. \/ v \in Value /\ Put(k, v, left)
        \/ v = Missing /\ Delete(k, left) /\ (answers[k] = Missing => B = C)
    BY <1>3
  <2> HIDE DEF x
  <2>2. LeafAt(G, keyToNibbles(k), <<>>) /\ Differ(G, B, C, keyToNibbles(k), <<>>, v)
    BY <1>3, <1>5 DEF x
  <2>3. QED
    BY <1>4, <1>8, <2>1, <2>2, StepHolds
<1>10. PICK T : /\ Holds(G, T, B, db', root', <<>>)
                /\ call'.ok => Holds(G, T, C, db', root', <<>>)
  BY <1>9
<1>11. /\ answers' = [l \in Key |-> Get(db', root', l)]
       /\ \A l \in Key : answers'[l] # Nil
  BY AnswersAre
<1>12. ASSUME NEW l \in Key
       PROVE  /\ answers'[l] = get(Walk(db', root', keyToNibbles(l))) /\ answers'[l] # Nil
              /\ answers'[l] \in Value \cup {Missing} /\ answers'[l] \in A[l]
              /\ call'.ok => answers'[l] \in E[l]
  <2> DEFINE y == get(Walk(db', root', keyToNibbles(l)))
  <2>1. answers'[l] = y /\ y # Nil
    BY <1>11 DEF Get
  <2>2. LeafAt(G, keyToNibbles(l), <<>>)
    BY <1>7
  <2>3. y \in Value \cup {Missing, Nil} /\ (y # Nil => <<keyToNibbles(l), <<>>, y>> \in B)
    BY <1>4, <1>10, <2>2, HeldAnswers
  <2>4. ASSUME call'.ok PROVE y # Nil => <<keyToNibbles(l), <<>>, y>> \in C
    <3>1. Holds(G, T, C, db', root', <<>>)
      BY <1>10, <2>4
    <3>2. QED
      BY <1>4, <2>2, <3>1, HeldAnswers
  <2> HIDE DEF y
  <2>5. y \in A[l] /\ (call'.ok => y \in E[l])
    BY <1>6, <2>1, <2>3, <2>4
  <2>6. QED
    BY <2>1, <2>3, <2>5 DEF y
<1>13. answers' \in [Key -> Value \cup {Missing}]
  BY <1>11, <1>12
<1>14. Mapped(first)'
  <2>1. Holds(G, T, Told(first, A), db', root', <<>>)
    BY <1>10 DEF B
  <2>2. Holds(Position(first), T, Told(first, Only(answers')), db', root', <<>>)
    BY <1>12, <1>13, <2>1, HoldsExactly DEF G
  <2>3. QED
    BY <1>13, <2>2 DEF Mapped
<1>15. \A l \in Key : l # k => answers'[l] = answers[l]
  BY <1>12 DEF A, Or
<1>16. answers'[k] \in {answers[k], v} /\ (call'.ok => answers'[k] = v)
  <2>1. answers'[k] \in A[k] /\ (call'.ok => answers'[k] \in E[k])
    BY <1>12
  <2>2. A[k] = {answers[k], v}
    BY DEF A, Or
  <2>3. E[k] = {v}
    BY <1>2 DEF E, Only
  <2>4. QED
    BY <2>1, <2>2, <2>3
<1>17. CASE answers'[k] = v
  <2>1. answers' = [answers EXCEPT ![k] = v]
    BY <1>2, <1>13, <1>15, <1>17
  <2>2. QED
    BY <1>9, <1>14, <2>1
<1>18. CASE answers'[k] # v
  <2>1. answers' = answers /\ ~call'.ok
    BY <1>2, <1>13, <1>15, <1>16, <1>18
  <2>2. QED
    BY <1>9, <1>14, <2>1
<1>19. QED
  BY <1>17, <1>18

\* A call is recorded as it was made.
LEMMA CallsAre ==
  ASSUME NEW k, NEW v, NEW left
  PROVE  /\ Put(k, v, left) =>
              call' = [op |-> "put", key |-> k, value |-> v, ok |-> call'.ok]
         /\ Delete(k, left) =>
              call' = [op |-> "delete", key |-> k, value |-> Missing, ok |-> call'.ok]
<1>1. \A op, w, r : Returns(op, k, w, left, r) =>
        call' = [op |-> op, key |-> k, value |-> w, ok |-> call'.ok]
  BY DEF Returns
<1>2. ASSUME Put(k, v, left)
      PROVE  call' = [op |-> "put", key |-> k, value |-> v, ok |-> call'.ok]
  <2> DEFINE s == Opened(left)
             nibbles == keyToNibbles(k)
             i == insert(s, root, nibbles, v)
             r == IF root = Nil THEN saveNode(s, LeafNode(nibbles, v))
                  ELSE saveNode(i.store, i.node)
  <2>1. Returns("put", k, v, left, r)
    BY <1>2 DEF Put, SaveResult
  <2> HIDE DEF r
  <2>2. QED
    BY <1>1, <2>1
<1>3. ASSUME Delete(k, left)
      PROVE  call' = [op |-> "delete", key |-> k, value |-> Missing, ok |-> call'.ok]
  <2> DEFINE d == delete(Opened(left), root, keyToNibbles(k))
             r == IF d.node = Nil THEN d ELSE saveNode(d.store, d.node)
  <2>1. Returns("delete", k, Missing, left, r)
    BY <1>3 DEF Delete, SaveLeft, SaveResult
  <2> HIDE DEF r
  <2>2. QED
    BY <1>1, <2>1
<1>4. QED
  BY <1>2, <1>3

\* Every step of the trie is one of the map.
LEMMA MappedStep ==
  ASSUME ~AnyDelete, NEW first \in Nat, KeysPart(first), Mapped(first), MptNext(Int)
  PROVE  Mapped(first)' /\ Map!KvNext
<1>1. ASSUME NEW k \in Key, NEW v \in Value, NEW left, Put(k, v, left)
      PROVE  Mapped(first)' /\ Map!KvNext
  <2>1. /\ Mapped(first)' /\ call'.ok \in BOOLEAN
        /\ answers' = [answers EXCEPT ![k] = v] \/ (~call'.ok /\ answers' = answers)
    BY <1>1, MappedCall
  <2>2. call' = [op |-> "put", key |-> k, value |-> v, ok |-> call'.ok]
    BY <1>1, CallsAre
  <2>3. Map!KvPut(k, v, call'.ok)
    BY <2>1, <2>2 DEF Map!KvPut, Map!Effect, Map!Call
  <2>4. QED
    BY <2>1, <2>3 DEF Map!KvNext
<1>2. ASSUME NEW k \in Key, NEW left, Delete(k, left)
      PROVE  Mapped(first)' /\ Map!KvNext
  <2>1. /\ Mapped(first)' /\ call'.ok \in BOOLEAN
        /\ answers' = [answers EXCEPT ![k] = Missing] \/ (~call'.ok /\ answers' = answers)
    BY <1>2, MappedCall
  <2>2. call' = [op |-> "delete", key |-> k, value |-> Missing, ok |-> call'.ok]
    BY <1>2, CallsAre
  <2>3. Map!KvDelete(k, call'.ok)
    BY <2>1, <2>2 DEF Map!KvDelete, Map!Effect, Map!Call
  <2>4. QED
    BY <2>1, <2>3 DEF Map!KvNext
<1>3. ASSUME NewMPT
      PROVE  Mapped(first)' /\ Map!KvNext
  <2>1. root' = Nil /\ db' = db /\ answers' = [k \in Key |-> Missing] /\ call' = NoCall
    BY <1>3 DEF NewMPT
  <2>2. PICK R : Sound(Position(first), R, db)
    BY DEF Mapped, Holds
  <2>3. Holds(Position(first), R, Told(first, Only(answers')), db', root', <<>>)
    BY <2>1, <2>2, NilMapped
  <2>4. Mapped(first)'
    BY <2>1, <2>3 DEF Mapped
  <2>5. Map!KvReopen
    BY <2>1 DEF Map!KvReopen, Map!NoCall, Map!Call, NoCall
  <2>6. QED
    BY <2>4, <2>5 DEF Map!KvNext
<1>4. QED
  BY <1>1, <1>2, <1>3 DEF MptNext

\* For every set of keys of one length of which any two differ early and late,
\* for all values, and for any number of calls, failed writes and restarts, the
\* trie is a map: Get answers what was last put, and a failed call has taken
\* effect or not, on its own key only.
THEOREM MptImplementsMap ==
  ASSUME ~AnyDelete, NEW first \in Nat, KeysPart(first)
  PROVE  MptSpec => ImplementsMap
<1>1. MptInit => Mapped(first) /\ Map!KvInit
  <2>1. MptInit => Map!KvInit
    BY DEF MptInit, Map!KvInit, Map!NoCall, Map!Call, NoCall
  <2>2. QED
    BY <2>1, MappedInit
<1>2. Mapped(first) /\ [MptNext(Int)]_mptVars => Mapped(first)' /\ [Map!KvNext]_(Map!kvVars)
  <2>1. Mapped(first) /\ MptNext(Int) => Mapped(first)' /\ Map!KvNext
    BY MappedStep
  <2>2. ASSUME Mapped(first), UNCHANGED mptVars
        PROVE  Mapped(first)' /\ UNCHANGED Map!kvVars
    BY <2>2 DEF Mapped, mptVars, Map!kvVars
  <2>3. QED
    BY <2>1, <2>2
<1>3. QED
  BY <1>1, <1>2, PTL DEF MptSpec, ImplementsMap, Map!KvSpec

=============================================================================
