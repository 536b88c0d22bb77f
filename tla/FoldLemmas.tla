----------------------------- MODULE FoldLemmas -----------------------------
(***************************************************************************)
(* Sums over finite sets, as module Functions defines them, and the        *)
(* concatenation of a sequence of sequences, of module SequencesExt: what  *)
(* the supply of module Ledger and the lanes of module TxPool are made of. *)
(* Both are recursive functions, so their equations have to be earned:     *)
(* such a function exists, and there is one only.                          *)
(*                                                                         *)
(* The inductions go by a smallest counterexample, a fact without an       *)
(* operator as its parameter.                                              *)
(***************************************************************************)
EXTENDS Integers, SequencesExt, FiniteSetTheorems, SequenceTheorems,
        WellFoundedInduction, TLAPS

\* A set of subsets of a finite set has a minimal member.
LEMMA MinimalSubset ==
  ASSUME NEW S, IsFiniteSet(S), NEW C, C \subseteq SUBSET S, C # {}
  PROVE  \E t \in C : \A u \in C : u \subseteq t => u = t
<1> DEFINE R == StrictSubsetOrdering(S)
<1>1. IsWellFoundedOn(R, SUBSET S)
  BY FS_StrictSubsetOrderingWellFounded, FS_FiniteSubsetsOfFinite
<1>2. \E t \in C : \A u \in C : ~(<<u, t>> \in R)
  <2> HIDE DEF R
  <2>1. QED
    BY <1>1, WFMin
<1>3. QED
  BY <1>2 DEF StrictSubsetOrdering

\* A set of natural numbers has a least member.
LEMMA LeastNatural ==
  ASSUME NEW C, C \subseteq Nat, C # {}
  PROVE  \E n \in C : \A m \in C : n <= m
<1> DEFINE R == {p \in Nat \X Nat : p[1] < p[2]}
<1>1. IsWellFoundedOn(R, Nat)
  BY NatLessThanWellFounded DEF OpToRel
<1>2. \E n \in C : \A m \in C : ~(<<m, n>> \in R)
  <2> HIDE DEF R
  <2>1. QED
    BY <1>1, WFMin
<1>3. ASSUME NEW n \in C, NEW m \in C, ~(<<m, n>> \in R) PROVE n <= m
  BY <1>3
<1>4. QED
  BY <1>2, <1>3

-----------------------------------------------------------------------------

\* The element a sum takes next.
Pick(s) == CHOOSE x \in s : TRUE

\* g gives each subset of S the sum of f over it.
SumsUp(f, S, g) ==
  g = [s \in SUBSET S |-> IF s = {} THEN 0 ELSE f[Pick(s)] + g[s \ {Pick(s)}]]

\* The sums of two sets agree on what is a subset of both.
LEMMA SumsAgree ==
  ASSUME NEW f, NEW S, NEW T, IsFiniteSet(S),
         NEW g, SumsUp(f, S, g), NEW h, SumsUp(f, T, h)
  PROVE  \A u : u \subseteq S /\ u \subseteq T => g[u] = h[u]
<1> DEFINE C == {u \in SUBSET S : u \subseteq T /\ g[u] # h[u]}
<1>1. SUFFICES ASSUME C # {} PROVE FALSE
  OBVIOUS
<1>2. PICK u \in C : \A v \in C : v \subseteq u => v = u
  <2> HIDE DEF C
  <2>0. C \subseteq SUBSET S
    BY DEF C
  <2>1. QED
    BY <1>1, <2>0, MinimalSubset
<1>3. u # {}
  BY <1>2 DEF SumsUp
<1> DEFINE v == u \ {Pick(u)}
<1>4. Pick(u) \in u
  BY <1>3 DEF Pick
<1>5. v \subseteq S /\ v \subseteq T /\ v \subseteq u /\ v # u
  BY <1>2, <1>4
<1>6. g[v] = h[v]
  BY <1>2, <1>5
<1>7. g[u] = f[Pick(u)] + g[v]
  BY <1>2, <1>3 DEF SumsUp
<1>8. h[u] = f[Pick(u)] + h[v]
  BY <1>2, <1>3 DEF SumsUp
<1>9. QED
  BY <1>2, <1>6, <1>7, <1>8

\* A finite set has sums.
LEMMA SumsExist ==
  ASSUME NEW f, NEW S, IsFiniteSet(S)
  PROVE  \E g : SumsUp(f, S, g)
<1> DEFINE C == {t \in SUBSET S : ~\E g : SumsUp(f, t, g)}
<1>1. SUFFICES ASSUME C # {} PROVE FALSE
  OBVIOUS
<1>2. PICK t \in C : \A u \in C : u \subseteq t => u = t
  <2> HIDE DEF C
  <2>0. C \subseteq SUBSET S
    BY DEF C
  <2>1. QED
    BY <1>1, <2>0, MinimalSubset
<1> DEFINE sums(u) == CHOOSE g : SumsUp(f, u, g)
           val(u) == IF u = {} THEN 0 ELSE f[Pick(u)] + sums(u \ {Pick(u)})[u \ {Pick(u)}]
           g == [u \in SUBSET t |-> val(u)]
<1>3. ASSUME NEW u, u \subseteq t, u # t PROVE SumsUp(f, u, sums(u)) /\ IsFiniteSet(u)
  <2>1. \E h : SumsUp(f, u, h)
    BY <1>2, <1>3
  <2>2. IsFiniteSet(u)
    BY <1>2, <1>3, FS_Subset
  <2>3. QED
    BY <2>1, <2>2
<1>4. ASSUME NEW u, u \subseteq t, u # {}
      PROVE  /\ u \ {Pick(u)} \subseteq t /\ u \ {Pick(u)} # u
             /\ g[u \ {Pick(u)}] = sums(u \ {Pick(u)})[u \ {Pick(u)}]
  <2> DEFINE v == u \ {Pick(u)}
  <2>1. Pick(u) \in u
    BY <1>4 DEF Pick
  <2>2. v \subseteq t /\ v # u /\ v # t
    BY <1>4, <2>1
  <2>3. SumsUp(f, v, sums(v)) /\ IsFiniteSet(v)
    BY <1>3, <2>2
  <2>4. CASE v = {}
    <3>1. sums(v)[v] = 0
      BY <2>3, <2>4 DEF SumsUp
    <3>2. QED
      BY <2>2, <2>4, <3>1
  <2>5. CASE v # {}
    <3> DEFINE w == v \ {Pick(v)}
    <3>1. Pick(v) \in v
      BY <2>5 DEF Pick
    <3>2. w \subseteq t /\ w # t /\ w \subseteq v
      BY <2>2, <3>1
    <3>3. SumsUp(f, w, sums(w)) /\ IsFiniteSet(w)
      BY <1>3, <3>2
    <3>4. sums(v)[w] = sums(w)[w]
      <4> HIDE DEF v, w, sums
      <4>1. QED
        BY <2>3, <3>2, <3>3, SumsAgree
    <3>5. sums(v)[v] = f[Pick(v)] + sums(v)[w]
      <4> DEFINE h == sums(v)
      <4>1. SumsUp(f, v, h)
        BY <2>3
      <4> HIDE DEF h
      <4>2. h[v] = f[Pick(v)] + h[w]
        BY <2>5, <4>1 DEF SumsUp
      <4>3. QED
        BY <4>2 DEF h
    <3>6. g[v] = f[Pick(v)] + sums(w)[w]
      BY <2>2, <2>5
    <3>7. QED
      BY <2>2, <3>4, <3>5, <3>6
  <2>6. QED
    BY <2>4, <2>5
<1>5. SumsUp(f, t, g)
  <2>1. ASSUME NEW u \in SUBSET t
        PROVE  g[u] = IF u = {} THEN 0 ELSE f[Pick(u)] + g[u \ {Pick(u)}]
    <3> DEFINE v == u \ {Pick(u)}
    <3>1. u # {} => g[v] = sums(v)[v]
      BY <1>4
    <3>2. g[u] = IF u = {} THEN 0 ELSE f[Pick(u)] + sums(v)[v]
      OBVIOUS
    <3> HIDE DEF g, v, sums
    <3>3. QED
      BY <3>1, <3>2 DEF v
  <2>2. g = [u \in SUBSET t |-> g[u]]
    OBVIOUS
  <2> HIDE DEF g
  <2>3. QED
    BY <2>1, <2>2 DEF SumsUp
<1>6. QED
  BY <1>2, <1>5

\* The sum of a finite set is what some sums of it give.
LEMMA SumIsSumsUp ==
  ASSUME NEW f, NEW S, IsFiniteSet(S)
  PROVE  \E g : SumsUp(f, S, g) /\ SumFunctionOnSet(f, S) = g[S]
<1> DEFINE G == CHOOSE g : SumsUp(f, S, g)
<1>1. SumsUp(f, S, G)
  BY SumsExist
<1>2. SumFunctionOnSet(f, S) = G[S]
  BY DEF SumFunctionOnSet, FoldFunctionOnSet, MapThenFoldSet, SumsUp, Pick
<1>3. QED
  BY <1>1, <1>2

\* The equation of a sum: take one element out.
LEMMA SumPick ==
  ASSUME NEW f, NEW S, IsFiniteSet(S)
  PROVE  SumFunctionOnSet(f, S) =
           IF S = {} THEN 0
           ELSE f[Pick(S)] + SumFunctionOnSet(f, S \ {Pick(S)})
<1> DEFINE T == S \ {Pick(S)}
<1>1. PICK g : SumsUp(f, S, g) /\ SumFunctionOnSet(f, S) = g[S]
  BY SumIsSumsUp
<1>2. T \subseteq S /\ IsFiniteSet(T)
  BY FS_Subset
<1>3. PICK h : SumsUp(f, T, h) /\ SumFunctionOnSet(f, T) = h[T]
  BY <1>2, SumIsSumsUp
<1>4. g[T] = h[T]
  BY <1>1, <1>2, <1>3, SumsAgree
<1>5. g[S] = IF S = {} THEN 0 ELSE f[Pick(S)] + g[T]
  BY <1>1 DEF SumsUp
<1>6. QED
  BY <1>1, <1>3, <1>4, <1>5

\* A sum of integers is an integer, whichever element is taken out first.
LEMMA SumTakeOut ==
  ASSUME NEW S, IsFiniteSet(S), NEW f, \A x \in S : f[x] \in Int
  PROVE  /\ SumFunctionOnSet(f, S) \in Int
         /\ \A y \in S : SumFunctionOnSet(f, S) = f[y] + SumFunctionOnSet(f, S \ {y})
<1> DEFINE Good(t) ==
             /\ SumFunctionOnSet(f, t) \in Int
             /\ \A y \in t : SumFunctionOnSet(f, t) = f[y] + SumFunctionOnSet(f, t \ {y})
           C == {t \in SUBSET S : ~Good(t)}
<1>1. SUFFICES ASSUME C # {} PROVE FALSE
  OBVIOUS
<1>2. PICK t \in C : \A u \in C : u \subseteq t => u = t
  <2>1. C \subseteq SUBSET S
    OBVIOUS
  <2> HIDE DEF C
  <2>2. QED
    BY <1>1, <2>1, MinimalSubset
<1>3. \A u : u \subseteq t /\ u # t => Good(u)
  BY <1>2
<1>4. IsFiniteSet(t)
  BY <1>2, FS_Subset
<1>5. CASE t = {}
  <2>1. SumFunctionOnSet(f, t) = 0
    BY <1>4, <1>5, SumPick
  <2>2. QED
    BY <1>2, <1>5, <2>1
<1>6. CASE t # {}
  <2> DEFINE x == Pick(t)
             sum(u) == SumFunctionOnSet(f, u)
  <2>1. x \in t /\ f[x] \in Int
    BY <1>2, <1>6 DEF Pick
  <2>2. sum(t) = f[x] + sum(t \ {x})
    BY <1>4, <1>6, SumPick
  <2>3. Good(t \ {x})
    BY <1>3, <2>1
  <2>4. ASSUME NEW y \in t, y # x PROVE sum(t) = f[y] + sum(t \ {y})
    <3> DEFINE rest == (t \ {x}) \ {y}
    <3>1. f[y] \in Int
      BY <1>2
    <3>2. Good(t \ {y}) /\ Good(rest)
      BY <1>3, <2>1
    <3>3. rest = (t \ {y}) \ {x}
      OBVIOUS
    <3>4. sum(t \ {x}) = f[y] + sum(rest)
      BY <2>3, <2>4
    <3>5. sum(t \ {y}) = f[x] + sum(rest)
      BY <2>1, <2>4, <3>2, <3>3
    <3>6. sum(rest) \in Int
      BY <3>2
    <3> HIDE DEF rest, sum, x
    <3>7. QED
      BY <2>1, <2>2, <3>1, <3>4, <3>5, <3>6
  <2>5. sum(t) \in Int
    <3>1. sum(t \ {x}) \in Int
      BY <2>3
    <3> HIDE DEF sum, x
    <3>2. QED
      BY <2>1, <2>2, <3>1
  <2>6. Good(t)
    BY <2>2, <2>4, <2>5
  <2>7. QED
    BY <1>2, <2>6
<1>7. QED
  BY <1>5, <1>6

\* The sum of nothing.
LEMMA SumEmpty ==
  ASSUME NEW f
  PROVE  SumFunctionOnSet(f, {}) = 0
BY SumPick, FS_EmptySet

\* Functions that agree on a set have the same sum over it.
LEMMA SumSame ==
  ASSUME NEW S, IsFiniteSet(S), NEW f, NEW g, \A x \in S : f[x] = g[x]
  PROVE  SumFunctionOnSet(f, S) = SumFunctionOnSet(g, S)
<1> DEFINE C == {t \in SUBSET S : SumFunctionOnSet(f, t) # SumFunctionOnSet(g, t)}
<1>1. SUFFICES ASSUME C # {} PROVE FALSE
  OBVIOUS
<1>2. PICK t \in C : \A u \in C : u \subseteq t => u = t
  <2>1. C \subseteq SUBSET S
    OBVIOUS
  <2> HIDE DEF C
  <2>2. QED
    BY <1>1, <2>1, MinimalSubset
<1>3. IsFiniteSet(t)
  BY <1>2, FS_Subset
<1>4. t # {}
  BY <1>2, SumEmpty
<1>5. Pick(t) \in t
  BY <1>4 DEF Pick
<1>6. SumFunctionOnSet(f, t \ {Pick(t)}) = SumFunctionOnSet(g, t \ {Pick(t)})
  BY <1>2, <1>5
<1>7. SumFunctionOnSet(f, t) = SumFunctionOnSet(g, t)
  <2>1. f[Pick(t)] = g[Pick(t)]
    BY <1>2, <1>5
  <2>2. SumFunctionOnSet(f, t) = f[Pick(t)] + SumFunctionOnSet(f, t \ {Pick(t)})
    BY <1>3, <1>4, SumPick
  <2>3. SumFunctionOnSet(g, t) = g[Pick(t)] + SumFunctionOnSet(g, t \ {Pick(t)})
    BY <1>3, <1>4, SumPick
  <2>4. QED
    BY <1>6, <2>1, <2>2, <2>3
<1>8. QED
  BY <1>2, <1>7

\* Functions that agree but at one place have sums that differ by what they
\* differ there.
LEMMA SumUpdate ==
  ASSUME NEW S, IsFiniteSet(S), NEW y \in S, NEW f, NEW g,
         \A x \in S : f[x] \in Int, \A x \in S : g[x] \in Int,
         \A x \in S : x # y => f[x] = g[x]
  PROVE  SumFunctionOnSet(g, S) = SumFunctionOnSet(f, S) + (g[y] - f[y])
<1> DEFINE T == S \ {y}
<1>1. IsFiniteSet(T)
  BY FS_Subset
<1>2. SumFunctionOnSet(f, T) = SumFunctionOnSet(g, T)
  BY <1>1, SumSame
<1>3. SumFunctionOnSet(f, S) = f[y] + SumFunctionOnSet(f, T)
  BY SumTakeOut
<1>4. SumFunctionOnSet(g, S) = g[y] + SumFunctionOnSet(g, T)
  BY SumTakeOut
<1>5. SumFunctionOnSet(f, T) \in Int
  BY <1>1, SumTakeOut
<1>6. QED
  BY <1>2, <1>3, <1>4, <1>5

\* A sum of natural numbers is at least what any two of its members add up to.
LEMMA SumBounds ==
  ASSUME NEW S, IsFiniteSet(S), NEW f, \A x \in S : f[x] \in Nat
  PROVE  /\ SumFunctionOnSet(f, S) \in Nat
         /\ \A x \in S : f[x] <= SumFunctionOnSet(f, S)
         /\ \A x, y \in S : x # y => f[x] + f[y] <= SumFunctionOnSet(f, S)
<1>1. ASSUME NEW T, T \subseteq S PROVE SumFunctionOnSet(f, T) \in Nat
  <2> DEFINE C == {t \in SUBSET S : SumFunctionOnSet(f, t) \notin Nat}
  <2>1. SUFFICES ASSUME C # {} PROVE FALSE
    BY <1>1
  <2>2. PICK t \in C : \A u \in C : u \subseteq t => u = t
    <3>1. C \subseteq SUBSET S
      OBVIOUS
    <3> HIDE DEF C
    <3>2. QED
      BY <2>1, <3>1, MinimalSubset
  <2>3. IsFiniteSet(t)
    BY <2>2, FS_Subset
  <2>4. t # {}
    <3>1. SumFunctionOnSet(f, {}) = 0
      BY SumEmpty
    <3>2. SumFunctionOnSet(f, {}) \in Nat
      BY <3>1
    <3>3. QED
      BY <2>2, <3>2
  <2>5. Pick(t) \in t /\ Pick(t) \in S
    BY <2>2, <2>4 DEF Pick
  <2>6. SumFunctionOnSet(f, t \ {Pick(t)}) \in Nat
    BY <2>2, <2>5
  <2>7. SumFunctionOnSet(f, t) = f[Pick(t)] + SumFunctionOnSet(f, t \ {Pick(t)})
    BY <2>3, <2>4, SumPick
  <2>8. SumFunctionOnSet(f, t) \in Nat
    BY <2>5, <2>6, <2>7
  <2>9. QED
    BY <2>2, <2>8
<1>2. ASSUME NEW x \in S
      PROVE  /\ SumFunctionOnSet(f, S) = f[x] + SumFunctionOnSet(f, S \ {x})
             /\ SumFunctionOnSet(f, S \ {x}) \in Nat
  BY <1>1, SumTakeOut
<1>3. ASSUME NEW x \in S, NEW y \in S, x # y
      PROVE  f[x] + f[y] <= SumFunctionOnSet(f, S)
  <2> DEFINE T == S \ {x}
  <2>1. IsFiniteSet(T) /\ y \in T /\ \A z \in T : f[z] \in Int
    BY <1>3, FS_Subset
  <2>2. SumFunctionOnSet(f, T) = f[y] + SumFunctionOnSet(f, T \ {y})
    BY <2>1, SumTakeOut
  <2>3. SumFunctionOnSet(f, T \ {y}) \in Nat
    BY <1>1
  <2>4. QED
    BY <1>2, <2>2, <2>3
<1>4. ASSUME NEW x \in S PROVE f[x] <= SumFunctionOnSet(f, S)
  <2>1. f[x] \in Nat
    OBVIOUS
  <2> DEFINE rest == SumFunctionOnSet(f, S \ {x})
  <2>2. SumFunctionOnSet(f, S) = f[x] + rest /\ rest \in Nat
    BY <1>2
  <2> HIDE DEF rest
  <2>3. QED
    BY <2>1, <2>2
<1>5. QED
  BY <1>1, <1>3, <1>4

\* A sum of zeros is zero.
LEMMA SumOfZeros ==
  ASSUME NEW S, IsFiniteSet(S), NEW f, \A x \in S : f[x] = 0
  PROVE  SumFunctionOnSet(f, S) = 0
<1> DEFINE C == {t \in SUBSET S : SumFunctionOnSet(f, t) # 0}
<1>1. SUFFICES ASSUME C # {} PROVE FALSE
  OBVIOUS
<1>2. PICK t \in C : \A u \in C : u \subseteq t => u = t
  <2>1. C \subseteq SUBSET S
    OBVIOUS
  <2> HIDE DEF C
  <2>2. QED
    BY <1>1, <2>1, MinimalSubset
<1>3. IsFiniteSet(t) /\ t # {}
  BY <1>2, FS_Subset, SumEmpty
<1>4. Pick(t) \in t
  BY <1>3 DEF Pick
<1>5. f[Pick(t)] = 0 /\ SumFunctionOnSet(f, t \ {Pick(t)}) = 0
  BY <1>2, <1>4
<1>6. SumFunctionOnSet(f, t) = f[Pick(t)] + SumFunctionOnSet(f, t \ {Pick(t)})
  BY <1>3, SumPick
<1>7. QED
  BY <1>2, <1>5, <1>6

-----------------------------------------------------------------------------

\* g gives each n up to m the concatenation of the first n sequences.
Flattens(ss, m, g) ==
  g = [i \in 1..m |-> IF i = 1 THEN ss[i] ELSE g[i - 1] \o ss[i]]

\* There is such a function.
LEMMA FlattensExist ==
  ASSUME NEW ss, NEW m \in Nat
  PROVE  \E g : Flattens(ss, m, g)
<1> DEFINE C == {n \in Nat : ~\E g : Flattens(ss, n, g)}
<1>1. SUFFICES ASSUME C # {} PROVE FALSE
  OBVIOUS
<1>2. PICK n \in C : \A k \in C : n <= k
  <2>1. C \subseteq Nat
    OBVIOUS
  <2> HIDE DEF C
  <2>2. QED
    BY <1>1, <2>1, LeastNatural
<1>3. CASE n = 0
  <2> DEFINE g == [i \in 1..0 |-> {}]
  <2>1. Flattens(ss, 0, g)
    BY DEF Flattens
  <2>2. QED
    BY <1>2, <1>3, <2>1
<1>4. CASE n # 0
  <2>1. n - 1 \in Nat /\ n - 1 \notin C
    BY <1>2, <1>4
  <2>2. PICK g : Flattens(ss, n - 1, g)
    BY <2>1
  <2> DEFINE h == [i \in 1..n |-> IF i = n THEN IF n = 1 THEN ss[1] ELSE g[n - 1] \o ss[n]
                                  ELSE g[i]]
  <2>3. ASSUME NEW i \in 1..n
        PROVE  h[i] = IF i = 1 THEN ss[i] ELSE h[i - 1] \o ss[i]
    <3>1. i # 1 => i - 1 \in 1..n /\ i - 1 # n
      BY <1>2
    <3>2. i # n => i \in 1..n - 1 /\ g[i] = IF i = 1 THEN ss[i] ELSE g[i - 1] \o ss[i]
      <4>1. SUFFICES ASSUME i # n
                     PROVE  i \in 1..n - 1 /\ g[i] = IF i = 1 THEN ss[i] ELSE g[i - 1] \o ss[i]
        OBVIOUS
      <4>2. i \in 1..n - 1
        BY <1>2, <4>1
      <4>3. QED
        BY <2>2, <4>2 DEF Flattens
    <3>3. i # 1 => h[i - 1] = g[i - 1]
      BY <3>1
    <3>4. h[i] = IF i = n THEN IF n = 1 THEN ss[1] ELSE g[n - 1] \o ss[n] ELSE g[i]
      OBVIOUS
    <3> HIDE DEF h
    <3>5. QED
      BY <3>2, <3>3, <3>4
  <2>4. h = [i \in 1..n |-> h[i]]
    OBVIOUS
  <2> HIDE DEF h
  <2>5. Flattens(ss, n, h)
    BY <2>3, <2>4 DEF Flattens
  <2>6. QED
    BY <1>2, <2>5
<1>5. QED
  BY <1>3, <1>4

\* It is determined by the sequences up to each place.
LEMMA FlattensAgree ==
  ASSUME NEW ss, NEW tt, NEW m \in Nat, NEW n \in Nat, n <= m,
         \A i \in 1..n : ss[i] = tt[i],
         NEW g, Flattens(ss, m, g), NEW h, Flattens(tt, n, h)
  PROVE  \A i \in 1..n : g[i] = h[i]
<1> DEFINE C == {i \in Nat : i \in 1..n /\ g[i] # h[i]}
<1>1. SUFFICES ASSUME C # {} PROVE FALSE
  OBVIOUS
<1>2. PICK i \in C : \A k \in C : i <= k
  <2>1. C \subseteq Nat
    OBVIOUS
  <2> HIDE DEF C
  <2>2. QED
    BY <1>1, <2>1, LeastNatural
<1>3. i \in 1..n /\ i \in 1..m /\ g[i] # h[i]
  BY <1>2
<1>4. i # 1 => g[i - 1] = h[i - 1]
  <2>1. SUFFICES ASSUME i # 1, i - 1 \in C PROVE FALSE
    BY <1>3
  <2>2. QED
    BY <1>2, <2>1
<1>5. /\ g[i] = IF i = 1 THEN ss[i] ELSE g[i - 1] \o ss[i]
      /\ h[i] = IF i = 1 THEN tt[i] ELSE h[i - 1] \o tt[i]
  BY <1>3 DEF Flattens
<1>6. QED
  BY <1>3, <1>4, <1>5

\* Flattening gives what such a function gives at the end.
LEMMA FlattenIsFlattens ==
  ASSUME NEW ss, Len(ss) \in Nat \ {0}
  PROVE  \E g : Flattens(ss, Len(ss), g) /\ FlattenSeq(ss) = g[Len(ss)]
<1> DEFINE G == CHOOSE g : Flattens(ss, Len(ss), g)
<1>1. Flattens(ss, Len(ss), G)
  BY FlattensExist
<1>2. FlattenSeq(ss) = G[Len(ss)]
  BY DEF FlattenSeq, Flattens
<1>3. QED
  BY <1>1, <1>2

\* Nothing flattens to nothing.
LEMMA FlattenEmpty == FlattenSeq(<<>>) = <<>>
BY DEF FlattenSeq

\* One sequence more is appended to what the others flatten to.
LEMMA FlattenAppend ==
  ASSUME NEW S, NEW ss \in Seq(Seq(S)), NEW t \in Seq(S)
  PROVE  FlattenSeq(Append(ss, t)) = FlattenSeq(ss) \o t
<1> DEFINE tt == Append(ss, t)
           n == Len(ss)
<1>1. n \in Nat /\ Len(tt) = n + 1 /\ tt[n + 1] = t /\ \A i \in 1..n : tt[i] = ss[i]
  BY AppendProperties, LenProperties
<1> HIDE DEF tt
<1>2. PICK g : Flattens(tt, n + 1, g) /\ FlattenSeq(tt) = g[n + 1]
  BY <1>1, FlattenIsFlattens
<1>3. CASE n = 0
  <2>1. ss = <<>>
    BY <1>3, EmptySeq
  <2>2. g[n + 1] = t
    BY <1>1, <1>2, <1>3 DEF Flattens
  <2>3. QED
    BY <1>2, <2>1, <2>2, FlattenEmpty, ConcatEmptySeq DEF tt
<1>4. CASE n # 0
  <2>1. PICK h : Flattens(ss, n, h) /\ FlattenSeq(ss) = h[n]
    BY <1>1, <1>4, FlattenIsFlattens
  <2>2. g[n] = h[n]
    <3> HIDE DEF n
    <3>1. n + 1 \in Nat /\ n <= n + 1
      BY <1>1
    <3>2. QED
      <4>1. Flattens(tt, n + 1, g) /\ Flattens(ss, n, h) /\ \A i \in 1..n : tt[i] = ss[i]
        BY <1>1, <1>2, <2>1
      <4>2. \A i \in 1..n : g[i] = h[i]
        <5>1. n \in Nat
          BY <1>1
        <5>2. QED
          BY <3>1, <4>1, <5>1, FlattensAgree, SMTT(30)
      <4>3. n \in 1..n
        <5>1. n \in Nat
          BY <1>1
        <5>2. QED
          BY <1>4, <5>1
      <4>4. QED
        BY <4>2, <4>3
  <2>3. g[n + 1] = g[n] \o t
    <3> HIDE DEF n
    <3>1. n + 1 \in 1..n + 1 /\ n + 1 # 1 /\ (n + 1) - 1 = n
      <4>1. n \in Nat
        BY <1>1
      <4>2. QED
        BY <1>4, <4>1
    <3>2. g[n + 1] = g[(n + 1) - 1] \o tt[n + 1]
      BY <1>2, <3>1 DEF Flattens
    <3>3. QED
      BY <1>1, <3>1, <3>2
  <2>4. QED
    BY <1>2, <2>1, <2>2, <2>3 DEF tt
<1>5. QED
  BY <1>3, <1>4

-----------------------------------------------------------------------------

\* Inserting behind the first c elements.
LEMMA InsertAtProperties ==
  ASSUME NEW S, NEW s \in Seq(S), NEW e \in S, NEW c \in 0..Len(s)
  PROVE  LET x == InsertAt(s, c + 1, e)
         IN  /\ x \in Seq(S) /\ Len(x) = Len(s) + 1
             /\ \A j \in 1..Len(s) + 1 :
                  x[j] = IF j <= c THEN s[j] ELSE IF j = c + 1 THEN e ELSE s[j - 1]
<1> DEFINE n == Len(s)
           front == SubSeq(s, 1, c)
           back == SubSeq(s, c + 1, n)
           x == (front \o <<e>>) \o back
<1>1. n \in Nat /\ c \in Nat /\ c <= n /\ \A i \in 1..n : s[i] \in S
  BY LenProperties, ElementOfSeq
<1>2. front \in Seq(S) /\ Len(front) = c /\ \A j \in 1..c : front[j] = s[j]
  <2>1. /\ front \in Seq(S)
        /\ Len(front) = IF 1 <= c THEN c - 1 + 1 ELSE 0
        /\ \A j \in 1..c - 1 + 1 : front[j] = s[1 + j - 1]
    <3> HIDE DEF n
    <3>1. \A i \in 1..c : s[i] \in S
      BY <1>1
    <3>2. QED
      BY <1>1, <3>1, SubSeqProperties
  <2> HIDE DEF front
  <2>2. QED
    BY <1>1, <2>1
<1>3. /\ back \in Seq(S) /\ Len(back) = n - c
      /\ \A j \in 1..n - c : back[j] = s[c + j]
  <2>1. /\ back \in Seq(S)
        /\ Len(back) = IF c + 1 <= n THEN n - (c + 1) + 1 ELSE 0
        /\ \A j \in 1..n - (c + 1) + 1 : back[j] = s[(c + 1) + j - 1]
    <3> HIDE DEF n
    <3>1. (\A i \in c + 1..n : s[i] \in S) /\ c + 1 \in Int /\ n \in Int
      BY <1>1
    <3>2. QED
      BY <3>1, SubSeqProperties
  <2> HIDE DEF back, n
  <2>2. QED
    BY <1>1, <2>1
<1>4. /\ front \o <<e>> \in Seq(S) /\ Len(front \o <<e>>) = c + 1
      /\ \A j \in 1..c : (front \o <<e>>)[j] = s[j]
      /\ (front \o <<e>>)[c + 1] = e
  <2>1. <<e>> \in Seq(S) /\ Len(<<e>>) = 1 /\ <<e>>[1] = e
    OBVIOUS
  <2> HIDE DEF front
  <2>2. /\ front \o <<e>> \in Seq(S) /\ Len(front \o <<e>>) = c + 1
        /\ \A j \in 1..c + 1 :
             (front \o <<e>>)[j] = IF j <= c THEN front[j] ELSE <<e>>[j - c]
    BY <1>2, <2>1, ConcatProperties
  <2>3. QED
    BY <1>1, <1>2, <2>1, <2>2
<1>5. /\ x \in Seq(S) /\ Len(x) = n + 1
      /\ \A j \in 1..n + 1 :
           x[j] = IF j <= c + 1 THEN (front \o <<e>>)[j] ELSE back[j - (c + 1)]
  <2> DEFINE y == front \o <<e>>
  <2>1. y \in Seq(S) /\ Len(y) = c + 1
    BY <1>4
  <2>2. x = y \o back
    OBVIOUS
  <2> HIDE DEF x, y, back, n
  <2>3. /\ y \o back \in Seq(S) /\ Len(y \o back) = Len(y) + Len(back)
        /\ \A j \in 1..Len(y) + Len(back) :
             (y \o back)[j] = IF j <= Len(y) THEN y[j] ELSE back[j - Len(y)]
    <3> HIDE DEF y
    <3>1. QED
      BY <1>3, <2>1, ConcatProperties
  <2>4. (c + 1) + (n - c) = n + 1
    BY <1>1
  <2>5. QED
    BY <1>3, <2>1, <2>2, <2>3, <2>4 DEF y
<1>6. x = InsertAt(s, c + 1, e)
  <2>1. (c + 1) - 1 = c
    BY <1>1
  <2>2. InsertAt(s, c + 1, e) = SubSeq(s, 1, (c + 1) - 1) \o <<e>> \o SubSeq(s, c + 1, Len(s))
    BY DEF InsertAt
  <2>3. QED
    BY <2>1, <2>2
<1> HIDE DEF x, front, back, n
<1>7. ASSUME NEW j \in 1..n + 1
      PROVE  x[j] = IF j <= c THEN s[j] ELSE IF j = c + 1 THEN e ELSE s[j - 1]
  <2>1. CASE j <= c
    BY <1>1, <1>4, <1>5, <2>1
  <2>2. CASE j = c + 1
    BY <1>1, <1>4, <1>5, <2>2
  <2>3. CASE j > c + 1
    <3>1. j - (c + 1) \in 1..n - c /\ c + (j - (c + 1)) = j - 1
      BY <1>1, <2>3
    <3>2. x[j] = back[j - (c + 1)]
      BY <1>1, <1>5, <2>3
    <3>3. QED
      BY <1>1, <1>3, <2>3, <3>1, <3>2
  <2>4. QED
    BY <1>1, <2>1, <2>2, <2>3
<1>8. QED
  BY <1>5, <1>6, <1>7 DEF n


-----------------------------------------------------------------------------
(* FoldLeft.  It takes the indices of a sequence from a set, the largest    *)
(* first; an operator that is folded is a function here, of what the fold   *)
(* has come to and an index.                                                *)

\* it gives each set of indices what the fold over it comes to.
Folds(base, step, S, it) ==
  it = [s \in SUBSET S |-> IF s = {} THEN base
                           ELSE step[<<it[s \ {Max(s)}], Max(s)>>]]

\* The largest index of a set.
LEMMA LargestIndex ==
  ASSUME NEW n \in Nat, NEW s \in SUBSET (1..n), s # {}
  PROVE  /\ Max(s) \in s /\ \A k \in s : k <= Max(s)
         /\ \A k \in s : (\A l \in s : l <= k) => Max(s) = k
<1> DEFINE C == {m \in Nat : \A k \in s : k <= m}
<1>1. n \in C /\ C \subseteq Nat
  OBVIOUS
<1>2. PICK m \in C : \A l \in C : m <= l
  <2> HIDE DEF C
  <2>1. QED
    BY <1>1, LeastNatural
<1>3. m \in Nat /\ \A k \in s : k <= m
  BY <1>2
<1>4. m \in s
  <2>1. SUFFICES ASSUME m \notin s PROVE FALSE
    OBVIOUS
  <2>2. PICK x : x \in s
    OBVIOUS
  <2>3. m # 0
    BY <1>3, <2>2
  <2>4. m - 1 \in Nat /\ ~(m <= m - 1)
    BY <1>3, <2>3
  <2>5. \A k \in s : k <= m - 1
    BY <1>3, <2>1
  <2>6. m - 1 \in C
    BY <2>4, <2>5
  <2>7. QED
    BY <1>2, <2>4, <2>6
<1>5. \A k \in s : k \in Int
  OBVIOUS
<1>6. Max(s) \in s /\ \A k \in s : Max(s) >= k
  <2>1. \E x \in s : \A y \in s : x >= y
    BY <1>3, <1>4, <1>5
  <2>2. QED
    BY <2>1 DEF Max
<1>7. Max(s) \in Int
  BY <1>5, <1>6
<1> DEFINE x == Max(s)
<1> HIDE DEF x
<1>8. x \in s /\ x \in Int /\ \A k \in s : x >= k
  BY <1>6, <1>7 DEF x
<1>9. \A k \in s : k <= x
  BY <1>5, <1>8
<1>10. ASSUME NEW k \in s, \A l \in s : l <= k PROVE x = k
  BY <1>5, <1>8, <1>10
<1>11. QED
  BY <1>8, <1>9, <1>10 DEF x

\* There is such a function, and all it comes to are states.
LEMMA FoldsExist ==
  ASSUME NEW St, NEW base \in St, NEW n \in Nat, NEW step,
         \A x \in St, k \in 1..n : step[<<x, k>>] \in St
  PROVE  \E it \in [SUBSET (1..n) -> St] : Folds(base, step, 1..n, it)
<1> DEFINE Good(m) == \E it \in [SUBSET (1..m) -> St] : Folds(base, step, 1..m, it)
           C == {m \in Nat : m <= n /\ ~Good(m)}
<1>1. SUFFICES ASSUME C # {} PROVE FALSE
  <2>1. C = {} => Good(n)
    <3> HIDE DEF Good
    <3>1. QED
      OBVIOUS
  <2>2. QED
    BY <2>1
<1>2. PICK m \in C : \A k \in C : m <= k
  <2>1. C \subseteq Nat
    OBVIOUS
  <2> HIDE DEF C
  <2>2. QED
    BY <1>1, <2>1, LeastNatural
<1>3. m \in Nat /\ m <= n /\ ~Good(m)
  BY <1>2
<1>4. CASE m = 0
  <2> DEFINE it == [s \in SUBSET (1..0) |-> base]
  <2>1. it \in [SUBSET (1..0) -> St]
    OBVIOUS
  <2>2. \A s \in SUBSET (1..0) : s = {}
    OBVIOUS
  <2>3. Folds(base, step, 1..0, it)
    BY <2>2 DEF Folds
  <2>4. QED
    BY <1>3, <1>4, <2>1, <2>3
<1>5. CASE m # 0
  <2>1. m - 1 \in Nat /\ m - 1 <= n /\ ~(m <= m - 1) /\ m \in 1..n
        /\ 1..m - 1 \subseteq 1..m
    BY <1>3, <1>5
  <2>2. PICK old \in [SUBSET (1..m - 1) -> St] : Folds(base, step, 1..m - 1, old)
    BY <1>2, <2>1
  <2> DEFINE it == [s \in SUBSET (1..m) |-> IF m \in s THEN step[<<old[s \ {m}], m>>]
                                            ELSE old[s]]
  <2>3. ASSUME NEW s \in SUBSET (1..m)
        PROVE  /\ s \ {m} \in SUBSET (1..m - 1)
               /\ m \notin s => s \in SUBSET (1..m - 1)
    BY <1>3
  <2>4. it \in [SUBSET (1..m) -> St]
    <3>1. ASSUME NEW s \in SUBSET (1..m), m \in s PROVE step[<<old[s \ {m}], m>>] \in St
      BY <2>1, <2>2, <2>3
    <3>2. ASSUME NEW s \in SUBSET (1..m), m \notin s PROVE old[s] \in St
      BY <2>2, <2>3, <3>2
    <3>3. QED
      BY <3>1, <3>2
  <2>5. ASSUME NEW s \in SUBSET (1..m), s # {}
        PROVE  it[s] = step[<<it[s \ {Max(s)}], Max(s)>>]
    <3>1. Max(s) \in s
      BY <1>3, <2>5, LargestIndex
    <3>2. it[s] = IF m \in s THEN step[<<old[s \ {m}], m>>] ELSE old[s]
      OBVIOUS
    <3> DEFINE t == s \ {Max(s)}
    <3>3. t \in SUBSET (1..m) /\ it[t] = IF m \in t THEN step[<<old[t \ {m}], m>>] ELSE old[t]
      OBVIOUS
    <3>4. CASE m \in s
      <4>1. \A l \in s : l <= m
        BY <1>3
      <4>2. Max(s) = m
        BY <1>3, <2>5, <3>4, <4>1, LargestIndex
      <4>3. m \notin t
        BY <4>2
      <4> HIDE DEF it
      <4>4. QED
        BY <3>2, <3>3, <3>4, <4>2, <4>3
    <3>5. CASE m \notin s
      <4>1. s \in SUBSET (1..m - 1) /\ m \notin t
        BY <2>3, <3>5
      <4>2. old[s] = step[<<old[t], Max(s)>>]
        BY <2>2, <2>5, <4>1 DEF Folds
      <4> HIDE DEF it, t
      <4>3. it[s] = step[<<it[t], Max(s)>>]
        BY <3>2, <3>3, <3>5, <4>1, <4>2
      <4>4. QED
        BY <4>3 DEF t
    <3>6. QED
      BY <3>4, <3>5
  <2>6. it[{}] = base
    BY <2>2 DEF Folds
  <2> HIDE DEF it
  <2>7. Folds(base, step, 1..m, it)
    <3>1. \A s \in SUBSET (1..m) :
            it[s] = IF s = {} THEN base ELSE step[<<it[s \ {Max(s)}], Max(s)>>]
      BY <2>5, <2>6
    <3>2. QED
      BY <2>4, <3>1 DEF Folds
  <2>8. QED
    BY <1>3, <2>4, <2>7
<1>6. QED
  BY <1>4, <1>5

\* A fold over a sequence takes one index after the other.
LEMMA LastIndex ==
  ASSUME NEW n \in Nat, NEW k \in 1..n
  PROVE  /\ 1..k \in SUBSET (1..n) /\ 1..k # {}
         /\ Max(1..k) = k /\ (1..k) \ {k} = 1..(k - 1)
<1>1. 1..k \in SUBSET (1..n) /\ k \in 1..k /\ \A l \in 1..k : l <= k
  <2>1. \A l \in 1..k : l \in 1..n /\ l <= k
    OBVIOUS
  <2>2. k \in 1..k
    OBVIOUS
  <2>3. QED
    BY <2>1, <2>2
<1>2. Max(1..k) = k
  BY <1>1, LargestIndex
<1>3. (1..k) \ {k} = 1..(k - 1)
  <2>1. \A x : x \in (1..k) \ {k} <=> x \in 1..(k - 1)
    OBVIOUS
  <2>2. QED
    BY <2>1, Zenon
<1>4. QED
  BY <1>1, <1>2, <1>3


-----------------------------------------------------------------------------
(* Recursion over the naturals: f[n] from f of one smaller number.  What is  *)
(* done to it is a function here, of n and of that value.                    *)

\* g is the function up to n.
Upto(base, prev, step, S, n, g) ==
  /\ g \in [0..n -> S]
  /\ \A k \in 0..n : g[k] = IF k = 0 THEN base ELSE step[<<k, g[prev[k]]>>]

\* There is one up to each n.
LEMMA UptoExists ==
  ASSUME NEW S, NEW base \in S, NEW prev, NEW step,
         \A k \in Nat \ {0} : prev[k] \in 0..k - 1,
         \A k \in Nat, x \in S : step[<<k, x>>] \in S,
         NEW n \in Nat
  PROVE  \E g : Upto(base, prev, step, S, n, g)
<1> DEFINE Good(k) == \E g : Upto(base, prev, step, S, k, g)
           C == {k \in Nat : ~Good(k)}
<1>1. SUFFICES ASSUME C # {} PROVE FALSE
  <2>1. C = {} => Good(n)
    <3> HIDE DEF Good
    <3>1. QED
      OBVIOUS
  <2>2. QED
    BY <2>1
<1>2. PICK m \in C : \A k \in C : m <= k
  <2>1. C \subseteq Nat
    OBVIOUS
  <2> HIDE DEF C
  <2>2. QED
    BY <1>1, <2>1, LeastNatural
<1>3. m \in Nat /\ ~Good(m)
  BY <1>2
<1>4. CASE m = 0
  <2> DEFINE g == [k \in 0..0 |-> base]
  <2>1. Upto(base, prev, step, S, 0, g)
    BY DEF Upto
  <2>2. QED
    BY <1>3, <1>4, <2>1
<1>5. CASE m # 0
  <2>1. m - 1 \in Nat /\ ~(m <= m - 1) /\ m \in Nat \ {0}
    BY <1>3, <1>5
  <2>2. PICK old : Upto(base, prev, step, S, m - 1, old)
    BY <1>2, <2>1
  <2>3. /\ old \in [0..m - 1 -> S]
        /\ \A k \in 0..m - 1 : old[k] = IF k = 0 THEN base ELSE step[<<k, old[prev[k]]>>]
    BY <2>2 DEF Upto
  <2> DEFINE new == step[<<m, old[prev[m]]>>]
             g == [k \in 0..m |-> IF k = m THEN new ELSE old[k]]
  <2>4. prev[m] \in 0..m - 1
    BY <2>1
  <2>5. new \in S
    BY <1>3, <2>3, <2>4
  <2>6. \A k \in 0..m : k # m => k \in 0..m - 1
    BY <1>3
  <2>7. g \in [0..m -> S]
    <3> HIDE DEF new
    <3>1. QED
      BY <2>3, <2>5, <2>6
  <2>8. \A k \in 0..m - 1 : g[k] = old[k]
    BY <1>3
  <2>9. g[m] = new
    BY <1>3
  <2> HIDE DEF g
  <2>10. ASSUME NEW k \in 0..m
         PROVE  g[k] = IF k = 0 THEN base ELSE step[<<k, g[prev[k]]>>]
    <3>1. CASE k = m
      BY <1>5, <2>4, <2>8, <2>9, <3>1
    <3>2. CASE k # m
      <4>1. k \in 0..m - 1
        BY <2>6, <3>2
      <4>2. k # 0 => prev[k] \in 0..m - 1
        <5>1. SUFFICES ASSUME k # 0 PROVE prev[k] \in 0..m - 1
          OBVIOUS
        <5>2. prev[k] \in 0..k - 1
          BY <4>1, <5>1
        <5>3. QED
          BY <1>3, <4>1, <5>2
      <4>3. QED
        BY <2>3, <2>8, <4>1, <4>2
    <3>3. QED
      BY <3>1, <3>2
  <2>11. Upto(base, prev, step, S, m, g)
    BY <2>7, <2>10 DEF Upto
  <2>12. QED
    BY <1>3, <2>11
<1>6. QED
  BY <1>4, <1>5

\* f is the function for all numbers.
Recursion(base, prev, step, S, f) ==
  /\ f \in [Nat -> S]
  /\ \A n \in Nat : f[n] = IF n = 0 THEN base ELSE step[<<n, f[prev[n]]>>]

\* There is such a function.
LEMMA RecursionExists ==
  ASSUME NEW S, NEW base \in S, NEW prev, NEW step,
         \A k \in Nat \ {0} : prev[k] \in 0..k - 1,
         \A k \in Nat, x \in S : step[<<k, x>>] \in S
  PROVE  \E f : Recursion(base, prev, step, S, f)
<1> DEFINE upto(n) == CHOOSE g : Upto(base, prev, step, S, n, g)
           f == [n \in Nat |-> upto(n)[n]]
<1>1. \A n \in Nat : Upto(base, prev, step, S, n, upto(n))
  BY UptoExists
<1>2. \A n \in Nat : f[n] = upto(n)[n]
  OBVIOUS
<1> HIDE DEF upto
<1>3. \A n \in Nat :
        /\ upto(n) \in [0..n -> S]
        /\ \A k \in 0..n :
             upto(n)[k] = IF k = 0 THEN base ELSE step[<<k, upto(n)[prev[k]]>>]
  BY <1>1 DEF Upto
<1>4. ASSUME NEW n \in Nat, NEW m \in 0..n
      PROVE  upto(n)[m] = f[m]
  <2> DEFINE C == {k \in Nat : k <= n /\ upto(n)[k] # upto(k)[k]}
  <2>1. SUFFICES ASSUME C # {} PROVE FALSE
    BY <1>2
  <2>2. PICK i \in C : \A k \in C : i <= k
    <3>1. C \subseteq Nat
      OBVIOUS
    <3> HIDE DEF C
    <3>2. QED
      BY <2>1, <3>1, LeastNatural
  <2>3. i \in Nat /\ i <= n /\ upto(n)[i] # upto(i)[i] /\ i \in 0..n /\ i \in 0..i
    BY <2>2
  <2>4. i # 0
    BY <1>3, <2>3
  <2> DEFINE p == prev[i]
  <2>5. p \in 0..i - 1
    BY <2>3, <2>4
  <2> HIDE DEF p
  <2>6. p \in Nat /\ p <= n /\ p <= i /\ ~(i <= p)
    BY <2>3, <2>5
  <2>7. upto(n)[p] = upto(p)[p]
    BY <2>2, <2>6
  <2>8. upto(i)[p] = upto(p)[p]
    <3> DEFINE D == {k \in Nat : k <= p /\ upto(i)[k] # upto(n)[k]}
    <3>1. SUFFICES ASSUME D # {} PROVE FALSE
      BY <2>6, <2>7
    <3>2. PICK j \in D : \A k \in D : j <= k
      <4>1. D \subseteq Nat
        OBVIOUS
      <4> HIDE DEF D
      <4>2. QED
        BY <3>1, <4>1, LeastNatural
    <3>3. j \in Nat /\ j <= p /\ upto(i)[j] # upto(n)[j] /\ j \in 0..i /\ j \in 0..n
      BY <2>3, <2>6, <3>2
    <3>4. j # 0
      BY <1>3, <2>3, <3>3
    <3>5. prev[j] \in 0..j - 1
      BY <3>3, <3>4
    <3>6. prev[j] \in Nat /\ prev[j] <= p /\ ~(j <= prev[j])
      BY <2>6, <3>3, <3>5
    <3>7. upto(i)[prev[j]] = upto(n)[prev[j]]
      BY <3>2, <3>6
    <3>8. upto(i)[j] = step[<<j, upto(i)[prev[j]]>>]
      BY <1>3, <2>3, <3>3, <3>4
    <3>9. upto(n)[j] = step[<<j, upto(n)[prev[j]]>>]
      BY <1>3, <3>3, <3>4
    <3>10. QED
      BY <3>3, <3>7, <3>8, <3>9
  <2>9. /\ upto(n)[i] = step[<<i, upto(n)[p]>>]
        /\ upto(i)[i] = step[<<i, upto(i)[p]>>]
    BY <1>3, <2>3, <2>4 DEF p
  <2>10. QED
    BY <2>3, <2>7, <2>8, <2>9
<1>5. \A n \in Nat : n \in 0..n
  OBVIOUS
<1>6. f \in [Nat -> S]
  <2>1. \A n \in Nat : upto(n)[n] \in S
    BY <1>3, <1>5
  <2>2. QED
    BY <2>1
<1> HIDE DEF f
<1>7. ASSUME NEW n \in Nat
      PROVE  f[n] = IF n = 0 THEN base ELSE step[<<n, f[prev[n]]>>]
  <2>1. n # 0 => prev[n] \in 0..n
    <3>1. n # 0 => prev[n] \in 0..n - 1
      OBVIOUS
    <3>2. QED
      BY <3>1
  <2>2. n # 0 => upto(n)[prev[n]] = f[prev[n]]
    BY <1>4, <2>1
  <2>3. upto(n)[n] = IF n = 0 THEN base ELSE step[<<n, upto(n)[prev[n]]>>]
    BY <1>3, <1>5
  <2>4. QED
    BY <1>2, <2>2, <2>3
<1>8. QED
  BY <1>6, <1>7 DEF Recursion


-----------------------------------------------------------------------------
(* What FoldLeft has come to after each index.                              *)

\* g gives the states that the fold passes, from the first to the last.
RunOf(base, step, St, n, g) ==
  /\ g \in [0..n -> St]
  /\ g[0] = base
  /\ \A k \in 1..n : g[k] = step[<<g[k - 1], k>>]

\* F gives the first k indices what a step makes of the first k - 1.
TakesSteps(base, step, St, n, F) ==
  /\ F[{}] = base
  /\ \A k \in 1..n : F[1..(k - 1)] \in St =>
       F[1..k] = step[<<F[1..(k - 1)], k>>]

\* A run comes to x.
RunsTo(base, step, St, n, x) ==
  \E g : RunOf(base, step, St, n, g) /\ g[n] = x

\* A function of sets of indices that takes one index more by a step is a run
\* on the sets of the first ones.
LEMMA FoldRuns ==
  ASSUME NEW St, NEW base \in St, NEW n \in Nat, NEW step,
         \A x \in St, k \in 1..n : step[<<x, k>>] \in St,
         NEW F, TakesSteps(base, step, St, n, F)
  PROVE  RunsTo(base, step, St, n, F[1..n])
<1>1. 1..0 = {}
  OBVIOUS
<1>2. \A k \in 0..n : F[1..k] \in St
  <2> DEFINE C == {k \in Nat : k <= n /\ F[1..k] \notin St}
  <2>1. SUFFICES ASSUME C # {} PROVE FALSE
    OBVIOUS
  <2>2. PICK k \in C : \A l \in C : k <= l
    <3>1. C \subseteq Nat
      OBVIOUS
    <3> HIDE DEF C
    <3>2. QED
      BY <2>1, <3>1, LeastNatural
  <2>3. k # 0
    BY <1>1, <2>2 DEF TakesSteps
  <2>4. k \in 1..n /\ k - 1 \in Nat /\ k - 1 <= n /\ ~(k <= k - 1)
    BY <2>2, <2>3
  <2>5. F[1..(k - 1)] \in St
    BY <2>2, <2>4
  <2>6. F[1..k] \in St
    BY <2>4, <2>5 DEF TakesSteps
  <2>7. QED
    BY <2>2, <2>6
<1> DEFINE g == [k \in 0..n |-> F[1..k]]
<1>3. \A k \in 1..n : k \in 0..n /\ k - 1 \in 0..n
  OBVIOUS
<1>4. g \in [0..n -> St]
  BY <1>2
<1>5. \A k \in 0..n : g[k] = F[1..k]
  OBVIOUS
<1> HIDE DEF g
<1>6. 0 \in 0..n /\ n \in 0..n
  OBVIOUS
<1>7. g[0] = base /\ g[n] = F[1..n]
  BY <1>1, <1>5, <1>6 DEF TakesSteps
<1>8. \A k \in 1..n : g[k] = step[<<g[k - 1], k>>]
  BY <1>2, <1>3, <1>5 DEF TakesSteps
<1>9. RunOf(base, step, St, n, g)
  BY <1>4, <1>7, <1>8 DEF RunOf
<1>10. QED
  BY <1>7, <1>9 DEF RunsTo

=============================================================================
