----------------------------- MODULE Mmr_proof -----------------------------
(***************************************************************************)
(* Proofs about the mountain range, for any leaves and any number of them. *)
(***************************************************************************)
EXTENDS Mmr, FoldLemmas

-----------------------------------------------------------------------------
(* Powers of two *)

\* What Pow2 computes.
LEMMA Pow2Is ==
  /\ Pow2 \in [Nat -> Nat]
  /\ Pow2[0] = 1
  /\ \A n \in Nat : Pow2[n + 1] = 2 * Pow2[n]
<1> DEFINE prev == [n \in Nat |-> n - 1]
           step == [x \in Nat \X Nat |-> 2 * x[2]]
           Is(f) == f = [n \in Nat |-> IF n = 0 THEN 1 ELSE 2 * f[n - 1]]
<1>1. \A n \in Nat \ {0} : prev[n] = n - 1 /\ prev[n] \in 0..n - 1
  OBVIOUS
<1>2. \A n \in Nat, x \in Nat : step[<<n, x>>] = 2 * x /\ step[<<n, x>>] \in Nat
  OBVIOUS
<1> HIDE DEF prev, step
<1>3. 1 \in Nat
  OBVIOUS
<1>4. PICK p : Recursion(1, prev, step, Nat, p)
  BY <1>1, <1>2, <1>3, RecursionExists
<1>5. Is(p)
  <2>1. \A n \in Nat : n # 0 => n \in Nat \ {0} /\ n - 1 \in Nat
    OBVIOUS
  <2>2. \A n \in Nat : n # 0 => step[<<n, p[prev[n]]>>] = 2 * p[n - 1]
    <3>1. p \in [Nat -> Nat]
      BY <1>4 DEF Recursion
    <3>2. QED
      BY <1>1, <1>2, <2>1, <3>1
  <2>3. QED
    BY <1>4, <2>2 DEF Recursion
<1>6. Pow2 = CHOOSE f : Is(f)
  BY DEF Pow2
<1>7. Is(Pow2)
  BY <1>5, <1>6
<1>8. Pow2[0] = 1
  BY <1>7
<1>9. ASSUME NEW n \in Nat PROVE Pow2[n + 1] = 2 * Pow2[n]
  <2>1. n + 1 \in Nat /\ n + 1 # 0 /\ (n + 1) - 1 = n
    OBVIOUS
  <2>2. Pow2[n + 1] = IF n + 1 = 0 THEN 1 ELSE 2 * Pow2[(n + 1) - 1]
    BY <1>7, <2>1
  <2>3. QED
    BY <2>1, <2>2
<1>10. ASSUME NEW n \in Nat PROVE Pow2[n] \in Nat
  <2> DEFINE C == {k \in Nat : Pow2[k] \notin Nat}
  <2>1. SUFFICES ASSUME C # {} PROVE FALSE
    OBVIOUS
  <2>2. PICK m \in C : \A k \in C : m <= k
    <3>1. C \subseteq Nat
      OBVIOUS
    <3> HIDE DEF C
    <3>2. QED
      BY <2>1, <3>1, LeastNatural
  <2>3. m # 0
    BY <1>8, <2>2
  <2>4. m - 1 \in Nat /\ ~(m <= m - 1) /\ (m - 1) + 1 = m
    BY <2>2, <2>3
  <2>5. Pow2[m - 1] \in Nat
    BY <2>2, <2>4
  <2>6. Pow2[(m - 1) + 1] = 2 * Pow2[m - 1]
    BY <1>9, <2>4
  <2>7. QED
    BY <2>2, <2>4, <2>5, <2>6
<1>11. Pow2 \in [Nat -> Nat]
  BY <1>7, <1>10
<1>12. QED
  BY <1>8, <1>9, <1>11

\* Powers are positive.
LEMMA PowPositive ==
  ASSUME NEW n \in Nat
  PROVE  Pow2[n] \in Nat /\ Pow2[n] >= 1
<1> DEFINE C == {k \in Nat : ~(Pow2[k] >= 1)}
<1>1. Pow2[n] \in Nat
  BY Pow2Is
<1>2. SUFFICES ASSUME C # {} PROVE FALSE
  BY <1>1
<1>3. PICK m \in C : \A k \in C : m <= k
  <2>1. C \subseteq Nat
    OBVIOUS
  <2> HIDE DEF C
  <2>2. QED
    BY <1>2, <2>1, LeastNatural
<1>4. m # 0
  BY <1>3, Pow2Is
<1>5. m - 1 \in Nat /\ ~(m <= m - 1) /\ (m - 1) + 1 = m
  BY <1>3, <1>4
<1>6. Pow2[m - 1] >= 1 /\ Pow2[m - 1] \in Nat
  BY <1>3, <1>5, Pow2Is
<1>7. Pow2[(m - 1) + 1] = 2 * Pow2[m - 1]
  BY <1>5, Pow2Is
<1>8. QED
  BY <1>3, <1>5, <1>6, <1>7

\* A power is greater than its exponent.
LEMMA PowGreater ==
  ASSUME NEW n \in Nat
  PROVE  n < Pow2[n]
<1> DEFINE C == {k \in Nat : ~(k < Pow2[k])}
<1>1. SUFFICES ASSUME C # {} PROVE FALSE
  OBVIOUS
<1>2. PICK m \in C : \A k \in C : m <= k
  <2>1. C \subseteq Nat
    OBVIOUS
  <2> HIDE DEF C
  <2>2. QED
    BY <1>1, <2>1, LeastNatural
<1>3. m # 0
  BY <1>2, Pow2Is
<1>4. m - 1 \in Nat /\ ~(m <= m - 1) /\ (m - 1) + 1 = m
  BY <1>2, <1>3
<1>5. m - 1 < Pow2[m - 1] /\ Pow2[m - 1] \in Nat
  BY <1>2, <1>4, Pow2Is
<1>6. Pow2[(m - 1) + 1] = 2 * Pow2[m - 1]
  BY <1>4, Pow2Is
<1>7. QED
  BY <1>2, <1>4, <1>5, <1>6

\* Exponents add up.
LEMMA PowAdds ==
  ASSUME NEW a \in Nat, NEW b \in Nat
  PROVE  Pow2[a + b] = Pow2[a] * Pow2[b]
<1> DEFINE C == {k \in Nat : Pow2[a + k] # Pow2[a] * Pow2[k]}
<1>1. SUFFICES ASSUME C # {} PROVE FALSE
  OBVIOUS
<1>2. PICK m \in C : \A k \in C : m <= k
  <2>1. C \subseteq Nat
    OBVIOUS
  <2> HIDE DEF C
  <2>2. QED
    BY <1>1, <2>1, LeastNatural
<1>3. m # 0
  <2>1. Pow2[a] \in Nat /\ a + 0 = a /\ Pow2[0] = 1
    BY Pow2Is
  <2>2. QED
    BY <1>2, <2>1
<1>4. m - 1 \in Nat /\ ~(m <= m - 1) /\ (m - 1) + 1 = m
      /\ a + (m - 1) \in Nat /\ (a + (m - 1)) + 1 = a + m
  BY <1>2, <1>3
<1>5. Pow2[a + (m - 1)] = Pow2[a] * Pow2[m - 1]
  BY <1>2, <1>4
<1>6. Pow2[m] = 2 * Pow2[m - 1] /\ Pow2[a + m] = 2 * Pow2[a + (m - 1)]
  <2>1. /\ Pow2[(m - 1) + 1] = 2 * Pow2[m - 1]
        /\ Pow2[(a + (m - 1)) + 1] = 2 * Pow2[a + (m - 1)]
    BY <1>4, Pow2Is
  <2>2. QED
    BY <1>4, <2>1
<1>7. Pow2[a] \in Nat /\ Pow2[m - 1] \in Nat
  BY <1>4, Pow2Is
<1>8. Pow2[a] * (2 * Pow2[m - 1]) = 2 * (Pow2[a] * Pow2[m - 1])
  BY <1>7
<1>9. QED
  BY <1>2, <1>5, <1>6, <1>8

\* A power is a multiple of twice any smaller one.
LEMMA PowDivides ==
  ASSUME NEW a \in Nat, NEW b \in Nat, a < b
  PROVE  \E c \in Nat : c >= 1 /\ Pow2[b] = c * (2 * Pow2[a])
<1>1. b - (a + 1) \in Nat /\ (b - (a + 1)) + (a + 1) = b /\ a + 1 \in Nat
  OBVIOUS
<1> DEFINE d == b - (a + 1)
<1>2. Pow2[d] \in Nat /\ Pow2[d] >= 1
  BY <1>1, PowPositive
<1>3. Pow2[d + (a + 1)] = Pow2[d] * Pow2[a + 1]
  BY <1>1, PowAdds
<1>4. Pow2[a + 1] = 2 * Pow2[a]
  BY Pow2Is
<1>5. QED
  BY <1>1, <1>2, <1>3, <1>4

\* Powers grow.
LEMMA PowGrows ==
  ASSUME NEW a \in Nat, NEW b \in Nat, a <= b
  PROVE  Pow2[a] <= Pow2[b]
<1>1. CASE a = b
  BY <1>1, PowPositive
<1>2. CASE a < b
  <2>1. PICK c \in Nat : c >= 1 /\ Pow2[b] = c * (2 * Pow2[a])
    BY <1>2, PowDivides
  <2>2. Pow2[a] \in Nat
    BY PowPositive
  <2> DEFINE p == Pow2[a]
  <2> HIDE DEF p
  <2>3. ASSUME p \in Nat PROVE p <= c * (2 * p)
    BY <2>1, <2>3
  <2>4. QED
    BY <2>1, <2>2, <2>3 DEF p
<1>3. QED
  BY <1>1, <1>2

-----------------------------------------------------------------------------
(* Quotients and remainders *)

\* There is one quotient and one remainder.
LEMMA Division ==
  ASSUME NEW p \in Nat, p >= 1, NEW q \in Nat, NEW r \in 0..p - 1
  PROVE  (q * p + r) \div p = q /\ (q * p + r) % p = r
OBVIOUS

\* Every number has them.
LEMMA Divided ==
  ASSUME NEW p \in Nat, p >= 1, NEW n \in Nat
  PROVE  /\ n \div p \in Nat /\ n % p \in 0..p - 1
         /\ n = (n \div p) * p + (n % p)
OBVIOUS


-----------------------------------------------------------------------------
(* The ones a number ends with, as a bitmap *)

\* In binary n ends with k ones and no more.
Ends(n, k) == \E q \in Nat : n = q * (2 * Pow2[k]) + (Pow2[k] - 1)

\* AddLeaf asks just that of the peaks.
LEMMA EndsTest ==
  ASSUME NEW n \in Nat, NEW k \in Nat
  PROVE  Ends(n, k) <=> /\ n % Pow2[k] = Pow2[k] - 1
                        /\ (n \div Pow2[k]) % 2 = 0
<1> DEFINE p == Pow2[k]
<1>1. p \in Nat /\ p >= 1
  BY PowPositive
<1>2. ASSUME Ends(n, k) PROVE n % p = p - 1 /\ (n \div p) % 2 = 0
  <2>1. PICK q \in Nat : n = q * (2 * p) + (p - 1)
    BY <1>2 DEF Ends
  <2> HIDE DEF p
  <2>2. q * (2 * p) = (2 * q) * p
    BY <1>1
  <2>3. 2 * q \in Nat /\ p - 1 \in 0..p - 1
    BY <1>1
  <2>4. n = (2 * q) * p + (p - 1)
    BY <2>1, <2>2
  <2>5. n \div p = 2 * q /\ n % p = p - 1
    BY <1>1, <2>3, <2>4, Division
  <2>6. QED
    BY <2>5
<1>3. ASSUME n % p = p - 1, (n \div p) % 2 = 0 PROVE Ends(n, k)
  <2> DEFINE d == n \div p
  <2>1. d \in Nat /\ n = d * p + (n % p)
    BY <1>1, Divided
  <2>2. d % 2 = 0
    BY <1>3
  <2> HIDE DEF d
  <2>3. PICK q \in Nat : d = 2 * q
    <3>1. d \div 2 \in Nat /\ d = 2 * (d \div 2)
      BY <2>1, <2>2
    <3>2. QED
      BY <3>1
  <2>4. n = (2 * q) * p + (p - 1)
    BY <1>3, <2>1, <2>3
  <2>5. (2 * q) * p = q * (2 * p)
    <3> HIDE DEF p
    <3>1. QED
      BY <1>1
  <2>6. QED
    BY <2>4, <2>5 DEF Ends
<1>4. QED
  BY <1>2, <1>3

\* An even number ends with no ones, an odd one with one more than its half.
LEMMA EndsHalf ==
  ASSUME NEW m \in Nat, NEW k \in Nat
  PROVE  /\ Ends(2 * m, k) <=> k = 0
         /\ Ends(2 * m + 1, k) <=> k # 0 /\ Ends(m, k - 1)
<1>1. CASE k = 0
  <2>1. Pow2[k] = 1
    BY <1>1, Pow2Is
  <2>2. Ends(2 * m, k)
    BY <2>1 DEF Ends
  <2>3. ~Ends(2 * m + 1, k)
    BY <2>1 DEF Ends
  <2>4. QED
    BY <1>1, <2>2, <2>3
<1>2. CASE k # 0
  <2>1. k - 1 \in Nat /\ (k - 1) + 1 = k
    BY <1>2
  <2> DEFINE p == Pow2[k - 1]
  <2>2. Pow2[(k - 1) + 1] = 2 * p /\ p \in Nat
    BY <2>1, Pow2Is
  <2>3. Pow2[k] = 2 * p
    BY <2>1, <2>2
  <2> HIDE DEF p
  <2>4. ~Ends(2 * m, k)
    <3>1. SUFFICES ASSUME NEW q \in Nat, 2 * m = q * (2 * (2 * p)) + (2 * p - 1)
                   PROVE  FALSE
      BY <2>3 DEF Ends
    <3>2. q * (2 * (2 * p)) = 2 * (q * (2 * p)) /\ q * (2 * p) \in Nat
      BY <2>2
    <3>3. QED
      BY <2>2, <3>1, <3>2
  <2>5. ASSUME NEW q \in Nat
        PROVE  2 * m + 1 = q * (2 * (2 * p)) + (2 * p - 1)
                 <=> m = q * (2 * p) + (p - 1)
    <3>1. q * (2 * (2 * p)) = 2 * (q * (2 * p)) /\ q * (2 * p) \in Nat
      BY <2>2
    <3>2. QED
      BY <2>2, <3>1
  <2>6. Ends(2 * m + 1, k) <=> Ends(m, k - 1)
    <3>1. Ends(2 * m + 1, k) <=>
            \E q \in Nat : 2 * m + 1 = q * (2 * (2 * p)) + (2 * p - 1)
      BY <2>3 DEF Ends
    <3>2. Ends(m, k - 1) <=> \E q \in Nat : m = q * (2 * p) + (p - 1)
      BY DEF Ends, p
    <3>3. QED
      BY <2>5, <3>1, <3>2
  <2>7. QED
    BY <1>2, <2>4, <2>6
<1>3. QED
  BY <1>1, <1>2

\* Every number is even or odd.
LEMMA EvenOrOdd ==
  ASSUME NEW n \in Nat
  PROVE  \E m \in Nat : n = 2 * m \/ n = 2 * m + 1
<1>1. n \div 2 \in Nat /\ (n = 2 * (n \div 2) \/ n = 2 * (n \div 2) + 1)
  OBVIOUS
<1>2. QED
  BY <1>1

\* Every number ends with some number of ones, and with one only.
LEMMA EndsOnce ==
  ASSUME NEW n \in Nat
  PROVE  \E k \in Nat : Ends(n, k) /\ \A l \in Nat : Ends(n, l) => l = k
<1> DEFINE Once(x) == \E k \in Nat : Ends(x, k) /\ \A l \in Nat : Ends(x, l) => l = k
           C == {x \in Nat : ~Once(x)}
<1>1. SUFFICES ASSUME C # {} PROVE FALSE
  OBVIOUS
<1>2. PICK x \in C : \A y \in C : x <= y
  <2>1. C \subseteq Nat
    OBVIOUS
  <2> HIDE DEF C
  <2>2. QED
    BY <1>1, <2>1, LeastNatural
<1>3. x \in Nat /\ ~Once(x)
  BY <1>2
<1>4. PICK m \in Nat : x = 2 * m \/ x = 2 * m + 1
  BY <1>3, EvenOrOdd
<1>5. CASE x = 2 * m
  <2>1. \A k \in Nat : Ends(x, k) <=> k = 0
    BY <1>5, EndsHalf
  <2>2. QED
    BY <1>3, <2>1
<1>6. CASE x = 2 * m + 1
  <2>1. ~(x <= m)
    BY <1>6
  <2>2. Once(m)
    BY <1>2, <2>1
  <2>3. PICK k \in Nat : Ends(m, k) /\ \A l \in Nat : Ends(m, l) => l = k
    BY <2>2
  <2>4. \A l \in Nat : Ends(x, l) <=> l # 0 /\ Ends(m, l - 1)
    BY <1>6, EndsHalf
  <2>5. k + 1 \in Nat /\ k + 1 # 0 /\ (k + 1) - 1 = k
    OBVIOUS
  <2>6. Ends(x, k + 1)
    BY <2>3, <2>4, <2>5
  <2>7. ASSUME NEW l \in Nat, Ends(x, l) PROVE l = k + 1
    <3>1. l # 0 /\ Ends(m, l - 1)
      BY <2>4, <2>7
    <3>2. l - 1 \in Nat
      BY <3>1
    <3>3. l - 1 = k
      BY <2>3, <3>1, <3>2
    <3>4. QED
      BY <3>2, <3>3
  <2>8. QED
    BY <1>3, <2>5, <2>6, <2>7
<1>7. QED
  BY <1>4, <1>5, <1>6

\* How many ones n ends with.
Ones(n) == CHOOSE k \in Nat : Ends(n, k)

\* It is what ends n.
LEMMA OnesEnd ==
  ASSUME NEW n \in Nat
  PROVE  /\ Ones(n) \in Nat /\ Ends(n, Ones(n))
         /\ \A k \in Nat : Ends(n, k) => k = Ones(n)
         /\ Pow2[Ones(n)] <= n + 1 /\ Ones(n) <= n
<1>1. PICK k \in Nat : Ends(n, k) /\ \A l \in Nat : Ends(n, l) => l = k
  BY EndsOnce
<1>2. Ones(n) = k
  BY <1>1 DEF Ones
<1>3. Pow2[k] \in Nat /\ Pow2[k] >= 1 /\ k < Pow2[k]
  BY PowPositive, PowGreater
<1>4. PICK q \in Nat : n = q * (2 * Pow2[k]) + (Pow2[k] - 1)
  BY <1>1 DEF Ends
<1>5. q * (2 * Pow2[k]) \in Nat
  BY <1>3
<1>6. Pow2[k] <= n + 1 /\ k <= n
  BY <1>3, <1>4, <1>5
<1>7. QED
  BY <1>1, <1>2, <1>6

\* Higher bits do not count.
LEMMA OnesShift ==
  ASSUME NEW h \in Nat, NEW c \in Nat, NEW m \in Nat, m + 1 < Pow2[h]
  PROVE  Ones(c * Pow2[h] + m) = Ones(m)
<1> DEFINE k == Ones(m)
           p == Pow2[k]
<1>1. k \in Nat /\ Ends(m, k) /\ p <= m + 1
  BY OnesEnd
<1>2. p \in Nat /\ p >= 1 /\ Pow2[h] \in Nat
  BY <1>1, PowPositive
<1>3. k < h
  <2>1. SUFFICES ASSUME h <= k PROVE FALSE
    BY <1>1
  <2>2. Pow2[h] <= Pow2[k]
    BY <1>1, <2>1, PowGrows
  <2>3. QED
    BY <1>1, <1>2, <2>2
<1>4. PICK d \in Nat : Pow2[h] = d * (2 * p)
  BY <1>1, <1>3, PowDivides
<1>5. PICK q \in Nat : m = q * (2 * p) + (p - 1)
  BY <1>1 DEF Ends
<1>6. c * Pow2[h] + m = (c * d + q) * (2 * p) + (p - 1)
  <2> HIDE DEF p
  <2>1. c * (d * (2 * p)) = (c * d) * (2 * p)
    BY <1>2
  <2>2. (c * d + q) * (2 * p) = (c * d) * (2 * p) + q * (2 * p)
    BY <1>2
  <2>3. c * (d * (2 * p)) \in Nat /\ (c * d) * (2 * p) \in Nat /\ q * (2 * p) \in Nat
    BY <1>2
  <2>4. QED
    BY <1>2, <1>4, <1>5, <2>1, <2>2, <2>3
<1>7. c * d + q \in Nat /\ c * Pow2[h] + m \in Nat
  BY <1>2
<1>8. Ends(c * Pow2[h] + m, k)
  BY <1>6, <1>7 DEF Ends
<1>9. QED
  BY <1>1, <1>7, <1>8, OnesEnd


-----------------------------------------------------------------------------
(* How many elements there are *)

\* The trees the j-th of n leaves completes.
Tops(n) == {x \in (1..n) \X (0..n) : x[1] % Pow2[x[2]] = 0}

\* A multiple has no remainder, and a number that has none is a multiple.
LEMMA Multiple ==
  ASSUME NEW p \in Nat, p >= 1, NEW n \in Nat
  PROVE  n % p = 0 <=> \E q \in Nat : n = q * p
<1>1. ASSUME NEW q \in Nat, n = q * p PROVE n % p = 0
  <2>1. 0 \in 0..p - 1 /\ q * p + 0 = n
    BY <1>1
  <2>2. QED
    BY <2>1, Division
<1>2. ASSUME n % p = 0 PROVE \E q \in Nat : n = q * p
  <2>1. n \div p \in Nat /\ n = (n \div p) * p + 0
    BY <1>2, Divided
  <2>2. (n \div p) * p \in Nat
    BY <2>1
  <2>3. n = (n \div p) * p
    BY <2>1, <2>2
  <2>4. QED
    BY <2>1, <2>3
<1>3. QED
  BY <1>1, <1>2

\* The powers that divide n + 1 are those up to the ones n ends with.
LEMMA DivisorsOfNext ==
  ASSUME NEW n \in Nat, NEW h \in Nat
  PROVE  (n + 1) % Pow2[h] = 0 <=> h <= Ones(n)
<1> DEFINE k == Ones(n)
<1>1. k \in Nat /\ Ends(n, k)
  BY OnesEnd
<1> DEFINE p == Pow2[k]
           r == Pow2[h]
<1>2. p \in Nat /\ p >= 1 /\ r \in Nat /\ r >= 1
  BY <1>1, PowPositive
<1>3. PICK q \in Nat : n = q * (2 * p) + (p - 1)
  BY <1>1 DEF Ends
<1>4. n + 1 = (2 * q + 1) * p
  <2> HIDE DEF p
  <2>1. (2 * q + 1) * p = q * (2 * p) + p
    BY <1>2
  <2>2. q * (2 * p) \in Nat
    BY <1>2
  <2>3. QED
    BY <1>2, <1>3, <2>1, <2>2
<1>5. CASE h = k
  <2>1. 2 * q + 1 \in Nat /\ n + 1 \in Nat
    OBVIOUS
  <2>2. (n + 1) % p = 0
    <3> HIDE DEF p
    <3>1. QED
      BY <1>2, <1>4, <2>1, Multiple
  <2>3. QED
    BY <1>1, <1>5, <2>2
<1>6. CASE h < k
  <2>1. PICK c \in Nat : p = c * (2 * r)
    BY <1>1, <1>6, PowDivides
  <2> HIDE DEF p, r
  <2>2. n + 1 = ((2 * q + 1) * (c * 2)) * r
    <3>1. (2 * q + 1) * (c * (2 * r)) = ((2 * q + 1) * (c * 2)) * r
      BY <1>2
    <3>2. QED
      BY <1>4, <2>1, <3>1
  <2>3. (2 * q + 1) * (c * 2) \in Nat /\ n + 1 \in Nat
    OBVIOUS
  <2>4. (n + 1) % r = 0
    BY <1>2, <2>2, <2>3, Multiple
  <2>5. QED
    BY <1>1, <1>6, <2>4 DEF r
<1>7. CASE h > k
  <2>1. PICK c \in Nat : r = c * (2 * p)
    BY <1>1, <1>7, PowDivides
  <2> HIDE DEF p, r
  <2>2. ASSUME NEW a \in Nat, n + 1 = a * r PROVE FALSE
    <3>1. a * (c * (2 * p)) = (2 * (a * c)) * p
      BY <1>2
    <3>2. (2 * q + 1) * p = (2 * (a * c)) * p
      BY <1>4, <2>1, <2>2, <3>1
    <3>3. (2 * q + 1) * p - (2 * (a * c)) * p = (2 * q + 1 - 2 * (a * c)) * p
      BY <1>2
    <3>4. a * c \in Nat
      OBVIOUS
    <3> DEFINE d == 2 * q + 1 - 2 * (a * c)
    <3>5. d \in Int /\ d # 0
      BY <3>4
    <3>6. d * p = 0
      <4>1. (2 * q + 1) * p \in Nat
        BY <1>2
      <4>2. QED
        BY <3>2, <3>3, <4>1
    <3> HIDE DEF d
    <3>7. QED
      BY <1>2, <3>5, <3>6
  <2>3. (n + 1) % r # 0
    <3>1. n + 1 \in Nat
      OBVIOUS
    <3>2. QED
      BY <1>2, <2>2, <3>1, Multiple
  <2>4. QED
    BY <1>1, <1>7, <2>3 DEF r
<1>8. QED
  BY <1>1, <1>5, <1>6, <1>7

\* The next leaf brings itself and one element for each of these ones.
LEMMA SizeStep ==
  ASSUME NEW n \in Nat
  PROVE  /\ SizeOf(n) \in Nat
         /\ SizeOf(n + 1) = SizeOf(n) + (1 + Ones(n))
<1> DEFINE k == Ones(n)
           new == {n + 1} \X (0..k)
<1>1. k \in Nat /\ k <= n
  BY OnesEnd
<1>2. IsFiniteSet((1..n) \X (0..n))
  <2>1. IsFiniteSet(1..n) /\ IsFiniteSet(0..n)
    BY FS_Interval
  <2>2. QED
    BY <2>1, FS_Product
<1>3. IsFiniteSet(Tops(n))
  BY <1>2, FS_Subset DEF Tops
<1>4. IsFiniteSet(new) /\ Cardinality(new) = 1 + k
  <2>1. IsFiniteSet(0..k) /\ Cardinality(0..k) = k + 1
    BY <1>1, FS_Interval
  <2>2. IsFiniteSet({n + 1}) /\ Cardinality({n + 1}) = 1
    BY FS_Singleton
  <2> HIDE DEF k
  <2>3. IsFiniteSet(new) /\ Cardinality(new) = 1 * (k + 1)
    BY <2>1, <2>2, FS_Product, ZenonT(60)
  <2>4. QED
    BY <1>1, <2>3
<1>5. Tops(n + 1) = Tops(n) \cup new
  <2>1. ASSUME NEW j \in 1..n + 1, NEW h \in 0..n + 1
        PROVE  j % Pow2[h] = 0
                 <=> (j \in 1..n /\ h \in 0..n /\ j % Pow2[h] = 0) \/ (j = n + 1 /\ h \in 0..k)
    <3>1. CASE j = n + 1
      <4>1. j % Pow2[h] = 0 <=> h <= k
        BY <3>1, DivisorsOfNext
      <4>2. QED
        BY <1>1, <3>1, <4>1
    <3>2. CASE j # n + 1
      <4>1. j \in 1..n
        BY <3>2
      <4>2. h = n + 1 => j % Pow2[h] # 0
        <5>1. SUFFICES ASSUME h = n + 1 PROVE j % Pow2[h] # 0
          OBVIOUS
        <5>2. Pow2[h] \in Nat /\ h < Pow2[h]
          BY <5>1, PowPositive, PowGreater
        <5> DEFINE p == Pow2[h]
        <5> HIDE DEF p
        <5>3. p \in Nat /\ p >= 1 /\ j \in 0..p - 1 /\ 0 * p + j = j
          BY <4>1, <5>1, <5>2 DEF p
        <5>4. j % p = j
          BY <5>3, Division
        <5>5. QED
          BY <4>1, <5>4 DEF p
      <4>3. QED
        BY <3>2, <4>1, <4>2
    <3>3. QED
      BY <3>1, <3>2
  <2>2. ASSUME NEW x
        PROVE  x \in Tops(n + 1) <=> x \in Tops(n) \cup new
    <3>1. x \in Tops(n + 1) <=>
            \E j \in 1..n + 1, h \in 0..n + 1 : x = <<j, h>> /\ j % Pow2[h] = 0
      BY DEF Tops
    <3>2. x \in Tops(n) <=> \E j \in 1..n, h \in 0..n : x = <<j, h>> /\ j % Pow2[h] = 0
      BY DEF Tops
    <3>3. x \in new <=> \E h \in 0..k : x = <<n + 1, h>>
      OBVIOUS
    <3>4. n + 1 \in 1..n + 1 /\ 0..k \subseteq 0..n + 1 /\ 1..n \subseteq 1..n + 1
          /\ 0..n \subseteq 0..n + 1
      BY <1>1
    <3> HIDE DEF k, new
    <3>5. QED
      BY <2>1, <3>1, <3>2, <3>3, <3>4
  <2>3. QED
    BY <2>2
<1>6. Tops(n) \cap new = {}
  BY DEF Tops
<1>7. Cardinality(Tops(n + 1)) = Cardinality(Tops(n)) + (1 + k)
  <2>1. Cardinality(Tops(n)) \in Nat
    BY <1>3, FS_CardinalityType
  <2> HIDE DEF new, k
  <2>2. Cardinality(Tops(n) \cup new) =
          Cardinality(Tops(n)) + Cardinality(new) - Cardinality(Tops(n) \cap new)
    BY <1>3, <1>4, FS_Union
  <2>3. Cardinality(Tops(n) \cap new) = 0
    BY <1>6, FS_EmptySet
  <2>4. Cardinality(Tops(n + 1)) = Cardinality(Tops(n) \cup new)
    BY <1>5
  <2>5. Cardinality(new) = 1 + k /\ k \in Nat
    BY <1>1, <1>4
  <2>6. QED
    BY <2>1, <2>2, <2>3, <2>4, <2>5
<1>8. SizeOf(n) = Cardinality(Tops(n)) /\ SizeOf(n + 1) = Cardinality(Tops(n + 1))
  BY DEF SizeOf, Tops
<1>9. QED
  BY <1>3, <1>7, <1>8, FS_CardinalityType

\* Without leaves there is nothing.
LEMMA SizeZero == SizeOf(0) = 0
<1>1. {x \in (1..0) \X (0..0) : x[1] % Pow2[x[2]] = 0} = {}
  OBVIOUS
<1>2. QED
  BY <1>1, FS_EmptySet DEF SizeOf

\* More leaves, more elements, and at least as many as leaves.
LEMMA SizeGrows ==
  ASSUME NEW n \in Nat, NEW m \in Nat, m <= n
  PROVE  SizeOf(m) <= SizeOf(n) /\ n <= SizeOf(n)
<1> DEFINE C == {x \in Nat : ~(x <= SizeOf(x) /\ (m <= x => SizeOf(m) <= SizeOf(x)))}
<1>1. SUFFICES ASSUME C # {} PROVE FALSE
  OBVIOUS
<1>2. PICK x \in C : \A y \in C : x <= y
  <2>1. C \subseteq Nat
    OBVIOUS
  <2> HIDE DEF C
  <2>2. QED
    BY <1>1, <2>1, LeastNatural
<1>3. CASE x = 0
  BY <1>2, <1>3, SizeZero, SizeStep
<1>4. CASE x # 0
  <2>1. x - 1 \in Nat /\ ~(x <= x - 1) /\ (x - 1) + 1 = x
    BY <1>2, <1>4
  <2>2. x - 1 <= SizeOf(x - 1) /\ (m <= x - 1 => SizeOf(m) <= SizeOf(x - 1))
    BY <1>2, <2>1
  <2>3. /\ SizeOf(x - 1) \in Nat /\ SizeOf(x) \in Nat /\ SizeOf(m) \in Nat
        /\ SizeOf((x - 1) + 1) = SizeOf(x - 1) + (1 + Ones(x - 1))
        /\ Ones(x - 1) \in Nat
    BY <1>2, <2>1, SizeStep, OnesEnd
  <2>4. SizeOf(x) = SizeOf(x - 1) + (1 + Ones(x - 1))
    BY <2>1, <2>3
  <2>5. x \in Nat /\ ~(x <= SizeOf(x) /\ (m <= x => SizeOf(m) <= SizeOf(x)))
    BY <1>2
  <2>6. CASE m <= x - 1
    BY <2>2, <2>3, <2>4, <2>5, <2>6
  <2>7. CASE ~(m <= x - 1)
    <3>1. m <= x => m = x
      BY <2>5, <2>7
    <3>2. QED
      BY <2>2, <2>3, <2>4, <2>5, <3>1
  <2>8. QED
    BY <2>6, <2>7
<1>5. QED
  BY <1>3, <1>4

\* The size of a tree, by its leaves.
LEMMA TreeSizeIs ==
  ASSUME NEW h \in Nat
  PROVE  TreeSize(h) = 2 * Pow2[h] - 1 /\ TreeSize(h) \in Nat /\ TreeSize(h) >= 1
<1>1. Pow2[h + 1] = 2 * Pow2[h]
  BY Pow2Is
<1>2. Pow2[h] \in Nat /\ Pow2[h] >= 1
  BY PowPositive
<1>3. QED
  BY <1>1, <1>2 DEF TreeSize

\* A power less one is all ones.
LEMMA AllOnes ==
  ASSUME NEW h \in Nat
  PROVE  Pow2[h] - 1 \in Nat /\ Ones(Pow2[h] - 1) = h
<1>1. Pow2[h] \in Nat /\ Pow2[h] >= 1
  BY PowPositive
<1>2. Pow2[h] - 1 \in Nat /\ Pow2[h] - 1 = 0 * (2 * Pow2[h]) + (Pow2[h] - 1)
  BY <1>1
<1>3. Ends(Pow2[h] - 1, h)
  BY <1>2 DEF Ends
<1>4. QED
  BY <1>2, <1>3, OnesEnd

\* Leaves behind a tree with more leaves make a range of their own.
LEMMA SizeBehindTree ==
  ASSUME NEW h \in Nat, SizeOf(Pow2[h]) = TreeSize(h),
         NEW n \in Nat, n < Pow2[h]
  PROVE  SizeOf(Pow2[h] + n) = TreeSize(h) + SizeOf(n)
<1> DEFINE p == Pow2[h]
           C == {x \in Nat : x < p /\ SizeOf(p + x) # TreeSize(h) + SizeOf(x)}
<1>1. SUFFICES ASSUME C # {} PROVE FALSE
  OBVIOUS
<1>2. PICK x \in C : \A y \in C : x <= y
  <2>1. C \subseteq Nat
    OBVIOUS
  <2> HIDE DEF C
  <2>2. QED
    BY <1>1, <2>1, LeastNatural
<1>3. x \in Nat /\ x < p /\ SizeOf(p + x) # TreeSize(h) + SizeOf(x)
  BY <1>2
<1>4. p \in Nat /\ TreeSize(h) \in Nat
  BY PowPositive, TreeSizeIs
<1>5. x # 0
  <2>1. SUFFICES ASSUME x = 0 PROVE FALSE
    OBVIOUS
  <2>2. p + 0 = p /\ TreeSize(h) + 0 = TreeSize(h)
    BY <1>4
  <2>3. QED
    BY <1>3, <2>1, <2>2, SizeZero
<1> DEFINE y == x - 1
<1>6. y \in Nat /\ y + 1 = x /\ y < p /\ ~(x <= y) /\ p + y \in Nat /\ (p + y) + 1 = p + x
  BY <1>3, <1>4, <1>5
<1>7. SizeOf(p + y) = TreeSize(h) + SizeOf(y)
  BY <1>2, <1>6
<1>8. Ones(p + y) = Ones(y)
  <2>1. y + 1 < Pow2[h] /\ 1 * Pow2[h] + y = p + y
    BY <1>3, <1>4, <1>6
  <2>2. Ones(1 * Pow2[h] + y) = Ones(y)
    BY <1>6, <2>1, OnesShift
  <2>3. QED
    BY <2>1, <2>2
<1> HIDE DEF y, p
<1>9. /\ SizeOf(y + 1) = SizeOf(y) + (1 + Ones(y)) /\ SizeOf(y) \in Nat
      /\ SizeOf((p + y) + 1) = SizeOf(p + y) + (1 + Ones(p + y))
      /\ Ones(y) \in Nat
  BY <1>6, SizeStep, OnesEnd
<1>10. SizeOf(p + x) = TreeSize(h) + SizeOf(x)
  <2>1. SizeOf(x) = SizeOf(y) + (1 + Ones(y))
    BY <1>6, <1>9
  <2>2. SizeOf(p + x) = SizeOf(p + y) + (1 + Ones(y))
    BY <1>6, <1>8, <1>9
  <2>3. QED
    BY <1>4, <1>7, <1>9, <2>1, <2>2
<1>11. QED
  BY <1>3, <1>10

\* As many leaves as a tree has make one tree.
LEMMA SizeOfTree ==
  ASSUME NEW h \in Nat
  PROVE  SizeOf(Pow2[h]) = TreeSize(h)
<1> DEFINE C == {x \in Nat : SizeOf(Pow2[x]) # TreeSize(x)}
<1>1. SUFFICES ASSUME C # {} PROVE FALSE
  OBVIOUS
<1>2. PICK x \in C : \A y \in C : x <= y
  <2>1. C \subseteq Nat
    OBVIOUS
  <2> HIDE DEF C
  <2>2. QED
    BY <1>1, <2>1, LeastNatural
<1>3. x # 0
  <2>1. SUFFICES ASSUME x = 0 PROVE FALSE
    OBVIOUS
  <2>2. Pow2[0] = 1 /\ TreeSize(0) = 2 * Pow2[0] - 1
    BY Pow2Is, TreeSizeIs
  <2>3. Ends(0, 0) /\ 0 + 1 = 1
    BY <2>2 DEF Ends
  <2>4. Ones(0) = 0
    BY <2>3, OnesEnd
  <2>5. SizeOf(0 + 1) = SizeOf(0) + (1 + Ones(0))
    BY SizeStep
  <2>6. SizeOf(1) = 1
    BY <2>3, <2>4, <2>5, SizeZero
  <2>7. QED
    BY <1>2, <2>1, <2>2, <2>6
<1> DEFINE h0 == x - 1
           p == Pow2[h0]
           t == TreeSize(h0)
<1>4. h0 \in Nat /\ h0 + 1 = x /\ ~(x <= h0) /\ x \in Nat
  BY <1>2, <1>3
<1>5. SizeOf(p) = t
  BY <1>2, <1>4
<1>6. p \in Nat /\ p >= 1 /\ t = 2 * p - 1 /\ p - 1 \in Nat /\ Pow2[x] = 2 * p
  <2>1. p \in Nat /\ p >= 1
    BY <1>4, PowPositive
  <2>2. t = 2 * p - 1
    BY <1>4, TreeSizeIs
  <2>3. Pow2[h0 + 1] = 2 * p
    BY <1>4, Pow2Is
  <2>4. Pow2[x] = 2 * p
    BY <1>4, <2>3
  <2> HIDE DEF p, t
  <2>5. QED
    BY <2>1, <2>2, <2>4
<1>7. Ones(p - 1) = h0 /\ Ones(2 * p - 1) = h0 + 1
  <2>1. Ones(Pow2[h0] - 1) = h0 /\ Ones(Pow2[x] - 1) = x
    BY <1>4, AllOnes
  <2>2. QED
    BY <1>4, <1>6, <2>1
<1>8. SizeOf(p + (p - 1)) = t + SizeOf(p - 1)
  <2>1. p - 1 < Pow2[h0]
    BY <1>6
  <2>2. QED
    BY <1>4, <1>5, <1>6, <2>1, SizeBehindTree
<1> HIDE DEF h0, p, t
<1>9. /\ SizeOf((p - 1) + 1) = SizeOf(p - 1) + (1 + Ones(p - 1)) /\ SizeOf(p - 1) \in Nat
      /\ SizeOf((2 * p - 1) + 1) = SizeOf(2 * p - 1) + (1 + Ones(2 * p - 1))
  <2>1. p - 1 \in Nat /\ 2 * p - 1 \in Nat
    BY <1>6
  <2>2. QED
    BY <2>1, SizeStep
<1>10. (p - 1) + 1 = p /\ (2 * p - 1) + 1 = 2 * p /\ p + (p - 1) = 2 * p - 1
  BY <1>6
<1>11. SizeOf(2 * p) = (t + SizeOf(p - 1)) + (1 + (h0 + 1))
  BY <1>7, <1>8, <1>9, <1>10
<1>12. t = SizeOf(p - 1) + (1 + h0)
  BY <1>5, <1>7, <1>9, <1>10
<1>13. SizeOf(2 * p) = 2 * t + 1
  BY <1>4, <1>6, <1>9, <1>11, <1>12
<1>14. TreeSize(x) = 2 * Pow2[x] - 1
  BY <1>4, TreeSizeIs
<1>15. SizeOf(Pow2[x]) = TreeSize(x)
  BY <1>6, <1>13, <1>14
<1>16. QED
  BY <1>2, <1>15

\* What the top bit of n stands for in the size.
LEMMA SizeSplit ==
  ASSUME NEW h \in Nat, NEW n \in Nat, n < 2 * Pow2[h]
  PROVE  /\ n >= Pow2[h] => /\ n - Pow2[h] \in Nat /\ n - Pow2[h] < Pow2[h]
                            /\ SizeOf(n) = TreeSize(h) + SizeOf(n - Pow2[h])
         /\ n < Pow2[h] => SizeOf(n) + Ones(n) < TreeSize(h)
<1> DEFINE p == Pow2[h]
<1>1. p \in Nat /\ p >= 1 /\ TreeSize(h) \in Nat /\ SizeOf(p) = TreeSize(h)
  BY PowPositive, TreeSizeIs, SizeOfTree
<1>2. CASE n >= p
  <2> DEFINE m == n - p
  <2>1. m \in Nat /\ m < p /\ p + m = n
    BY <1>1, <1>2
  <2>2. SizeOf(p + m) = TreeSize(h) + SizeOf(m)
    <3> HIDE DEF m
    <3>1. QED
      BY <1>1, <2>1, SizeBehindTree
  <2>3. QED
    BY <1>1, <1>2, <2>1, <2>2
<1>3. CASE n < p
  <2>1. n + 1 \in Nat /\ n + 1 <= p
    BY <1>1, <1>3
  <2>2. SizeOf(n + 1) <= SizeOf(p)
    <3> HIDE DEF p
    <3>1. QED
      BY <1>1, <2>1, SizeGrows
  <2>3. /\ SizeOf(n + 1) = SizeOf(n) + (1 + Ones(n)) /\ SizeOf(n) \in Nat
        /\ Ones(n) \in Nat
    BY SizeStep, OnesEnd
  <2>4. QED
    BY <1>1, <1>3, <2>2, <2>3
<1>4. QED
  BY <1>1, <1>2, <1>3


-----------------------------------------------------------------------------
(* The bitmap of a size *)

\* How many bits a number has.
Bits(n) == CHOOSE b \in 0..n : n < Pow2[b] /\ (b = 0 \/ Pow2[b - 1] <= n)

\* It has some.
LEMMA BitsIs ==
  ASSUME NEW n \in Nat
  PROVE  /\ Bits(n) \in Nat /\ n < Pow2[Bits(n)]
         /\ n # 0 => Bits(n) # 0
         /\ Heights(n) = [i \in 1..Bits(n) |-> Bits(n) - i]
<1> DEFINE C == {b \in Nat : n < Pow2[b]}
<1>1. n \in C /\ C \subseteq Nat
  BY PowGreater
<1>2. PICK b \in C : \A c \in C : b <= c
  <2> HIDE DEF C
  <2>1. QED
    BY <1>1, LeastNatural
<1>3. b \in Nat /\ n < Pow2[b] /\ b <= n
  BY <1>1, <1>2
<1>4. b = 0 \/ Pow2[b - 1] <= n
  <2>1. SUFFICES ASSUME b # 0 PROVE Pow2[b - 1] <= n
    OBVIOUS
  <2>2. b - 1 \in Nat /\ ~(b <= b - 1)
    BY <1>3, <2>1
  <2>3. ~(n < Pow2[b - 1])
    BY <1>2, <2>2
  <2>4. Pow2[b - 1] \in Nat
    BY <2>2, PowPositive
  <2>5. QED
    BY <2>3, <2>4
<1>5. Bits(n) \in 0..n /\ n < Pow2[Bits(n)]
  <2>1. b \in 0..n
    BY <1>3
  <2>2. QED
    BY <1>3, <1>4, <2>1 DEF Bits
<1>6. n # 0 => Bits(n) # 0
  BY <1>5, Pow2Is
<1>7. Heights(n) = [i \in 1..Bits(n) |-> Bits(n) - i]
  BY DEF Heights, Bits
<1>8. QED
  BY <1>5, <1>6, <1>7

\* What the loop of HeightBitmapForMMRSize keeps.
BitState == [peaks : Nat, rest : Nat]

\* One iteration of it.
BitStep(s, h) ==
  IF s.rest >= TreeSize(h)
  THEN [peaks |-> 2 * s.peaks + 1, rest |-> s.rest - TreeSize(h)]
  ELSE [s EXCEPT !.peaks = 2 * @]

\* An iteration keeps the types.
LEMMA BitStepType ==
  ASSUME NEW s \in BitState, NEW h \in Nat
  PROVE  BitStep(s, h) \in BitState
<1>1. TreeSize(h) \in Nat
  BY TreeSizeIs
<1>2. QED
  BY <1>1 DEF BitState, BitStep

\* The loop, iteration by iteration.
LEMMA BitmapSteps ==
  ASSUME NEW size \in Nat
  PROVE  \E g : /\ g[0] = [peaks |-> 0, rest |-> size]
                /\ \A k \in 1..Bits(size) :
                     /\ g[k - 1] \in BitState
                     /\ g[k] = BitStep(g[k - 1], Bits(size) - k)
                /\ HeightBitmapForMMRSize(size) = g[Bits(size)]
<1> DEFINE b == Bits(size)
           hs == Heights(size)
           base == [peaks |-> 0, rest |-> size]
           step == [x \in BitState \X (1..b) |-> BitStep(x[1], hs[x[2]])]
<1>1. b \in Nat /\ hs = [i \in 1..b |-> b - i]
  BY BitsIs
<1>2. DOMAIN hs = 1..b /\ \A k \in 1..b : hs[k] = b - k /\ hs[k] \in Nat
  BY <1>1
<1>3. base \in BitState
  BY DEF BitState
<1> HIDE DEF b, hs, base
<1>4. \A x \in BitState, k \in 1..b : step[<<x, k>>] = BitStep(x, hs[k])
  OBVIOUS
<1>5. \A x \in BitState, k \in 1..b : step[<<x, k>>] \in BitState
  BY <1>2, <1>4, BitStepType
<1> HIDE DEF step
<1>6. PICK it \in [SUBSET (1..b) -> BitState] : Folds(base, step, 1..b, it)
  BY <1>1, <1>3, <1>5, FoldsExist
<1> DEFINE Is(f) == f = [s \in SUBSET DOMAIN hs |->
                           IF s = {} THEN base
                           ELSE BitStep(f[s \ {Max(s)}], hs[Max(s)])]
           F == CHOOSE f : Is(f)
<1>7. Is(it)
  <2>1. \A s \in SUBSET (1..b) :
          s # {} => /\ Max(s) \in 1..b /\ it[s \ {Max(s)}] \in BitState
    <3>1. SUFFICES ASSUME NEW s \in SUBSET (1..b), s # {}
                   PROVE  Max(s) \in 1..b /\ it[s \ {Max(s)}] \in BitState
      OBVIOUS
    <3>2. Max(s) \in s
      BY <1>1, <3>1, LargestIndex
    <3>3. QED
      BY <1>6, <3>2
  <2>2. QED
    BY <1>2, <1>4, <1>6, <2>1, ZenonT(60) DEF Folds
<1>8. Is(F)
  BY <1>7
<1>9. HeightBitmapForMMRSize(size) = F[DOMAIN hs]
  BY DEF HeightBitmapForMMRSize, FoldLeft, MapThenFoldSet, BitStep, hs, base
<1> HIDE DEF F
<1>10. F[1..0] = base /\ \A k \in 1..b : F[1..k] = BitStep(F[1..(k - 1)], b - k)
  <2>1. F[1..0] = base
    <3>1. 1..0 = {} /\ {} \in SUBSET DOMAIN hs
      OBVIOUS
    <3>2. QED
      BY <1>8, <3>1
  <2>2. ASSUME NEW k \in 1..b PROVE F[1..k] = BitStep(F[1..(k - 1)], b - k)
    <3>1. /\ 1..k \in SUBSET (1..b) /\ 1..k # {}
          /\ Max(1..k) = k /\ (1..k) \ {k} = 1..(k - 1)
      BY <1>1, LastIndex
    <3>2. F[1..k] = BitStep(F[(1..k) \ {Max(1..k)}], hs[Max(1..k)])
      BY <1>2, <1>8, <3>1
    <3>3. QED
      BY <1>2, <3>1, <3>2
  <2>3. QED
    BY <2>1, <2>2
<1>11. \A k \in 0..b : F[1..k] \in BitState
  <2> DEFINE C == {k \in Nat : k <= b /\ F[1..k] \notin BitState}
  <2>1. SUFFICES ASSUME C # {} PROVE FALSE
    BY <1>1
  <2>2. PICK k \in C : \A l \in C : k <= l
    <3>1. C \subseteq Nat
      OBVIOUS
    <3> HIDE DEF C
    <3>2. QED
      BY <2>1, <3>1, LeastNatural
  <2>3. k # 0
    BY <1>3, <1>10, <2>2
  <2>4. k \in 1..b /\ k - 1 \in Nat /\ k - 1 <= b /\ ~(k <= k - 1) /\ b - k \in Nat
    BY <1>1, <2>2, <2>3
  <2>5. F[1..(k - 1)] \in BitState
    BY <2>2, <2>4
  <2>6. F[1..k] \in BitState
    BY <1>10, <2>4, <2>5, BitStepType
  <2>7. QED
    BY <2>2, <2>6
<1> DEFINE g == [k \in 0..b |-> F[1..k]]
<1>12. \A k \in 0..b : g[k] = F[1..k]
  OBVIOUS
<1>13. \A k \in 1..b : k - 1 \in 0..b /\ k \in 0..b
  BY <1>1
<1>14. 0 \in 0..b /\ b \in 0..b
  BY <1>1
<1> HIDE DEF g
<1>15. g[0] = base /\ HeightBitmapForMMRSize(size) = g[b]
  BY <1>2, <1>9, <1>10, <1>12, <1>14
<1>16. \A k \in 1..b : g[k - 1] \in BitState /\ g[k] = BitStep(g[k - 1], b - k)
  BY <1>10, <1>11, <1>12, <1>13
<1>17. QED
  BY <1>15, <1>16 DEF b, base

\* n leaves seen from height h: q trees' worth of them above, m of them below.
Seen(n, d, h, s) ==
  \E q \in Nat, m \in Nat :
    /\ n = q * Pow2[h] + m /\ m < Pow2[h]
    /\ s = [peaks |-> q, rest |-> SizeOf(m) + d]

\* An iteration goes down one height.
LEMMA BitStepSees ==
  ASSUME NEW n \in Nat, NEW d \in 0..Ones(n), NEW h \in Nat,
         NEW s, Seen(n, d, h + 1, s)
  PROVE  Seen(n, d, h, BitStep(s, h))
<1> DEFINE p == Pow2[h]
           t == TreeSize(h)
<1>1. p \in Nat /\ p >= 1 /\ t \in Nat /\ Pow2[h + 1] = 2 * p
  BY PowPositive, TreeSizeIs, Pow2Is
<1>2. PICK q \in Nat, m \in Nat : /\ n = q * (2 * p) + m /\ m < 2 * p
                                  /\ s = [peaks |-> q, rest |-> SizeOf(m) + d]
  BY <1>1 DEF Seen
<1>3. SizeOf(m) \in Nat /\ Ones(m) \in Nat /\ Ones(n) \in Nat /\ d \in Nat
  <2>1. SizeOf(m) \in Nat
    BY SizeStep
  <2>2. Ones(m) \in Nat /\ Ones(n) \in Nat
    BY OnesEnd
  <2>3. QED
    BY <2>1, <2>2
<1>4. CASE m >= p
  <2> DEFINE m2 == m - p
             q2 == 2 * q + 1
  <2>1. m2 \in Nat /\ m2 < p /\ SizeOf(m) = t + SizeOf(m2)
    BY <1>2, <1>4, SizeSplit
  <2>2. SizeOf(m2) \in Nat
    BY <2>1, SizeStep
  <2> HIDE DEF p, t
  <2>3. n = q2 * p + m2
    <3>1. q * (2 * p) = (2 * q) * p /\ (2 * q + 1) * p = (2 * q) * p + p
      BY <1>1
    <3>2. (2 * q) * p \in Nat
      BY <1>1
    <3>3. QED
      BY <1>1, <1>2, <3>1, <3>2
  <2> HIDE DEF m2
  <2>4. s.rest >= t /\ s.rest - t = SizeOf(m2) + d /\ 2 * s.peaks + 1 = q2
    BY <1>1, <1>2, <1>3, <2>1, <2>2
  <2>5. BitStep(s, h) = [peaks |-> q2, rest |-> SizeOf(m2) + d]
    BY <2>4 DEF BitStep, t
  <2>6. QED
    BY <2>1, <2>3, <2>5 DEF Seen, p
<1>5. CASE m < p
  <2>1. SizeOf(m) + Ones(m) < t
    BY <1>2, <1>5, SizeSplit
  <2>2. Ones(n) = Ones(m)
    <3>1. m + 1 < Pow2[h + 1]
      BY <1>1, <1>5
    <3>2. Ones(q * Pow2[h + 1] + m) = Ones(m)
      BY <3>1, OnesShift
    <3>3. QED
      BY <1>1, <1>2, <3>2
  <2> HIDE DEF p, t
  <2>3. ~(s.rest >= t) /\ 2 * s.peaks = 2 * q
    BY <1>1, <1>2, <1>3, <2>1, <2>2
  <2>4. BitStep(s, h) = [peaks |-> 2 * q, rest |-> SizeOf(m) + d]
    BY <1>2, <2>3 DEF BitStep, t
  <2>5. n = (2 * q) * p + m
    BY <1>1, <1>2
  <2>6. QED
    BY <1>5, <2>4, <2>5 DEF Seen, p
<1>6. QED
  BY <1>1, <1>2, <1>4, <1>5

\* The bitmap of the size of n leaves is n; up to as many elements more as n
\* ends with ones, these are what is left.
LEMMA BitmapIs ==
  ASSUME NEW n \in Nat, NEW d \in 0..Ones(n)
  PROVE  HeightBitmapForMMRSize(SizeOf(n) + d) = [peaks |-> n, rest |-> d]
<1> DEFINE size == SizeOf(n) + d
           b == Bits(size)
<1>1. SizeOf(n) \in Nat /\ n <= SizeOf(n) /\ Ones(n) \in Nat
  BY SizeStep, SizeGrows, OnesEnd
<1>2. size \in Nat /\ n <= size
  BY <1>1
<1>3. b \in Nat /\ size < Pow2[b] /\ Pow2[b] \in Nat
  BY <1>2, BitsIs, PowPositive
<1>4. PICK g : /\ g[0] = [peaks |-> 0, rest |-> size]
               /\ \A k \in 1..b : g[k] = BitStep(g[k - 1], b - k)
               /\ HeightBitmapForMMRSize(size) = g[b]
  <2> HIDE DEF size
  <2>1. QED
    BY <1>2, BitmapSteps
<1>5. \A k \in 0..b : Seen(n, d, b - k, g[k])
  <2> DEFINE C == {k \in Nat : k <= b /\ ~Seen(n, d, b - k, g[k])}
  <2>1. SUFFICES ASSUME C # {} PROVE FALSE
    BY <1>3
  <2>2. PICK k \in C : \A l \in C : k <= l
    <3>1. C \subseteq Nat
      OBVIOUS
    <3> HIDE DEF C
    <3>2. QED
      BY <2>1, <3>1, LeastNatural
  <2>3. k # 0
    <3>1. n = 0 * Pow2[b] + n /\ n < Pow2[b] /\ 0 \in Nat /\ b - 0 = b
      BY <1>2, <1>3
    <3>2. Seen(n, d, b, g[0])
      BY <1>4, <3>1 DEF Seen
    <3>3. QED
      BY <2>2, <3>1, <3>2
  <2> DEFINE h == b - k
  <2>4. k \in 1..b /\ k - 1 \in Nat /\ k - 1 <= b /\ ~(k <= k - 1)
        /\ h \in Nat /\ b - (k - 1) = h + 1
    BY <1>3, <2>2, <2>3
  <2>5. Seen(n, d, b - (k - 1), g[k - 1])
    BY <2>2, <2>4
  <2>6. g[k] = BitStep(g[k - 1], h)
    BY <1>4, <2>4
  <2>7. Seen(n, d, h + 1, g[k - 1])
    BY <2>4, <2>5
  <2> HIDE DEF h
  <2>8. Seen(n, d, h, g[k])
    BY <2>4, <2>6, <2>7, BitStepSees
  <2>9. QED
    BY <2>2, <2>8 DEF h
<1>6. Seen(n, d, 0, g[b])
  <2>1. b \in 0..b /\ b - b = 0
    BY <1>3
  <2>2. QED
    BY <1>5, <2>1
<1>7. PICK q \in Nat, m \in Nat :
        /\ n = q * 1 + m /\ m < 1
        /\ g[b] = [peaks |-> q, rest |-> SizeOf(m) + d]
  BY <1>6, Pow2Is DEF Seen
<1>8. m = 0 /\ q = n /\ 0 + d = d
  BY <1>7
<1>9. QED
  BY <1>4, <1>7, <1>8, SizeZero


-----------------------------------------------------------------------------
(* AddLeaf *)

\* The peak that the i-th hash after the leaf takes in on its left.
LeftPeak(es, i) == es[Len(es) + (i - 1) - TreeSize(i - 1) + 1]

\* g gives the leaf's hash and the hashes with the first n peaks.
Joins(es, leaf, n, g) ==
  g = [i \in 0..n |-> IF i = 0 THEN <<leaf>> ELSE <<LeftPeak(es, i), g[i - 1]>>]

\* There is such a function.
LEMMA JoinsExist ==
  ASSUME NEW es, NEW leaf, NEW n \in Nat
  PROVE  \E g : Joins(es, leaf, n, g)
<1> DEFINE C == {m \in Nat : ~\E g : Joins(es, leaf, m, g)}
<1>1. SUFFICES ASSUME C # {} PROVE FALSE
  OBVIOUS
<1>2. PICK m \in C : \A k \in C : m <= k
  <2>1. C \subseteq Nat
    OBVIOUS
  <2> HIDE DEF C
  <2>2. QED
    BY <1>1, <2>1, LeastNatural
<1>3. CASE m = 0
  <2> DEFINE g == [i \in 0..0 |-> <<leaf>>]
  <2>1. Joins(es, leaf, 0, g)
    BY DEF Joins
  <2>2. QED
    BY <1>2, <1>3, <2>1
<1>4. CASE m # 0
  <2>1. m \in Nat /\ m - 1 \in Nat /\ ~(m <= m - 1)
    BY <1>2, <1>4
  <2>2. PICK g : Joins(es, leaf, m - 1, g)
    BY <1>2, <2>1
  <2> DEFINE h == [i \in 0..m |-> IF i = m THEN <<LeftPeak(es, m), g[m - 1]>> ELSE g[i]]
  <2>3. \A i \in 0..m : h[i] = IF i = m THEN <<LeftPeak(es, m), g[m - 1]>> ELSE g[i]
    OBVIOUS
  <2>4. h = [i \in 0..m |-> h[i]]
    OBVIOUS
  <2> HIDE DEF h
  <2>5. ASSUME NEW i \in 0..m
        PROVE  h[i] = IF i = 0 THEN <<leaf>> ELSE <<LeftPeak(es, i), h[i - 1]>>
    <3>1. CASE i = m
      <4>1. m - 1 \in 0..m /\ m - 1 # m
        BY <2>1
      <4>2. h[m - 1] = g[m - 1]
        BY <2>3, <4>1
      <4>3. QED
        BY <1>4, <2>3, <3>1, <4>2
    <3>2. CASE i # m
      <4>1. i \in 0..m - 1 /\ (i # 0 => i - 1 \in 0..m /\ i - 1 # m)
        BY <2>1, <3>2
      <4>2. g[i] = IF i = 0 THEN <<leaf>> ELSE <<LeftPeak(es, i), g[i - 1]>>
        BY <2>2, <4>1 DEF Joins
      <4>3. i # 0 => h[i - 1] = g[i - 1]
        BY <2>3, <4>1
      <4>4. QED
        BY <2>3, <3>2, <4>2, <4>3
    <3>3. QED
      BY <3>1, <3>2
  <2>6. Joins(es, leaf, m, h)
    BY <2>4, <2>5 DEF Joins
  <2>7. QED
    BY <1>2, <2>6
<1>5. QED
  BY <1>3, <1>4

\* What AddLeaf does to a range over n leaves: the leaf's hash follows, and one
\* hash for each of the ones that n ends with, each of a peak and the hash before.
Joining(es, leaf, n) ==
  LET j == Joined(es, leaf)
      l == Len(es)
  IN  /\ Len(j) = l + (1 + Ones(n))
      /\ \A i \in 1..l : j[i] = es[i]
      /\ j[l + 1] = <<leaf>>
      /\ \A i \in 1..Ones(n) : j[l + (i + 1)] = <<LeftPeak(es, i), j[l + i]>>

\* It does so.
LEMMA JoinedIs ==
  ASSUME NEW S, NEW es \in Seq(S), NEW leaf,
         NEW n \in Nat, Len(es) = SizeOf(n)
  PROVE  Joining(es, leaf, n) /\ \E T : Joined(es, leaf) \in Seq(T)
<1> DEFINE k == Ones(n)
           l == Len(es)
           Test(x) == n % Pow2[x] = Pow2[x] - 1 /\ (n \div Pow2[x]) % 2 = 0
           G == CHOOSE g : Joins(es, leaf, k, g)
           ext == [i \in 1..k + 1 |-> G[i - 1]]
<1>1. k \in Nat /\ Ends(n, k) /\ (\A x \in Nat : Ends(n, x) => x = k) /\ k <= n
  BY OnesEnd
<1>2. l \in Nat /\ n <= l
  BY SizeGrows, SizeStep
<1>3. HeightBitmapForMMRSize(l).peaks = n
  <2>1. 0 \in 0..Ones(n) /\ SizeOf(n) + 0 = SizeOf(n)
    BY <1>1, SizeStep
  <2>2. HeightBitmapForMMRSize(SizeOf(n) + 0) = [peaks |-> n, rest |-> 0]
    BY <2>1, BitmapIs
  <2>3. QED
    BY <2>1, <2>2
<1>4. (CHOOSE x \in 0..l : Test(x)) = k
  <2>1. k \in 0..l /\ 0..l \subseteq Nat
    BY <1>1, <1>2
  <2>2. \A x \in Nat : Test(x) <=> Ends(n, x)
    BY EndsTest
  <2> HIDE DEF Test, k, l
  <2>3. \A x \in 0..l : Test(x) <=> x = k
    BY <1>1, <2>1, <2>2
  <2>4. QED
    BY <2>1, <2>3
<1>5. Joins(es, leaf, k, G)
  BY <1>1, JoinsExist
<1>6. Joined(es, leaf) = es \o ext
  <2> DEFINE pk == HeightBitmapForMMRSize(Len(es)).peaks
             c == CHOOSE x \in 0..Len(es) :
                    pk % Pow2[x] = Pow2[x] - 1 /\ (pk \div Pow2[x]) % 2 = 0
             H(m) == CHOOSE g : Joins(es, leaf, m, g)
             J(m) == es \o [i \in 1..m + 1 |-> H(m)[i - 1]]
  <2>1. Joined(es, leaf) = J(c)
    BY DEF Joined, Joins, LeftPeak
  <2>2. pk = n
    BY <1>3
  <2> HIDE DEF pk
  <2>3. c = k
    BY <1>4, <2>2
  <2> HIDE DEF c, k, H
  <2>4. Joined(es, leaf) = es \o [i \in 1..k + 1 |-> H(k)[i - 1]]
    BY <2>1, <2>3
  <2>5. QED
    BY <2>4 DEF H, G
<1> HIDE DEF G, k
<1>7. /\ G[0] = <<leaf>>
      /\ \A i \in 1..k : G[i] = <<LeftPeak(es, i), G[i - 1]>>
  BY <1>1, <1>5, SMTT(30) DEF Joins
<1> DEFINE T == {G[i] : i \in 0..k}
<1>8. ext \in Seq(T) /\ Len(ext) = k + 1 /\ \A i \in 1..k + 1 : ext[i] = G[i - 1]
  <2>1. \A i \in 1..k + 1 : i - 1 \in 0..k
    BY <1>1
  <2>2. ext \in [1..k + 1 -> T] /\ k + 1 \in Nat
    BY <1>1, <2>1
  <2>3. \A i \in 1..k + 1 : ext[i] = G[i - 1]
    OBVIOUS
  <2> HIDE DEF ext, T
  <2>4. ext \in Seq(T) /\ Len(ext) = k + 1
    BY <2>2
  <2>5. QED
    BY <2>3, <2>4
<1> HIDE DEF ext, T
<1>9. es \in Seq(S \cup T) /\ ext \in Seq(S \cup T)
  BY <1>8
<1> DEFINE j == es \o ext
<1>10. /\ j \in Seq(S \cup T) /\ Len(j) = l + (k + 1)
       /\ \A i \in 1..l + (k + 1) : j[i] = IF i <= l THEN es[i] ELSE ext[i - l]
  <2>1. /\ es \o ext \in Seq(S \cup T) /\ Len(es \o ext) = Len(es) + Len(ext)
        /\ \A i \in 1..Len(es) + Len(ext) :
             (es \o ext)[i] = IF i <= Len(es) THEN es[i] ELSE ext[i - Len(es)]
    <3> DEFINE U == S \cup T
    <3> HIDE DEF U
    <3>1. es \in Seq(U) /\ ext \in Seq(U)
      BY <1>9 DEF U
    <3>2. QED
      BY <3>1, ConcatProperties DEF U
  <2>2. Len(ext) = k + 1
    BY <1>8
  <2>3. QED
    BY <2>1, <2>2
<1> HIDE DEF j, l
<1>11. ASSUME NEW i \in 1..k + 1 PROVE j[l + i] = G[i - 1]
  <2>1. l + i \in 1..l + (k + 1) /\ ~(l + i <= l) /\ (l + i) - l = i
    BY <1>1, <1>2
  <2>2. QED
    BY <1>8, <1>10, <2>1
<1>12. j[l + 1] = <<leaf>>
  <2>1. 1 \in 1..k + 1 /\ 1 - 1 = 0
    BY <1>1
  <2>2. QED
    BY <1>7, <1>11, <2>1
<1>13. ASSUME NEW i \in 1..k PROVE j[l + (i + 1)] = <<LeftPeak(es, i), j[l + i]>>
  <2>1. i + 1 \in 1..k + 1 /\ i \in 1..k + 1 /\ (i + 1) - 1 = i
    BY <1>1
  <2>2. QED
    BY <1>7, <1>11, <2>1
<1>14. \A i \in 1..l : j[i] = es[i]
  BY <1>1, <1>2, <1>10
<1>15. Len(j) = l + (1 + k)
  BY <1>1, <1>2, <1>10
<1>16. QED
  BY <1>6, <1>10, <1>12, <1>13, <1>14, <1>15 DEF Joining, j, k, l


-----------------------------------------------------------------------------
(* The circuit *)

\* The circuit's comparison with a peak.
Compared(hash, p) == IF p = hash THEN 0 ELSE 1

\* The circuit's loop over the peaks.
Product(hash, c, ps) == FoldLeft(LAMBDA m, p : m * Compared(hash, p), c, ps)

\* g gives what it comes to after each of the n iterations.
Products(hash, c, ps, n, g) ==
  /\ g[0] = c
  /\ \A k \in 1..n : /\ g[k - 1] \in {0, 1}
                     /\ g[k] = g[k - 1] * Compared(hash, ps[k])
  /\ g[n] \in {0, 1}
  /\ Product(hash, c, ps) = g[n]

\* There is such a function.
LEMMA ProductSteps ==
  ASSUME NEW hash, NEW c \in {0, 1}, NEW ps, NEW n \in Nat, DOMAIN ps = 1..n
  PROVE  \E g : Products(hash, c, ps, n, g)
<1> DEFINE step == [x \in {0, 1} \X (1..n) |-> x[1] * Compared(hash, ps[x[2]])]
<1>1. \A m \in {0, 1}, k \in 1..n : step[<<m, k>>] = m * Compared(hash, ps[k])
  OBVIOUS
<1>2. \A m \in {0, 1} : \A p : m * Compared(hash, p) \in {0, 1}
  BY DEF Compared
<1>3. \A m \in {0, 1}, k \in 1..n : step[<<m, k>>] \in {0, 1}
  BY <1>1, <1>2
<1> HIDE DEF step
<1>4. PICK it \in [SUBSET (1..n) -> {0, 1}] : Folds(c, step, 1..n, it)
  <2> DEFINE St == {0, 1}
  <2>1. c \in St /\ \A m \in St, k \in 1..n : step[<<m, k>>] \in St
    BY <1>3
  <2> HIDE DEF St
  <2>2. \E it \in [SUBSET (1..n) -> St] : Folds(c, step, 1..n, it)
    BY <2>1, FoldsExist
  <2>3. QED
    BY <2>2 DEF St
<1> DEFINE Is(f) == f = [s \in SUBSET DOMAIN ps |->
                           IF s = {} THEN c
                           ELSE f[s \ {Max(s)}] * Compared(hash, ps[Max(s)])]
           F == CHOOSE f : Is(f)
<1>5. Is(it)
  <2>1. \A s \in SUBSET (1..n) :
          s # {} => /\ Max(s) \in 1..n /\ it[s \ {Max(s)}] \in {0, 1}
    <3>1. SUFFICES ASSUME NEW s \in SUBSET (1..n), s # {}
                   PROVE  Max(s) \in 1..n /\ it[s \ {Max(s)}] \in {0, 1}
      OBVIOUS
    <3>2. Max(s) \in s
      BY <3>1, LargestIndex
    <3>3. QED
      BY <1>4, <3>2
  <2>2. QED
    BY <1>1, <1>4, <2>1, ZenonT(60) DEF Folds
<1>6. Is(F)
  BY <1>5
<1>7. Product(hash, c, ps) = F[DOMAIN ps]
  BY DEF Product, FoldLeft, MapThenFoldSet
<1> HIDE DEF F
<1>8. F[1..0] = c
  <2>1. 1..0 = {} /\ {} \in SUBSET DOMAIN ps
    OBVIOUS
  <2>2. QED
    BY <1>6, <2>1
<1>9. ASSUME NEW k \in 1..n PROVE F[1..k] = F[1..(k - 1)] * Compared(hash, ps[k])
  <2>1. /\ 1..k \in SUBSET (1..n) /\ 1..k # {}
        /\ Max(1..k) = k /\ (1..k) \ {k} = 1..(k - 1)
    BY LastIndex
  <2>2. F[1..k] = F[(1..k) \ {Max(1..k)}] * Compared(hash, ps[Max(1..k)])
    BY <1>6, <2>1
  <2>3. QED
    BY <2>1, <2>2
<1>10. \A k \in 0..n : F[1..k] \in {0, 1}
  <2> DEFINE C == {k \in Nat : k <= n /\ F[1..k] \notin {0, 1}}
  <2>1. SUFFICES ASSUME C # {} PROVE FALSE
    OBVIOUS
  <2>2. PICK k \in C : \A l \in C : k <= l
    <3>1. C \subseteq Nat
      OBVIOUS
    <3> HIDE DEF C
    <3>2. QED
      BY <2>1, <3>1, LeastNatural
  <2>3. k # 0
    BY <1>8, <2>2
  <2>4. k \in 1..n /\ k - 1 \in Nat /\ k - 1 <= n /\ ~(k <= k - 1)
    BY <2>2, <2>3
  <2>5. F[1..(k - 1)] \in {0, 1}
    BY <2>2, <2>4
  <2>6. F[1..k] \in {0, 1}
    BY <1>2, <1>9, <2>4, <2>5
  <2>7. QED
    BY <2>2, <2>6
<1> DEFINE g == [k \in 0..n |-> F[1..k]]
<1>11. \A k \in 1..n : k \in 0..n /\ k - 1 \in 0..n
  OBVIOUS
<1>12. \A k \in 0..n : g[k] = F[1..k] /\ g[k] \in {0, 1}
  BY <1>10
<1> HIDE DEF g
<1>13. 0 \in 0..n /\ n \in 0..n
  OBVIOUS
<1>14. g[0] = c /\ g[n] = F[DOMAIN ps]
  BY <1>8, <1>12, <1>13
<1>15. \A k \in 1..n : /\ g[k - 1] \in {0, 1}
                       /\ g[k] = g[k - 1] * Compared(hash, ps[k])
  BY <1>9, <1>11, <1>12
<1>16. QED
  BY <1>7, <1>12, <1>13, <1>14, <1>15 DEF Products

\* The product is 0 exactly if some peak is the hash that was climbed to, and it
\* is its own negation exactly then: the circuit and Verify accept the same.
LEMMA DefineIsVerify ==
  ASSUME NEW T, NEW proof, proof.Peaks \in Seq(T), proof.Peaks # <<>>,
         NEW leaf, NEW root
  PROVE  Define(proof, leaf, root) <=> Verify(proof, leaf, root)
<1> DEFINE hash == Climbed(proof.MerkleProof, leaf)
           peaks == proof.Peaks
           c == Compared(hash, peaks[1])
           ps == Tail(peaks)
           n == Len(ps)
           mul == Product(hash, c, ps)
<1>1. Define(proof, leaf, root) <=> mul = -mul /\ peaks = root
  BY DEF Define, Compared, Product
<1>2. Verify(proof, leaf, root) <=> hash \in ToSet(peaks) /\ peaks = root
  BY DEF Verify
<1>3. /\ n \in Nat /\ DOMAIN ps = 1..n /\ Len(peaks) = n + 1
      /\ DOMAIN peaks = 1..n + 1
      /\ \A k \in 1..n : ps[k] = peaks[k + 1]
  <2> HIDE DEF hash
  <2>1. peaks \in Seq(T) /\ peaks # <<>>
    OBVIOUS
  <2> HIDE DEF peaks
  <2>2. QED
    BY <2>1
<1>4. c \in {0, 1} /\ (c = 0 <=> peaks[1] = hash)
  BY DEF Compared
<1> HIDE DEF c, hash, peaks, ps, n
<1>5. PICK g : Products(hash, c, ps, n, g)
  BY <1>3, <1>4, ProductSteps
<1> HIDE DEF mul
<1>6. \A k \in 0..n : /\ g[k] \in {0, 1}
                      /\ g[k] = 0 <=> \E i \in 1..k + 1 : peaks[i] = hash
  <2> DEFINE Good(k) == /\ g[k] \in {0, 1}
                        /\ g[k] = 0 <=> \E i \in 1..k + 1 : peaks[i] = hash
             C == {k \in Nat : k <= n /\ ~Good(k)}
  <2>1. SUFFICES ASSUME C # {} PROVE FALSE
    BY <1>3
  <2>2. PICK k \in C : \A l \in C : k <= l
    <3>1. C \subseteq Nat
      OBVIOUS
    <3> HIDE DEF C
    <3>2. QED
      BY <2>1, <3>1, LeastNatural
  <2>3. k # 0
    <3>1. \A i : i \in 1..0 + 1 <=> i = 1
      OBVIOUS
    <3>2. Good(0)
      BY <1>4, <1>5, <3>1 DEF Products
    <3>3. QED
      BY <2>2, <3>2
  <2>4. k \in 1..n /\ k - 1 \in Nat /\ k - 1 <= n /\ ~(k <= k - 1) /\ (k - 1) + 1 = k
    BY <1>3, <2>2, <2>3
  <2>5. Good(k - 1)
    BY <2>2, <2>4
  <2>6. /\ g[k - 1] \in {0, 1}
        /\ g[k - 1] = 0 <=> \E i \in 1..k : peaks[i] = hash
    BY <2>4, <2>5
  <2>7. g[k] = g[k - 1] * Compared(hash, peaks[k + 1])
    BY <1>3, <1>5, <2>4 DEF Products
  <2>8. g[k] \in {0, 1} /\ (g[k] = 0 <=> g[k - 1] = 0 \/ peaks[k + 1] = hash)
    BY <2>6, <2>7 DEF Compared
  <2>9. \A i : i \in 1..k + 1 <=> i \in 1..k \/ i = k + 1
    BY <2>4
  <2>10. Good(k)
    BY <2>6, <2>8, <2>9
  <2>11. QED
    BY <2>2, <2>10
<1>7. n \in 0..n
  BY <1>3
<1>8. mul \in {0, 1} /\ (mul = 0 <=> \E i \in 1..n + 1 : peaks[i] = hash)
  <2>1. mul = g[n]
    BY <1>5 DEF Products, mul
  <2>2. QED
    BY <1>6, <1>7, <2>1
<1>9. mul = -mul <=> mul = 0
  BY <1>8
<1>10. hash \in ToSet(peaks) <=> \E i \in 1..n + 1 : peaks[i] = hash
  BY <1>3 DEF ToSet
<1>11. QED
  BY <1>1, <1>2, <1>8, <1>9, <1>10

\* What the loop of GetPeaks keeps.
PeakState(T) == [rest : Nat, pos : Nat, peaks : Seq(T)]

\* One iteration of it.
PeakStep(es, s, h) ==
  IF s.rest >= TreeSize(h)
  THEN [rest |-> s.rest - TreeSize(h), pos |-> s.pos + TreeSize(h),
        peaks |-> Append(s.peaks, es[s.pos + TreeSize(h)])]
  ELSE s

\* An iteration keeps the types, and what has a peak has one afterwards.
LEMMA PeakStepType ==
  ASSUME NEW es, NEW T, \A i \in Nat : es[i] \in T,
         NEW s \in PeakState(T), NEW h \in Nat
  PROVE  /\ PeakStep(es, s, h) \in PeakState(T)
         /\ s.peaks # <<>> \/ s.rest >= TreeSize(h) => PeakStep(es, s, h).peaks # <<>>
         /\ s.rest < TreeSize(h) => PeakStep(es, s, h) = s
<1> DEFINE t == TreeSize(h)
           new == [rest |-> s.rest - t, pos |-> s.pos + t,
                   peaks |-> Append(s.peaks, es[s.pos + t])]
<1>1. t \in Nat
  BY TreeSizeIs
<1>2. s.rest \in Nat /\ s.pos \in Nat /\ s.peaks \in Seq(T)
  BY DEF PeakState
<1>3. PeakStep(es, s, h) = IF s.rest >= t THEN new ELSE s
  BY DEF PeakStep
<1> HIDE DEF t
<1>4. s.pos + t \in Nat /\ es[s.pos + t] \in T
  BY <1>1, <1>2
<1>5. /\ Append(s.peaks, es[s.pos + t]) \in Seq(T)
      /\ Append(s.peaks, es[s.pos + t]) # <<>>
  BY <1>2, <1>4
<1>6. s.rest >= t => new \in PeakState(T) /\ new.peaks # <<>>
  <2>1. s.rest >= t => s.rest - t \in Nat
    BY <1>1, <1>2
  <2>2. QED
    BY <1>4, <1>5, <2>1 DEF PeakState
<1> HIDE DEF new
<1>7. s.rest < t <=> ~(s.rest >= t)
  BY <1>1, <1>2
<1>8. QED
  BY <1>3, <1>6, <1>7 DEF t

\* g gives what the loop comes to after each iteration.
PeakRun(es, T, g) ==
  /\ g[0] = [rest |-> Len(es), pos |-> 0, peaks |-> <<>>]
  /\ \A k \in 1..Bits(Len(es)) :
       /\ g[k - 1] \in PeakState(T)
       /\ g[k] = PeakStep(es, g[k - 1], Bits(Len(es)) - k)
  /\ g[Bits(Len(es))] \in PeakState(T)
  /\ GetPeaks(es) = g[Bits(Len(es))].peaks

\* There is such a function.
LEMMA PeakSteps ==
  ASSUME NEW es, Len(es) \in Nat, NEW T, \A i \in Nat : es[i] \in T
  PROVE  \E g : PeakRun(es, T, g)
<1> DEFINE St == PeakState(T)
           b == Bits(Len(es))
           hs == Heights(Len(es))
           base == [rest |-> Len(es), pos |-> 0, peaks |-> <<>>]
           step == [x \in St \X (1..b) |-> PeakStep(es, x[1], hs[x[2]])]
<1>1. b \in Nat /\ hs = [i \in 1..b |-> b - i]
  BY BitsIs
<1>2. DOMAIN hs = 1..b /\ \A k \in 1..b : hs[k] = b - k /\ hs[k] \in Nat
  BY <1>1
<1>3. base \in St
  <2>1. <<>> \in Seq(T)
    OBVIOUS
  <2>2. QED
    BY <2>1 DEF PeakState
<1> HIDE DEF b, hs, base, St
<1>4. \A x \in St, k \in 1..b : step[<<x, k>>] = PeakStep(es, x, hs[k])
  OBVIOUS
<1>5. \A x \in St, h \in Nat : PeakStep(es, x, h) \in St
  BY PeakStepType DEF St
<1>6. \A x \in St, k \in 1..b : step[<<x, k>>] \in St
  BY <1>2, <1>4, <1>5
<1> HIDE DEF step
<1>7. PICK it \in [SUBSET (1..b) -> St] : Folds(base, step, 1..b, it)
  BY <1>1, <1>3, <1>6, FoldsExist
<1> DEFINE Is(f) == f = [s \in SUBSET DOMAIN hs |->
                           IF s = {} THEN base
                           ELSE PeakStep(es, f[s \ {Max(s)}], hs[Max(s)])]
           F == CHOOSE f : Is(f)
<1>8. Is(it)
  <2>1. \A s \in SUBSET (1..b) :
          s # {} => /\ Max(s) \in 1..b /\ it[s \ {Max(s)}] \in St
    <3>1. SUFFICES ASSUME NEW s \in SUBSET (1..b), s # {}
                   PROVE  Max(s) \in 1..b /\ it[s \ {Max(s)}] \in St
      OBVIOUS
    <3>2. Max(s) \in s
      BY <1>1, <3>1, LargestIndex
    <3>3. QED
      BY <1>7, <3>2
  <2>2. QED
    BY <1>2, <1>4, <1>7, <2>1, ZenonT(60) DEF Folds
<1>9. Is(F)
  BY <1>8
<1>10. GetPeaks(es) = F[DOMAIN hs].peaks
  BY DEF GetPeaks, FoldLeft, MapThenFoldSet, PeakStep, hs, base
<1> HIDE DEF F
<1>11. F[1..0] = base
  <2>1. 1..0 = {} /\ {} \in SUBSET DOMAIN hs
    OBVIOUS
  <2>2. QED
    BY <1>9, <2>1
<1>12. ASSUME NEW k \in 1..b PROVE F[1..k] = PeakStep(es, F[1..(k - 1)], b - k)
  <2>1. /\ 1..k \in SUBSET (1..b) /\ 1..k # {}
        /\ Max(1..k) = k /\ (1..k) \ {k} = 1..(k - 1)
    BY <1>1, LastIndex
  <2>2. F[1..k] = PeakStep(es, F[(1..k) \ {Max(1..k)}], hs[Max(1..k)])
    BY <1>2, <1>9, <2>1
  <2>3. QED
    BY <1>2, <2>1, <2>2
<1>13. \A k \in 0..b : F[1..k] \in St
  <2> DEFINE C == {k \in Nat : k <= b /\ F[1..k] \notin St}
  <2>1. SUFFICES ASSUME C # {} PROVE FALSE
    BY <1>1
  <2>2. PICK k \in C : \A l \in C : k <= l
    <3>1. C \subseteq Nat
      OBVIOUS
    <3> HIDE DEF C
    <3>2. QED
      BY <2>1, <3>1, LeastNatural
  <2>3. k # 0
    BY <1>3, <1>11, <2>2
  <2>4. k \in 1..b /\ k - 1 \in Nat /\ k - 1 <= b /\ ~(k <= k - 1) /\ b - k \in Nat
    BY <1>1, <2>2, <2>3
  <2>5. F[1..(k - 1)] \in St
    BY <2>2, <2>4
  <2>6. F[1..k] \in St
    BY <1>5, <1>12, <2>4, <2>5
  <2>7. QED
    BY <2>2, <2>6
<1> DEFINE g == [k \in 0..b |-> F[1..k]]
<1>14. \A k \in 1..b : k \in 0..b /\ k - 1 \in 0..b
  BY <1>1
<1>15. \A k \in 0..b : g[k] = F[1..k] /\ g[k] \in St
  BY <1>13
<1> HIDE DEF g
<1>16. 0 \in 0..b /\ b \in 0..b
  BY <1>1
<1>17. g[0] = base /\ g[b] = F[DOMAIN hs] /\ g[b] \in St
  BY <1>2, <1>11, <1>15, <1>16
<1>18. \A k \in 1..b : g[k - 1] \in St /\ g[k] = PeakStep(es, g[k - 1], b - k)
  BY <1>12, <1>14, <1>15
<1>19. QED
  BY <1>10, <1>17, <1>18 DEF PeakRun, St, base, b

\* A range that is not empty has a peak: at height 0 at the latest.
LEMMA SomePeak ==
  ASSUME NEW S, NEW es \in Seq(S), Len(es) # 0
  PROVE  \E T : GetPeaks(es) \in Seq(T) /\ GetPeaks(es) # <<>>
<1> DEFINE T == {es[i] : i \in Nat}
           l == Len(es)
           b == Bits(l)
<1>1. \A i \in Nat : es[i] \in T
  OBVIOUS
<1>2. l \in Nat /\ l # 0
  OBVIOUS
<1> HIDE DEF T
<1>3. PICK g : PeakRun(es, T, g)
  BY <1>1, <1>2, PeakSteps
<1> HIDE DEF l
<1>4. b \in Nat /\ b # 0
  BY <1>2, BitsIs
<1> HIDE DEF b
<1>5. /\ g[0] = [rest |-> l, pos |-> 0, peaks |-> <<>>]
      /\ \A k \in 1..b : g[k - 1] \in PeakState(T) /\ g[k] = PeakStep(es, g[k - 1], b - k)
      /\ g[b] \in PeakState(T) /\ GetPeaks(es) = g[b].peaks
  BY <1>3 DEF PeakRun, l, b
<1>6. \A k \in 0..b : g[k].peaks # <<>> \/ g[k].rest = l
  <2> DEFINE C == {k \in Nat : k <= b /\ ~(g[k].peaks # <<>> \/ g[k].rest = l)}
  <2>1. SUFFICES ASSUME C # {} PROVE FALSE
    BY <1>4
  <2>2. PICK k \in C : \A m \in C : k <= m
    <3>1. C \subseteq Nat
      OBVIOUS
    <3> HIDE DEF C
    <3>2. QED
      BY <2>1, <3>1, LeastNatural
  <2>3. k # 0
    BY <1>5, <2>2
  <2>4. k \in 1..b /\ k - 1 \in Nat /\ k - 1 <= b /\ ~(k <= k - 1) /\ b - k \in Nat
    BY <1>4, <2>2, <2>3
  <2>5. g[k - 1].peaks # <<>> \/ g[k - 1].rest = l
    BY <2>2, <2>4
  <2>6. g[k - 1] \in PeakState(T) /\ g[k] = PeakStep(es, g[k - 1], b - k)
    BY <1>5, <2>4
  <2> DEFINE s == g[k - 1]
             h == b - k
  <2>7. h \in Nat /\ s \in PeakState(T)
    BY <2>4, <2>6
  <2>8. g[k] = PeakStep(es, s, h) /\ (s.peaks # <<>> \/ s.rest = l)
    BY <2>5, <2>6
  <2> HIDE DEF s, h
  <2>9. /\ s.peaks # <<>> \/ s.rest >= TreeSize(h) => PeakStep(es, s, h).peaks # <<>>
        /\ s.rest < TreeSize(h) => PeakStep(es, s, h) = s
    BY <1>1, <2>7, PeakStepType
  <2>10. s.rest >= TreeSize(h) \/ s.rest < TreeSize(h)
    <3>1. s.rest \in Nat /\ TreeSize(h) \in Nat
      BY <2>7, TreeSizeIs DEF PeakState
    <3>2. QED
      BY <3>1
  <2>11. g[k].peaks # <<>> \/ g[k].rest = l
    BY <2>8, <2>9, <2>10
  <2>12. QED
    BY <2>2, <2>11
<1> DEFINE s == g[b - 1]
<1>7. /\ s.peaks # <<>> \/ s.rest = l
      /\ s \in PeakState(T) /\ g[b] = PeakStep(es, s, 0)
  <2>1. b \in 1..b /\ b - 1 \in 0..b /\ b - b = 0
    BY <1>4
  <2>2. QED
    BY <1>5, <1>6, <2>1
<1> HIDE DEF s
<1>8. TreeSize(0) = 1 /\ 0 \in Nat
  BY Pow2Is, TreeSizeIs
<1>9. s.peaks # <<>> \/ s.rest >= TreeSize(0)
  BY <1>2, <1>7, <1>8
<1>10. PeakStep(es, s, 0).peaks # <<>>
  BY <1>1, <1>7, <1>8, <1>9, PeakStepType
<1>11. g[b].peaks \in Seq(T)
  BY <1>5 DEF PeakState
<1>12. QED
  BY <1>5, <1>7, <1>10, <1>11


-----------------------------------------------------------------------------
(* The trees over the leaves *)

\* The trees of height h, from those of the height below.
Level(ls, h, below) ==
  [j \in Int |-> IF h = 0 THEN <<ls[j]>> ELSE <<below[j - Pow2[h - 1]], below[j]>>]

\* The lowest ones are not made of any others.
LEMMA LevelZero ==
  ASSUME NEW ls, NEW x, NEW y
  PROVE  Level(ls, 0, x) = Level(ls, 0, y)
BY DEF Level

\* g gives the trees up to height n.
TreesUpto(ls, n, g) == g = [h \in 0..n |-> Level(ls, h, g[h - 1])]

\* There is such a function for each n.
LEMMA TreesExist ==
  ASSUME NEW ls, NEW n \in Nat
  PROVE  \E g : TreesUpto(ls, n, g)
<1> DEFINE C == {m \in Nat : ~\E g : TreesUpto(ls, m, g)}
<1>1. SUFFICES ASSUME C # {} PROVE FALSE
  OBVIOUS
<1>2. PICK m \in C : \A k \in C : m <= k
  <2>1. C \subseteq Nat
    OBVIOUS
  <2> HIDE DEF C
  <2>2. QED
    BY <1>1, <2>1, LeastNatural
<1>3. CASE m = 0
  <2> DEFINE g == [h \in 0..0 |-> Level(ls, 0, 0)]
  <2>1. \A h \in 0..0 : h = 0
    OBVIOUS
  <2>2. \A h \in 0..0 : Level(ls, h, g[h - 1]) = Level(ls, 0, 0)
    BY <2>1, LevelZero
  <2>3. TreesUpto(ls, 0, g)
    <3> DEFINE z == Level(ls, 0, 0)
               f == [h \in 0..0 |-> Level(ls, h, g[h - 1])]
    <3>1. \A h \in 0..0 : f[h] = z
      BY <2>2
    <3>2. g = [h \in 0..0 |-> z]
      OBVIOUS
    <3> HIDE DEF z
    <3>3. g = f
      BY <3>1, <3>2
    <3>4. QED
      BY <3>3 DEF TreesUpto
  <2>4. QED
    BY <1>2, <1>3, <2>3
<1>4. CASE m # 0
  <2>1. m \in Nat /\ m - 1 \in Nat /\ ~(m <= m - 1)
    BY <1>2, <1>4
  <2>2. PICK old : TreesUpto(ls, m - 1, old)
    BY <1>2, <2>1
  <2> DEFINE top == Level(ls, m, old[m - 1])
             g == [h \in 0..m |-> IF h = m THEN top ELSE old[h]]
  <2>3. \A h \in 0..m - 1 : old[h] = Level(ls, h, old[h - 1])
    BY <2>2 DEF TreesUpto
  <2>4. g[m] = top /\ \A h \in 0..m - 1 : g[h] = old[h]
    BY <2>1
  <2>5. ASSUME NEW h \in 0..m PROVE g[h] = Level(ls, h, g[h - 1])
    <3>1. CASE h = m
      <4>1. m - 1 \in 0..m - 1
        BY <2>1
      <4>2. g[m - 1] = old[m - 1]
        BY <2>4, <4>1
      <4> HIDE DEF g
      <4>3. QED
        BY <2>4, <3>1, <4>2
    <3>2. CASE h # m
      <4>1. h \in 0..m - 1 /\ (h = 0 \/ h - 1 \in 0..m - 1)
        BY <2>1, <3>2
      <4> HIDE DEF g
      <4>2. CASE h = 0
        <5>1. Level(ls, 0, g[h - 1]) = Level(ls, 0, old[h - 1])
          BY LevelZero
        <5>2. QED
          BY <2>3, <2>4, <4>1, <4>2, <5>1
      <4>3. CASE h # 0
        <5>1. g[h - 1] = old[h - 1]
          BY <2>4, <4>1, <4>3
        <5>2. QED
          BY <2>3, <2>4, <4>1, <5>1
      <4>4. QED
        BY <4>2, <4>3
    <3>3. QED
      BY <3>1, <3>2
  <2>6. TreesUpto(ls, m, g)
    <3> DEFINE f == [h \in 0..m |-> Level(ls, h, g[h - 1])]
    <3>1. \A h \in 0..m : f[h] = g[h]
      BY <2>5
    <3>2. DOMAIN f = 0..m /\ f = [h \in 0..m |-> f[h]]
      OBVIOUS
    <3>3. DOMAIN g = 0..m /\ g = [h \in 0..m |-> g[h]]
      OBVIOUS
    <3> HIDE DEF f, g
    <3>4. f = g
      BY <3>1, <3>2, <3>3
    <3>5. QED
      BY <3>4 DEF TreesUpto, f
  <2>7. QED
    BY <1>2, <2>6
<1>5. QED
  BY <1>3, <1>4

\* Two of them agree where both are defined.
LEMMA TreesAgree ==
  ASSUME NEW ls, NEW m \in Nat, NEW n \in Nat, m <= n,
         NEW g, TreesUpto(ls, m, g), NEW f, TreesUpto(ls, n, f)
  PROVE  g[m] = f[m]
<1> DEFINE C == {k \in Nat : k <= m /\ g[k] # f[k]}
<1>1. SUFFICES ASSUME C # {} PROVE FALSE
  OBVIOUS
<1>2. PICK i \in C : \A k \in C : i <= k
  <2>1. C \subseteq Nat
    OBVIOUS
  <2> HIDE DEF C
  <2>2. QED
    BY <1>1, <2>1, LeastNatural
<1>3. i \in Nat /\ i \in 0..m /\ i \in 0..n /\ g[i] # f[i] /\ i <= m
  BY <1>2
<1>4. g[i] = Level(ls, i, g[i - 1]) /\ f[i] = Level(ls, i, f[i - 1])
  BY <1>3 DEF TreesUpto
<1>5. i # 0
  BY <1>3, <1>4, LevelZero
<1>6. i - 1 \in Nat /\ i - 1 <= m /\ ~(i <= i - 1)
  BY <1>3, <1>5
<1>7. g[i - 1] = f[i - 1]
  BY <1>2, <1>6
<1>8. QED
  BY <1>3, <1>4, <1>7

\* What Trees gives: a leaf's hash, and the hash of two trees side by side.
LEMMA TreesIs ==
  ASSUME NEW ls, NEW j \in Int
  PROVE  /\ Trees(ls)[0][j] = <<ls[j]>>
         /\ \A h \in Nat :
              Trees(ls)[h + 1][j] = <<Trees(ls)[h][j - Pow2[h]], Trees(ls)[h][j]>>
<1> DEFINE upto(n) == CHOOSE g : TreesUpto(ls, n, g)
           t == [n \in Nat |-> upto(n)[n]]
           Is(f) == f = [h \in Nat |-> Level(ls, h, f[h - 1])]
<1>1. \A n \in Nat : TreesUpto(ls, n, upto(n))
  BY TreesExist
<1>2. \A n \in Nat : t[n] = upto(n)[n]
  OBVIOUS
<1> HIDE DEF upto
<1>3. ASSUME NEW n \in Nat PROVE t[n] = Level(ls, n, t[n - 1])
  <2>1. n \in 0..n
    OBVIOUS
  <2>2. upto(n)[n] = Level(ls, n, upto(n)[n - 1])
    <3>1. TreesUpto(ls, n, upto(n))
      BY <1>1
    <3>2. QED
      BY <2>1, <3>1 DEF TreesUpto
  <2>3. CASE n = 0
    <3>1. Level(ls, 0, upto(n)[n - 1]) = Level(ls, 0, t[n - 1])
      BY LevelZero
    <3>2. QED
      BY <1>2, <2>2, <2>3, <3>1
  <2>4. CASE n # 0
    <3> DEFINE m == n - 1
    <3>1. m \in Nat /\ m <= n
      BY <2>4
    <3> HIDE DEF m
    <3>2. upto(m)[m] = upto(n)[m]
      BY <1>1, <3>1, TreesAgree
    <3>3. t[m] = upto(n)[m]
      BY <1>2, <3>1, <3>2
    <3>4. QED
      BY <1>2, <2>2, <3>3 DEF m
  <2>5. QED
    BY <2>3, <2>4
<1>4. Is(t)
  <2> DEFINE f == [h \in Nat |-> Level(ls, h, t[h - 1])]
  <2>1. \A h \in Nat : f[h] = t[h]
    BY <1>3
  <2>2. DOMAIN f = Nat /\ f = [h \in Nat |-> f[h]]
    OBVIOUS
  <2>3. DOMAIN t = Nat /\ t = [h \in Nat |-> t[h]]
    OBVIOUS
  <2> HIDE DEF f, t
  <2>4. f = t
    BY <2>1, <2>2, <2>3
  <2>5. QED
    BY <2>4 DEF f
<1>5. Trees(ls) = CHOOSE f : Is(f)
  BY DEF Trees, Level
<1>6. Is(Trees(ls))
  BY <1>4, <1>5
<1> DEFINE T == Trees(ls)
<1>7. \A h \in Nat : T[h] = Level(ls, h, T[h - 1])
  BY <1>6
<1> HIDE DEF T
<1>8. \A h \in Nat : T[h][j] =
        IF h = 0 THEN <<ls[j]>> ELSE <<T[h - 1][j - Pow2[h - 1]], T[h - 1][j]>>
  BY <1>7 DEF Level
<1>9. \A h \in Nat : h + 1 \in Nat /\ h + 1 # 0 /\ (h + 1) - 1 = h
  OBVIOUS
<1>10. T[0][j] = <<ls[j]>>
  BY <1>8
<1>11. \A h \in Nat : T[h + 1][j] = <<T[h][j - Pow2[h]], T[h][j]>>
  BY <1>8, <1>9
<1>12. QED
  BY <1>10, <1>11 DEF T

\* The leaves that the tree of height h over the j-th leaf stands on are the same.
SameLeaves(ls, more, h, j) ==
  \A i \in Int : j - Pow2[h] < i /\ i <= j => ls[i] = more[i]

\* A tree depends on the leaves that it stands on only.
LEMMA TreesSame ==
  ASSUME NEW ls, NEW more, NEW h \in Nat, NEW j \in Int, SameLeaves(ls, more, h, j)
  PROVE  Trees(ls)[h][j] = Trees(more)[h][j]
<1> DEFINE Same(k) == \A i \in Int : SameLeaves(ls, more, k, i)
                        => Trees(ls)[k][i] = Trees(more)[k][i]
           C == {k \in Nat : ~Same(k)}
<1>1. SUFFICES ASSUME C # {} PROVE FALSE
  <2>1. C = {} => Same(h)
    <3> HIDE DEF Same
    <3>1. QED
      OBVIOUS
  <2>2. QED
    BY <2>1
<1>2. PICK m \in C : \A k \in C : m <= k
  <2>1. C \subseteq Nat
    OBVIOUS
  <2> HIDE DEF C
  <2>2. QED
    BY <1>1, <2>1, LeastNatural
<1>3. PICK i \in Int : /\ SameLeaves(ls, more, m, i)
                       /\ Trees(ls)[m][i] # Trees(more)[m][i]
  BY <1>2
<1>4. m \in Nat
  BY <1>2
<1>5. m # 0
  <2>1. SUFFICES ASSUME m = 0 PROVE FALSE
    OBVIOUS
  <2>2. Trees(ls)[0][i] = <<ls[i]>> /\ Trees(more)[0][i] = <<more[i]>>
    BY TreesIs
  <2>3. i - Pow2[m] < i /\ i <= i
    BY <2>1, Pow2Is
  <2>4. ls[i] = more[i]
    BY <1>3, <2>3 DEF SameLeaves
  <2>5. QED
    BY <1>3, <2>1, <2>2, <2>4
<1> DEFINE k == m - 1
<1>6. k \in Nat /\ k + 1 = m /\ ~(m <= k)
  BY <1>4, <1>5
<1> HIDE DEF k
<1>7. Pow2[k] \in Nat /\ Pow2[k] >= 1 /\ Pow2[m] = 2 * Pow2[k]
  <2>1. Pow2[k + 1] = 2 * Pow2[k]
    BY <1>6, Pow2Is
  <2>2. QED
    BY <1>6, <2>1, PowPositive
<1> DEFINE l == i - Pow2[k]
<1>8. l \in Int /\ SameLeaves(ls, more, k, l) /\ SameLeaves(ls, more, k, i)
  <2>1. l \in Int
    BY <1>7
  <2>2. l = i - Pow2[k]
    OBVIOUS
  <2> HIDE DEF l
  <2>3. ASSUME NEW x \in Int, l - Pow2[k] < x, x <= l PROVE ls[x] = more[x]
    <3>1. i - Pow2[m] < x /\ x <= i
      BY <1>7, <2>1, <2>2, <2>3
    <3>2. QED
      BY <1>3, <3>1 DEF SameLeaves
  <2>4. ASSUME NEW x \in Int, i - Pow2[k] < x, x <= i PROVE ls[x] = more[x]
    <3>1. i - Pow2[m] < x
      BY <1>7, <2>4
    <3>2. QED
      BY <1>3, <2>4, <3>1 DEF SameLeaves
  <2>5. QED
    BY <2>1, <2>3, <2>4 DEF SameLeaves
<1>9. Same(k)
  BY <1>2, <1>6
<1>10. /\ Trees(ls)[k][l] = Trees(more)[k][l]
       /\ Trees(ls)[k][i] = Trees(more)[k][i]
  BY <1>8, <1>9
<1>11. /\ Trees(ls)[k + 1][i] = <<Trees(ls)[k][l], Trees(ls)[k][i]>>
       /\ Trees(more)[k + 1][i] = <<Trees(more)[k][l], Trees(more)[k][i]>>
  BY <1>4, <1>6, TreesIs
<1>12. QED
  BY <1>3, <1>6, <1>10, <1>11

\* Another leaf at the end leaves the trees as they are.
LEMMA TreesStay ==
  ASSUME NEW L, NEW ls \in Seq(L), NEW leaf \in L, NEW h \in Nat, NEW j \in Nat,
         Pow2[h] <= j, j <= Len(ls)
  PROVE  Trees(ls)[h][j] = Trees(Append(ls, leaf))[h][j]
<1> DEFINE more == Append(ls, leaf)
<1>1. ASSUME NEW i \in Int, j - Pow2[h] < i, i <= j PROVE ls[i] = more[i]
  <2>1. Pow2[h] \in Nat /\ Len(ls) \in Nat
    BY PowPositive
  <2>2. i \in 1..Len(ls)
    BY <1>1, <2>1
  <2>3. QED
    BY <2>2
<1> HIDE DEF more
<1>2. SameLeaves(ls, more, h, j) /\ j \in Int
  BY <1>1 DEF SameLeaves
<1>3. Trees(ls)[h][j] = Trees(more)[h][j]
  BY <1>2, TreesSame, ZenonT(60)
<1>4. QED
  BY <1>3 DEF more

\* Two lists have the same tree over the i-th leaf.
SameAround(ls, more, h, j, i) ==
  j - Pow2[h] < i /\ i <= j /\ Trees(ls)[h][j] = Trees(more)[h][j]

\* A tree tells the leaves that it stands on.
LEMMA TreesTell ==
  ASSUME NEW ls, NEW more, NEW h \in Nat, NEW j \in Int, NEW i \in Int,
         SameAround(ls, more, h, j, i)
  PROVE  ls[i] = more[i]
<1> DEFINE Tells(k) == \A x \in Int : /\ x - Pow2[k] < i /\ i <= x
                                      /\ Trees(ls)[k][x] = Trees(more)[k][x]
                                      => ls[i] = more[i]
           C == {k \in Nat : ~Tells(k)}
<1>1. SUFFICES ASSUME C # {} PROVE FALSE
  <2>1. C = {} => Tells(h)
    <3> HIDE DEF Tells
    <3>1. QED
      OBVIOUS
  <2>2. QED
    BY <2>1 DEF SameAround
<1>2. PICK m \in C : \A k \in C : m <= k
  <2>1. C \subseteq Nat
    OBVIOUS
  <2> HIDE DEF C
  <2>2. QED
    BY <1>1, <2>1, LeastNatural
<1>3. PICK x \in Int : /\ x - Pow2[m] < i /\ i <= x
                       /\ Trees(ls)[m][x] = Trees(more)[m][x]
                       /\ ls[i] # more[i]
  BY <1>2
<1>4. m \in Nat
  BY <1>2
<1>5. m # 0
  <2>1. SUFFICES ASSUME m = 0 PROVE FALSE
    OBVIOUS
  <2>2. Trees(ls)[0][x] = <<ls[x]>> /\ Trees(more)[0][x] = <<more[x]>>
    BY TreesIs
  <2>3. x = i
    BY <1>3, <2>1, Pow2Is
  <2>4. QED
    BY <1>3, <2>1, <2>2, <2>3
<1> DEFINE k == m - 1
<1>6. k \in Nat /\ k + 1 = m /\ ~(m <= k)
  BY <1>4, <1>5
<1> HIDE DEF k
<1>7. Pow2[k] \in Nat /\ Pow2[m] = 2 * Pow2[k]
  <2>1. Pow2[k + 1] = 2 * Pow2[k]
    BY <1>6, Pow2Is
  <2>2. QED
    BY <1>6, <2>1, PowPositive
<1> DEFINE l == x - Pow2[k]
<1>8. l \in Int
  BY <1>7
<1>9. /\ Trees(ls)[k + 1][x] = <<Trees(ls)[k][l], Trees(ls)[k][x]>>
      /\ Trees(more)[k + 1][x] = <<Trees(more)[k][l], Trees(more)[k][x]>>
  BY <1>6, TreesIs
<1>10. /\ Trees(ls)[k][l] = Trees(more)[k][l]
       /\ Trees(ls)[k][x] = Trees(more)[k][x]
  BY <1>3, <1>6, <1>9
<1>11. Tells(k)
  BY <1>2, <1>6
<1>12. (l - Pow2[k] < i /\ i <= l) \/ (x - Pow2[k] < i /\ i <= x)
  BY <1>3, <1>7
<1> HIDE DEF l
<1>13. QED
  BY <1>3, <1>8, <1>10, <1>11, <1>12

\* Trees of different heights are not the same.
LEMMA HeightsDiffer ==
  ASSUME NEW ls, NEW more, NEW h \in Nat, NEW g \in Nat, h < g,
         NEW i \in Int, NEW j \in Int
  PROVE  Trees(ls)[h][i] # Trees(more)[g][j]
<1> DEFINE Differs(k) == \A x \in Nat : k < x => Trees(ls)[k][i] # Trees(more)[x][j]
           C == {k \in Nat : ~Differs(k)}
<1>1. SUFFICES ASSUME C # {} PROVE FALSE
  <2>1. C = {} => Differs(h)
    <3> HIDE DEF Differs
    <3>1. QED
      OBVIOUS
  <2>2. QED
    BY <2>1
<1>2. PICK m \in C : \A k \in C : m <= k
  <2>1. C \subseteq Nat
    OBVIOUS
  <2> HIDE DEF C
  <2>2. QED
    BY <1>1, <2>1, LeastNatural
<1>3. PICK x \in Nat : m < x /\ Trees(ls)[m][i] = Trees(more)[x][j]
  BY <1>2
<1>4. m \in Nat
  BY <1>2
<1> DEFINE y == x - 1
           a == Trees(more)[y][j - Pow2[y]]
           b == Trees(more)[y][j]
<1>5. y \in Nat /\ y + 1 = x
  BY <1>3, <1>4
<1> HIDE DEF y
<1>6. Trees(more)[x][j] = <<a, b>>
  BY <1>5, TreesIs
<1>7. m # 0
  <2>1. SUFFICES ASSUME m = 0 PROVE FALSE
    OBVIOUS
  <2>2. Trees(ls)[0][i] = <<ls[i]>>
    BY TreesIs
  <2> HIDE DEF a, b
  <2>3. <<ls[i]>> = <<a, b>>
    BY <1>3, <1>6, <2>1, <2>2
  <2>4. QED
    BY <2>3
<1> DEFINE k == m - 1
           c == Trees(ls)[k][i - Pow2[k]]
           d == Trees(ls)[k][i]
<1>8. k \in Nat /\ k + 1 = m /\ ~(m <= k)
  BY <1>4, <1>7
<1> HIDE DEF k
<1>9. Trees(ls)[m][i] = <<c, d>>
  BY <1>8, TreesIs
<1>10. d = b
  <2> HIDE DEF a, b, c, d
  <2>1. <<c, d>> = <<a, b>>
    BY <1>3, <1>6, <1>9
  <2>2. QED
    BY <2>1
<1>11. Differs(k)
  BY <1>2, <1>8
<1>12. k < y
  BY <1>3, <1>5, <1>8
<1>13. QED
  BY <1>5, <1>10, <1>11, <1>12


-----------------------------------------------------------------------------
(* Where the trees are.  The leaves make blocks of 2^h, numbered from 0, and *)
(* each whole block has a tree of height h over it.                          *)

\* The last leaf of a block.
LastOf(h, c) == (c + 1) * Pow2[h]

\* The place of the top of its tree.
TopAt(h, c) == SizeOf(c * Pow2[h]) + TreeSize(h)

\* Blocks before a smaller one do not change its size.
LEMMA SizeAdds ==
  ASSUME NEW h \in Nat, NEW c \in Nat, NEW m \in Nat, m < Pow2[h]
  PROVE  SizeOf(c * Pow2[h] + m) = SizeOf(c * Pow2[h]) + SizeOf(m)
<1> DEFINE a == c * Pow2[h]
           C == {x \in Nat : x < Pow2[h] /\ SizeOf(a + x) # SizeOf(a) + SizeOf(x)}
<1>1. a \in Nat /\ Pow2[h] \in Nat
  BY PowPositive
<1>2. SUFFICES ASSUME C # {} PROVE FALSE
  OBVIOUS
<1>3. PICK x \in C : \A y \in C : x <= y
  <2>1. C \subseteq Nat
    OBVIOUS
  <2> HIDE DEF C
  <2>2. QED
    BY <1>2, <2>1, LeastNatural
<1>4. x \in Nat /\ x < Pow2[h] /\ SizeOf(a + x) # SizeOf(a) + SizeOf(x)
  BY <1>3
<1>5. x # 0
  <2>1. SizeOf(a) \in Nat /\ a + 0 = a
    BY <1>1, SizeStep
  <2>2. QED
    BY <1>4, <2>1, SizeZero
<1> DEFINE y == x - 1
<1>6. y \in Nat /\ y < Pow2[h] /\ ~(x <= y) /\ y + 1 = x /\ y + 1 < Pow2[h]
      /\ (a + y) + 1 = a + x /\ a + y \in Nat
  BY <1>1, <1>4, <1>5
<1>7. SizeOf(a + y) = SizeOf(a) + SizeOf(y)
  BY <1>3, <1>6
<1> HIDE DEF y
<1>8. Ones(a + y) = Ones(y)
  BY <1>6, OnesShift
<1> HIDE DEF a
<1>9. /\ SizeOf(y + 1) = SizeOf(y) + (1 + Ones(y))
      /\ SizeOf((a + y) + 1) = SizeOf(a + y) + (1 + Ones(a + y))
      /\ SizeOf(y) \in Nat /\ SizeOf(a) \in Nat /\ Ones(y) \in Nat
  BY <1>1, <1>6, SizeStep, OnesEnd
<1>10. /\ SizeOf(x) = SizeOf(y) + (1 + Ones(y))
       /\ SizeOf(a + x) = (SizeOf(a) + SizeOf(y)) + (1 + Ones(y))
  BY <1>6, <1>7, <1>8, <1>9
<1>11. QED
  BY <1>4, <1>9, <1>10

\* The last leaf of a block brings the top, after what is below it; even blocks
\* bring nothing higher, and odd ones do.
LEMMA BlockIs ==
  ASSUME NEW h \in Nat, NEW c \in Nat
  PROVE  LET j == LastOf(h, c)
         IN  /\ j \in Nat /\ Pow2[h] <= j /\ j - 1 \in Nat
             /\ TopAt(h, c) \in Nat /\ TopAt(h, c) = SizeOf(j - 1) + (h + 1)
             /\ h <= Ones(j - 1) /\ Ones(j - 1) \in Nat
             /\ c % 2 = 0 <=> Ones(j - 1) = h
<1> DEFINE p == Pow2[h]
           m == p - 1
           n == c * p + m
           j == LastOf(h, c)
<1>1. p \in Nat /\ p >= 1 /\ m \in Nat /\ m < p
  BY PowPositive
<1>2. c * p \in Nat /\ n \in Nat
  BY <1>1
<1>3. j \in Nat /\ p <= j /\ n = j - 1 /\ n + 1 = j
  <2>1. j = (c + 1) * p
    BY DEF LastOf
  <2> HIDE DEF p, j
  <2>2. (c + 1) * p = c * p + p
    BY <1>1
  <2>3. QED
    BY <1>1, <1>2, <2>1, <2>2
<1>4. SizeOf(m) + (h + 1) = TreeSize(h) /\ SizeOf(m) \in Nat
  <2>1. Ones(m) = h
    BY AllOnes
  <2>2. SizeOf(m + 1) = SizeOf(m) + (1 + Ones(m)) /\ SizeOf(m) \in Nat
    BY <1>1, SizeStep
  <2>3. m + 1 = p
    BY <1>1
  <2>4. SizeOf(p) = TreeSize(h)
    BY SizeOfTree
  <2>5. QED
    BY <2>1, <2>2, <2>3, <2>4
<1>5. SizeOf(n) = SizeOf(c * p) + SizeOf(m)
  <2> HIDE DEF m
  <2>1. QED
    BY <1>1, SizeAdds
<1>6. SizeOf(c * p) \in Nat
  BY <1>2, SizeStep
<1>7. TopAt(h, c) = SizeOf(c * p) + TreeSize(h)
  BY DEF TopAt
<1> HIDE DEF n, j, m
<1>8. TopAt(h, c) = SizeOf(n) + (h + 1) /\ TopAt(h, c) \in Nat
  BY <1>4, <1>5, <1>6, <1>7
<1>9. h <= Ones(n) /\ Ones(n) \in Nat
  <2>1. j % p = 0
    <3>1. j = (c + 1) * p /\ c + 1 \in Nat
      BY DEF j, LastOf
    <3> HIDE DEF p
    <3>2. QED
      BY <1>1, <1>3, <3>1, Multiple
  <2>2. (n + 1) % Pow2[h] = 0 <=> h <= Ones(n)
    BY <1>2, DivisorsOfNext
  <2>3. QED
    BY <1>2, <1>3, <2>1, <2>2, OnesEnd
<1>10. c % 2 = 0 <=> Ones(n) = h
  <2>1. PICK d \in Nat : c = 2 * d \/ c = 2 * d + 1
    BY EvenOrOdd
  <2>2. CASE c = 2 * d
    <3>1. n = d * (2 * p) + (p - 1)
      <4>1. (2 * d) * p = d * (2 * p)
        BY <1>1
      <4>2. QED
        BY <2>2, <4>1 DEF n, m
    <3>2. Ends(n, h)
      BY <3>1 DEF Ends
    <3>3. Ones(n) = h
      BY <1>2, <3>2, OnesEnd
    <3>4. c % 2 = 0
      BY <2>2
    <3>5. QED
      BY <3>3, <3>4
  <2>3. CASE c = 2 * d + 1
    <3>1. j = (d + 1) * Pow2[h + 1] /\ d + 1 \in Nat
      <4>1. Pow2[h + 1] = 2 * p
        BY Pow2Is
      <4>2. j = (c + 1) * p /\ c + 1 = 2 * (d + 1)
        BY <2>3 DEF j, LastOf
      <4> HIDE DEF p
      <4>3. (2 * (d + 1)) * p = (d + 1) * (2 * p)
        BY <1>1
      <4>4. QED
        BY <4>1, <4>2, <4>3
    <3>2. h + 1 \in Nat /\ Pow2[h + 1] \in Nat /\ Pow2[h + 1] >= 1
      BY PowPositive
    <3>3. j % Pow2[h + 1] = 0
      BY <1>3, <3>1, <3>2, Multiple
    <3>4. (n + 1) % Pow2[h + 1] = 0 <=> h + 1 <= Ones(n)
      BY <1>2, <3>2, DivisorsOfNext
    <3>5. h + 1 <= Ones(n)
      BY <1>3, <3>3, <3>4
    <3>6. Ones(n) # h
      BY <1>9, <3>5
    <3>7. c % 2 # 0
      BY <2>3
    <3>8. QED
      BY <3>6, <3>7
  <2>4. QED
    BY <2>1, <2>2, <2>3
<1>11. QED
  BY <1>2, <1>3, <1>8, <1>9, <1>10 DEF j

\* Two blocks side by side: the top of the right tree is as far from the left one
\* as it has elements, and the top of the tree over both comes next.
LEMMA BlocksSideBySide ==
  ASSUME NEW h \in Nat, NEW d \in Nat
  PROVE  /\ TopAt(h, 2 * d + 1) = TopAt(h, 2 * d) + TreeSize(h)
         /\ TopAt(h + 1, d) = TopAt(h, 2 * d + 1) + 1
         /\ LastOf(h + 1, d) = LastOf(h, 2 * d + 1)
         /\ LastOf(h, 2 * d + 1) = LastOf(h, 2 * d) + Pow2[h]
<1> DEFINE p == Pow2[h]
           a == (2 * d) * p
<1>1. p \in Nat /\ p >= 1 /\ Pow2[h + 1] = 2 * p /\ h + 1 \in Nat
  BY PowPositive, Pow2Is
<1>2. TreeSize(h) = 2 * p - 1 /\ TreeSize(h + 1) = 2 * (2 * p) - 1
  <2>1. TreeSize(h + 1) = 2 * Pow2[h + 1] - 1
    BY <1>1, TreeSizeIs
  <2>2. QED
    BY <1>1, <2>1, TreeSizeIs
<1> HIDE DEF p
<1>3. a \in Nat /\ d * (2 * p) = a /\ (2 * d + 1) * p = a + p
  <2>1. d * (2 * p) = (2 * d) * p /\ (2 * d) * p \in Nat
    BY <1>1
  <2>2. (2 * d + 1) * p = (2 * d) * p + p
    BY <1>1
  <2>3. QED
    BY <2>1, <2>2
<1>4. ((2 * d + 1) + 1) * p = (a + p) + p /\ (d + 1) * (2 * p) = (a + p) + p
  <2>1. ((2 * d + 1) + 1) * p = (2 * d + 1) * p + p
    BY <1>1
  <2>2. (d + 1) * (2 * p) = d * (2 * p) + 2 * p
    BY <1>1
  <2>3. QED
    BY <1>1, <1>3, <2>1, <2>2
<1>5. SizeOf(a + p) = SizeOf(a) + TreeSize(h) /\ SizeOf(a) \in Nat
  <2>1. p < Pow2[h + 1]
    BY <1>1
  <2>2. SizeOf(d * Pow2[h + 1] + p) = SizeOf(d * Pow2[h + 1]) + SizeOf(p)
    BY <1>1, <2>1, SizeAdds
  <2>3. SizeOf(p) = TreeSize(h)
    BY SizeOfTree DEF p
  <2>4. d * Pow2[h + 1] = a
    BY <1>1, <1>3
  <2>5. QED
    BY <1>3, <2>2, <2>3, <2>4, SizeStep
<1>6. /\ TopAt(h, 2 * d) = SizeOf(a) + TreeSize(h)
      /\ TopAt(h, 2 * d + 1) = SizeOf(a + p) + TreeSize(h)
      /\ TopAt(h + 1, d) = SizeOf(a) + TreeSize(h + 1)
  BY <1>1, <1>3 DEF TopAt, p
<1>7. /\ LastOf(h + 1, d) = (a + p) + p
      /\ LastOf(h, 2 * d + 1) = (a + p) + p
      /\ LastOf(h, 2 * d) = a + p
  BY <1>1, <1>3, <1>4 DEF LastOf, p
<1> HIDE DEF a
<1>8. QED
  BY <1>1, <1>2, <1>3, <1>5, <1>6, <1>7 DEF p

\* The tree over each whole block of the first n leaves has its place.
TreesInPlace(es, ls, n) ==
  \A h \in Nat, c \in Nat :
    LastOf(h, c) <= n => es[TopAt(h, c)] = Trees(ls)[h][LastOf(h, c)]

\* A leaf is the last of a block exactly if it is a multiple of its leaves.
LEMMA BlockOf ==
  ASSUME NEW h \in Nat, NEW j \in Nat, j # 0, j % Pow2[h] = 0
  PROVE  \E c \in Nat : j = LastOf(h, c)
<1> DEFINE p == Pow2[h]
<1>1. p \in Nat /\ p >= 1
  BY PowPositive
<1>2. PICK q \in Nat : j = q * p
  <2> HIDE DEF p
  <2>1. j % p = 0
    BY DEF p
  <2>2. QED
    BY <1>1, <2>1, Multiple
<1>3. q # 0
  BY <1>1, <1>2
<1>4. q - 1 \in Nat /\ (q - 1) + 1 = q
  BY <1>3
<1>5. QED
  BY <1>2, <1>4 DEF LastOf

\* The trees that the next leaf completes come to their places.
LEMMA NewTreesInPlace ==
  ASSUME NEW S, NEW es \in Seq(S), NEW L, NEW ls \in Seq(L), NEW leaf \in L,
         Len(es) = SizeOf(Len(ls)), TreesInPlace(es, ls, Len(ls)),
         NEW h \in Nat, h <= Ones(Len(ls))
  PROVE  Joined(es, leaf)[Len(es) + (h + 1)]
           = Trees(Append(ls, leaf))[h][Len(ls) + 1]
<1> DEFINE n == Len(ls)
           l == Len(es)
           j == Joined(es, leaf)
           more == Append(ls, leaf)
           Good(k) == j[l + (k + 1)] = Trees(more)[k][n + 1]
           C == {k \in Nat : k <= Ones(n) /\ ~Good(k)}
<1>1. SUFFICES ASSUME C # {} PROVE FALSE
  <2>1. h <= Ones(n)
    OBVIOUS
  <2>2. C = {} => Good(h)
    <3> HIDE DEF Good
    <3>1. QED
      BY <2>1
  <2>3. QED
    BY <2>2
<1>2. PICK k \in C : \A i \in C : k <= i
  <2>1. C \subseteq Nat
    OBVIOUS
  <2> HIDE DEF C
  <2>2. QED
    BY <1>1, <2>1, LeastNatural
<1>3. k \in Nat /\ k <= Ones(n) /\ ~Good(k)
  BY <1>2
<1>4. n \in Nat /\ l \in Nat /\ l = SizeOf(n) /\ n + 1 \in Int
  OBVIOUS
<1>6. more[n + 1] = leaf
  OBVIOUS
<1>7. /\ j[l + 1] = <<leaf>>
      /\ \A i \in 1..Ones(n) : j[l + (i + 1)] = <<LeftPeak(es, i), j[l + i]>>
  <2> HIDE DEF n, j, l
  <2>1. Len(es) = SizeOf(n)
    BY <1>4 DEF l
  <2>2. Joining(es, leaf, n)
    BY <1>4, <2>1, JoinedIs
  <2>3. QED
    BY <2>2 DEF Joining, j, l
<1>8. TreesInPlace(es, ls, n)
  OBVIOUS
<1> HIDE DEF j, more, n, l
<1>9. k # 0
  <2>1. Trees(more)[0][n + 1] = <<more[n + 1]>>
    BY <1>4, TreesIs
  <2>2. Good(0)
    BY <1>6, <1>7, <2>1
  <2>3. QED
    BY <1>3, <2>2
<1> DEFINE g == k - 1
<1>10. g \in Nat /\ g + 1 = k /\ ~(k <= g) /\ g <= Ones(n) /\ k \in 1..Ones(n)
  <2>1. Ones(n) \in Nat
    BY <1>4, OnesEnd
  <2>2. QED
    BY <1>3, <1>9, <2>1
<1>11. j[l + k] = Trees(more)[g][n + 1]
  <2>1. Good(g)
    BY <1>2, <1>10
  <2>2. QED
    BY <1>10, <2>1
<1>12. j[l + (k + 1)] = <<LeftPeak(es, k), j[l + k]>>
  BY <1>7, <1>10
<1> HIDE DEF g
<1>13. PICK d \in Nat : n + 1 = LastOf(k, d)
  <2>1. (n + 1) % Pow2[k] = 0 /\ n + 1 \in Nat /\ n + 1 # 0
    BY <1>3, <1>4, DivisorsOfNext
  <2>2. QED
    BY <1>3, <2>1, BlockOf
<1> DEFINE b == LastOf(g, 2 * d)
           t == TopAt(g, 2 * d)
<1>14. /\ TopAt(g, 2 * d + 1) = t + TreeSize(g)
       /\ n + 1 = LastOf(g, 2 * d + 1)
       /\ n + 1 = b + Pow2[g]
  BY <1>10, <1>13, BlocksSideBySide, ZenonT(60)
<1>15. b \in Nat /\ Pow2[g] <= b /\ t \in Nat
  <2>1. 2 * d \in Nat
    OBVIOUS
  <2>2. QED
    BY <1>10, <2>1, BlockIs
<1>16. TopAt(g, 2 * d + 1) = l + (g + 1)
  <2>1. 2 * d + 1 \in Nat
    OBVIOUS
  <2>2. TopAt(g, 2 * d + 1) = SizeOf(LastOf(g, 2 * d + 1) - 1) + (g + 1)
    BY <1>10, <2>1, BlockIs
  <2>3. LastOf(g, 2 * d + 1) - 1 = n
    BY <1>4, <1>14
  <2>4. QED
    BY <1>4, <2>2, <2>3
<1>17. Pow2[g] \in Nat /\ Pow2[g] >= 1 /\ TreeSize(g) \in Nat
  BY <1>10, PowPositive, TreeSizeIs
<1> HIDE DEF b, t
<1>18. LeftPeak(es, k) = es[t]
  <2>1. l + (k - 1) - TreeSize(k - 1) + 1 = t
    <3>1. k - 1 = g
      BY DEF g
    <3> DEFINE x == TreeSize(g)
    <3>2. t + x = l + (g + 1) /\ x \in Nat
      BY <1>14, <1>16, <1>17
    <3> HIDE DEF x
    <3>3. l + g - x + 1 = t
      <4>1. l \in Nat /\ g \in Nat /\ t \in Nat /\ x \in Nat /\ t + x = l + (g + 1)
        BY <1>4, <1>10, <1>15, <3>2
      <4>2. QED
        BY <4>1
    <3>4. QED
      BY <3>1, <3>3 DEF x
  <2>2. QED
    BY <2>1 DEF LeftPeak, l
<1>19. b \in 1..n /\ b <= n
  BY <1>4, <1>14, <1>15, <1>17, SMTT(30)
<1>20. es[t] = Trees(ls)[g][b]
  <2>1. 2 * d \in Nat
    OBVIOUS
  <2>2. QED
    BY <1>8, <1>10, <1>19, <2>1 DEF TreesInPlace, b, t
<1>21. Trees(ls)[g][b] = Trees(more)[g][b]
  <2>1. g \in Nat /\ b \in Nat /\ Pow2[g] <= b /\ b <= Len(ls)
    BY <1>10, <1>15, <1>19 DEF n
  <2>2. Trees(ls)[g][b] = Trees(Append(ls, leaf))[g][b]
    BY <2>1, TreesStay
  <2>3. QED
    BY <2>2 DEF more
<1>22. Trees(more)[k][n + 1] = <<Trees(more)[g][b], Trees(more)[g][n + 1]>>
  <2>1. Trees(more)[g + 1][n + 1]
          = <<Trees(more)[g][(n + 1) - Pow2[g]], Trees(more)[g][n + 1]>>
    BY <1>4, <1>10, TreesIs
  <2>2. (n + 1) - Pow2[g] = b
    BY <1>14, <1>15, <1>17
  <2>3. QED
    BY <1>10, <2>1, <2>2
<1>23. Good(k)
  BY <1>11, <1>12, <1>18, <1>20, <1>21, <1>22
<1>24. QED
  BY <1>3, <1>23

\* So all trees keep their places.
LEMMA TreesStayInPlace ==
  ASSUME NEW S, NEW es \in Seq(S), NEW L, NEW ls \in Seq(L), NEW leaf \in L,
         Len(es) = SizeOf(Len(ls)), TreesInPlace(es, ls, Len(ls))
  PROVE  TreesInPlace(Joined(es, leaf), Append(ls, leaf), Len(ls) + 1)
<1> DEFINE n == Len(ls)
           l == Len(es)
           j == Joined(es, leaf)
           more == Append(ls, leaf)
<1>1. n \in Nat /\ l \in Nat /\ l = SizeOf(n)
  OBVIOUS
<1>3. \A i \in 1..l : j[i] = es[i]
  BY JoinedIs DEF Joining
<1>4. \A h \in Nat : h <= Ones(n) => j[l + (h + 1)] = Trees(more)[h][n + 1]
  BY NewTreesInPlace, ZenonT(60)
<1>5. TreesInPlace(es, ls, n)
  OBVIOUS
<1> HIDE DEF j, more, n, l
<1>6. ASSUME NEW h \in Nat, NEW c \in Nat, LastOf(h, c) <= n + 1
      PROVE  j[TopAt(h, c)] = Trees(more)[h][LastOf(h, c)]
  <2> DEFINE b == LastOf(h, c)
             t == TopAt(h, c)
  <2>1. /\ b \in Nat /\ Pow2[h] <= b /\ b - 1 \in Nat
        /\ t \in Nat /\ t = SizeOf(b - 1) + (h + 1)
        /\ h <= Ones(b - 1) /\ Ones(b - 1) \in Nat
    BY BlockIs
  <2>2. CASE b = n + 1
    <3>1. b - 1 = n
      BY <1>1, <2>2
    <3>2. t = l + (h + 1) /\ h <= Ones(n)
      BY <1>1, <2>1, <3>1
    <3>3. QED
      BY <1>4, <2>2, <3>2
  <2>3. CASE b # n + 1
    <3>1. b \in 1..n /\ b <= n
      BY <1>1, <1>6, <2>1, <2>3
    <3>2. t \in 1..l
      <4>1. SizeOf((b - 1) + 1) = SizeOf(b - 1) + (1 + Ones(b - 1)) /\ SizeOf(b - 1) \in Nat
        BY <2>1, SizeStep
      <4>2. (b - 1) + 1 = b
        BY <2>1
      <4>3. SizeOf(b) <= SizeOf(n)
        BY <1>1, <2>1, <3>1, SizeGrows
      <4>4. t <= SizeOf(b) /\ t >= 1
        BY <2>1, <4>1, <4>2, SMTT(30)
      <4>5. SizeOf(b) \in Nat
        BY <2>1, SizeStep
      <4>6. QED
        BY <1>1, <2>1, <4>3, <4>4, <4>5
    <3>3. j[t] = es[t]
      BY <1>3, <3>2
    <3>4. es[t] = Trees(ls)[h][b]
      BY <1>5, <3>1 DEF TreesInPlace
    <3> HIDE DEF b, t
    <3>5. Trees(ls)[h][b] = Trees(more)[h][b]
      <4>1. b \in Nat /\ Pow2[h] <= b /\ b <= Len(ls)
        BY <2>1, <3>1 DEF n
      <4>2. Trees(ls)[h][b] = Trees(Append(ls, leaf))[h][b]
        BY <4>1, TreesStay
      <4>3. QED
        BY <4>2 DEF more
    <3>6. QED
      BY <3>3, <3>4, <3>5 DEF b, t
  <2>4. QED
    BY <2>2, <2>3
<1>7. TreesInPlace(j, more, n + 1)
  BY <1>6 DEF TreesInPlace
<1>8. QED
  BY <1>7 DEF j, more, n


-----------------------------------------------------------------------------
(* The mountains *)

\* The lowest bit of n.
LowestBit(n) == CHOOSE k \in 0..n : n % Pow2[k + 1] = Pow2[k]

\* The last leaf of an even block has the block's height as its lowest bit.
LEMMA LowestBitIs ==
  ASSUME NEW n \in Nat, n # 0
  PROVE  LowestBit(n) = Ones(n - 1) /\ LowestBit(n) \in Nat /\ Pow2[LowestBit(n)] <= n
<1> DEFINE m == n - 1
           Test(k) == n % Pow2[k + 1] = Pow2[k]
<1>1. m \in Nat /\ m + 1 = n
  OBVIOUS
<1> HIDE DEF m
<1>2. /\ Ones(m) \in Nat /\ Ends(m, Ones(m)) /\ Ones(m) <= m
      /\ \A k \in Nat : Ends(m, k) => k = Ones(m)
      /\ Pow2[Ones(m)] <= m + 1
  BY <1>1, OnesEnd
<1>3. ASSUME NEW k \in Nat PROVE Test(k) <=> Ends(m, k)
  <2> DEFINE p == Pow2[k]
  <2>1. p \in Nat /\ p >= 1 /\ Pow2[k + 1] = 2 * p /\ 2 * p \in Nat /\ 2 * p >= 1
    BY PowPositive, Pow2Is
  <2>2. Test(k) <=> n % (2 * p) = p
    BY <2>1
  <2>3. Ends(m, k) <=> \E q \in Nat : m = q * (2 * p) + (p - 1)
    BY DEF Ends
  <2> HIDE DEF p, Test
  <2> DEFINE w == 2 * p
  <2>4. ASSUME NEW q \in Nat, m = q * w + (p - 1) PROVE n % w = p
    <3>1. q * w \in Nat
      BY <2>1
    <3>2. q * w + p = n /\ p \in 0..w - 1
      BY <1>1, <2>1, <2>4, <3>1
    <3> HIDE DEF w
    <3>3. (q * w + p) % w = p
      BY <2>1, <3>2, Division DEF w
    <3>4. QED
      BY <3>2, <3>3
  <2>5. ASSUME n % w = p PROVE \E q \in Nat : m = q * w + (p - 1)
    <3>1. n \div w \in Nat /\ n = (n \div w) * w + (n % w)
      BY <2>1, Divided
    <3>2. (n \div w) * w \in Nat
      BY <2>1, <3>1
    <3>3. m = (n \div w) * w + (p - 1)
      <4> DEFINE x == (n \div w) * w
      <4>1. n = x + p /\ x \in Nat
        BY <2>5, <3>1, <3>2
      <4> HIDE DEF x
      <4>2. m = x + (p - 1)
        BY <1>1, <2>1, <4>1
      <4>3. QED
        BY <4>2 DEF x
    <3>4. QED
      BY <3>1, <3>3
  <2>6. QED
    BY <2>2, <2>3, <2>4, <2>5
<1>4. Ones(m) \in 0..n /\ 0..n \subseteq Nat
  BY <1>1, <1>2
<1> HIDE DEF Test
<1>5. \A k \in 0..n : Test(k) <=> k = Ones(m)
  BY <1>2, <1>3, <1>4
<1>6. LowestBit(n) = CHOOSE k \in 0..n : Test(k)
  BY DEF LowestBit, Test
<1>7. LowestBit(n) = Ones(m)
  BY <1>4, <1>5, <1>6
<1>8. QED
  BY <1>1, <1>2, <1>7 DEF m

\* The trees over some leaves.
AllTrees(ls) == {Trees(ls)[h][j] : h \in Nat, j \in Nat}

\* What Mountains gives: an even block stands behind the mountains before it.
LEMMA MountainsIs ==
  ASSUME NEW ls
  PROVE  /\ Mountains(ls) \in [Nat -> Seq(AllTrees(ls))]
         /\ Mountains(ls)[0] = <<>>
         /\ \A n \in Nat \ {0} :
              Mountains(ls)[n] = Append(Mountains(ls)[n - Pow2[LowestBit(n)]],
                                        Trees(ls)[LowestBit(n)][n])
<1> DEFINE T == AllTrees(ls)
           S == Seq(T)
           top(n) == Trees(ls)[LowestBit(n)][n]
           prev == [n \in Nat |-> n - Pow2[LowestBit(n)]]
           step == [x \in Nat \X S |-> IF x[1] = 0 THEN <<>> ELSE Append(x[2], top(x[1]))]
           Is(f) == f = [n \in Nat |-> IF n = 0 THEN <<>>
                                       ELSE Append(f[n - Pow2[LowestBit(n)]], top(n))]
<1>1. \A n \in Nat \ {0} :
        /\ top(n) \in T
        /\ n - Pow2[LowestBit(n)] \in 0..n - 1
  <2>1. SUFFICES ASSUME NEW n \in Nat \ {0}
                 PROVE  top(n) \in T /\ n - Pow2[LowestBit(n)] \in 0..n - 1
    OBVIOUS
  <2>2. LowestBit(n) \in Nat /\ Pow2[LowestBit(n)] <= n
    BY LowestBitIs
  <2>3. Pow2[LowestBit(n)] \in Nat /\ Pow2[LowestBit(n)] >= 1
    BY <2>2, PowPositive
  <2>4. QED
    BY <2>2, <2>3 DEF AllTrees
<1>2. \A n \in Nat \ {0} : prev[n] = n - Pow2[LowestBit(n)] /\ prev[n] \in 0..n - 1
  BY <1>1
<1> HIDE DEF top, T
<1>3. <<>> \in S
  OBVIOUS
<1>4. \A n \in Nat, x \in S :
        /\ step[<<n, x>>] \in S
        /\ n # 0 => step[<<n, x>>] = Append(x, top(n))
  <2>1. SUFFICES ASSUME NEW n \in Nat, NEW x \in S
                 PROVE  /\ step[<<n, x>>] \in S
                        /\ n # 0 => step[<<n, x>>] = Append(x, top(n))
    OBVIOUS
  <2>2. step[<<n, x>>] = IF n = 0 THEN <<>> ELSE Append(x, top(n))
    OBVIOUS
  <2>3. n # 0 => top(n) \in T
    BY <1>1
  <2>4. n # 0 => Append(x, top(n)) \in S
    BY <2>3
  <2>5. QED
    BY <1>3, <2>2, <2>4
<1> HIDE DEF S, prev, step
<1>5. PICK f : Recursion(<<>>, prev, step, S, f)
  BY <1>2, <1>3, <1>4, RecursionExists
<1>6. f \in [Nat -> S] /\ \A n \in Nat : f[n] = IF n = 0 THEN <<>> ELSE step[<<n, f[prev[n]]>>]
  BY <1>5 DEF Recursion
<1>7. Is(f)
  <2>1. ASSUME NEW n \in Nat
        PROVE  f[n] = IF n = 0 THEN <<>> ELSE Append(f[n - Pow2[LowestBit(n)]], top(n))
    <3>1. CASE n = 0
      BY <1>6, <3>1
    <3>2. CASE n # 0
      <4>1. prev[n] = n - Pow2[LowestBit(n)] /\ prev[n] \in Nat
        <5>1. n \in Nat \ {0}
          BY <3>2
        <5>2. QED
          BY <1>2, <5>1
      <4>2. f[prev[n]] \in S
        BY <1>6, <4>1
      <4>3. step[<<n, f[prev[n]]>>] = Append(f[prev[n]], top(n))
        BY <1>4, <3>2, <4>2
      <4>4. QED
        BY <1>6, <3>2, <4>1, <4>3
    <3>3. QED
      BY <3>1, <3>2
  <2>2. QED
    BY <1>6, <2>1
<1> DEFINE M == Mountains(ls)
<1>8. M = CHOOSE g : Is(g)
  BY DEF Mountains, LowestBit, top
<1> HIDE DEF M
<1>9. Is(M)
  BY <1>7, <1>8
<1>10. M[0] = <<>>
  BY <1>9
<1>11. \A n \in Nat \ {0} : M[n] = Append(M[n - Pow2[LowestBit(n)]], top(n))
  BY <1>9
<1>12. \A n \in Nat : M[n] \in S
  <2> DEFINE C == {n \in Nat : M[n] \notin S}
  <2>1. SUFFICES ASSUME C # {} PROVE FALSE
    OBVIOUS
  <2>2. PICK n \in C : \A k \in C : n <= k
    <3>1. C \subseteq Nat
      OBVIOUS
    <3> HIDE DEF C
    <3>2. QED
      BY <2>1, <3>1, LeastNatural
  <2>3. n \in Nat \ {0} /\ M[n] \notin S
    BY <1>3, <1>10, <2>2
  <2> DEFINE k == n - Pow2[LowestBit(n)]
  <2>4. k \in 0..n - 1
    BY <1>1, <2>3
  <2>5. k \in Nat /\ ~(n <= k)
    BY <2>3, <2>4
  <2> HIDE DEF k
  <2>6. M[k] \in S
    BY <2>2, <2>5
  <2>7. Append(M[k], top(n)) \in S
    BY <1>1, <2>3, <2>6 DEF S
  <2>8. QED
    BY <1>11, <2>3, <2>7 DEF k
<1>13. M \in [Nat -> S]
  BY <1>9, <1>12
<1>14. QED
  BY <1>10, <1>11, <1>13 DEF M, S, T, top

\* The mountain that an even block adds.
LEMMA NextMountain ==
  ASSUME NEW ls, NEW h \in Nat, NEW d \in Nat
  PROVE  Mountains(ls)[LastOf(h, 2 * d)]
           = Append(Mountains(ls)[(2 * d) * Pow2[h]], Trees(ls)[h][LastOf(h, 2 * d)])
<1> DEFINE n == LastOf(h, 2 * d)
           p == Pow2[h]
<1>1. 2 * d \in Nat /\ (2 * d) % 2 = 0 /\ p \in Nat /\ p >= 1
  BY PowPositive
<1>2. n \in Nat /\ p <= n /\ Ones(n - 1) = h
  <2>1. LastOf(h, 2 * d) \in Nat /\ Pow2[h] <= LastOf(h, 2 * d)
    BY <1>1, BlockIs
  <2>2. (2 * d) % 2 = 0 <=> Ones(LastOf(h, 2 * d) - 1) = h
    BY <1>1, BlockIs
  <2>3. QED
    BY <1>1, <2>1, <2>2
<1>3. n \in Nat \ {0} /\ n # 0
  BY <1>1, <1>2
<1>4. LowestBit(n) = h
  <2> HIDE DEF n
  <2>1. QED
    BY <1>2, <1>3, LowestBitIs
<1>5. n - p = (2 * d) * p
  <2>1. n = (2 * d + 1) * p
    BY DEF LastOf
  <2> HIDE DEF n, p
  <2>2. (2 * d + 1) * p = (2 * d) * p + p /\ (2 * d) * p \in Nat
    BY <1>1
  <2>3. QED
    BY <1>1, <2>1, <2>2
<1> HIDE DEF n
<1>6. Mountains(ls)[n] = Append(Mountains(ls)[n - Pow2[LowestBit(n)]],
                                Trees(ls)[LowestBit(n)][n])
  BY <1>3, MountainsIs
<1>7. QED
  BY <1>4, <1>5, <1>6 DEF n

\* What the loop of GetPeaks has when it comes below height h: the mountains that
\* are as high, and the leaves that they do not stand on.
Peaked(ls, n, h, s) ==
  \E q \in Nat, m \in Nat :
    /\ n = q * Pow2[h] + m /\ m < Pow2[h]
    /\ s = [rest |-> SizeOf(m), pos |-> SizeOf(q * Pow2[h]),
            peaks |-> Mountains(ls)[q * Pow2[h]]]

\* An iteration goes down one height.
LEMMA PeakStepPeaked ==
  ASSUME NEW es, NEW ls, NEW n \in Nat, TreesInPlace(es, ls, n),
         NEW h \in Nat, NEW s, Peaked(ls, n, h + 1, s)
  PROVE  Peaked(ls, n, h, PeakStep(es, s, h))
<1> DEFINE p == Pow2[h]
           t == TreeSize(h)
<1>1. p \in Nat /\ p >= 1 /\ t \in Nat /\ Pow2[h + 1] = 2 * p
  BY PowPositive, TreeSizeIs, Pow2Is
<1>2. PICK q \in Nat, m \in Nat :
        /\ n = q * (2 * p) + m /\ m < 2 * p
        /\ s = [rest |-> SizeOf(m), pos |-> SizeOf(q * (2 * p)),
                peaks |-> Mountains(ls)[q * (2 * p)]]
  BY <1>1 DEF Peaked
<1> DEFINE a == (2 * q) * p
<1>3. q * (2 * p) = a /\ a \in Nat /\ 2 * q \in Nat /\ n = a + m
  <2> HIDE DEF p
  <2>1. q * (2 * p) = (2 * q) * p /\ (2 * q) * p \in Nat
    BY <1>1
  <2>2. QED
    BY <1>2, <2>1
<1>4. /\ m >= p => m - p \in Nat /\ m - p < p /\ SizeOf(m) = t + SizeOf(m - p)
      /\ m < p => SizeOf(m) + Ones(m) < t
  BY <1>1, <1>2, SizeSplit
<1>5. SizeOf(m) \in Nat /\ Ones(m) \in Nat /\ SizeOf(a) \in Nat
  BY <1>3, SizeStep, OnesEnd
<1>6. s.rest = SizeOf(m) /\ s.pos = SizeOf(a) /\ s.peaks = Mountains(ls)[a]
  BY <1>2, <1>3
<1>7. CASE m >= p
  <2> DEFINE b == LastOf(h, 2 * q)
             new == [rest |-> SizeOf(m - p), pos |-> SizeOf(b), peaks |-> Mountains(ls)[b]]
  <2>1. b = a + p /\ b = (2 * q + 1) * p /\ b <= n /\ n = b + (m - p) /\ m - p \in Nat
    <3>1. b = (2 * q + 1) * p
      BY DEF LastOf
    <3>2. (2 * q + 1) * p = a + p
      <4> HIDE DEF p
      <4>1. QED
        BY <1>1
    <3>3. m - p \in Nat
      BY <1>4, <1>7
    <3> HIDE DEF a, b, p
    <3>4. QED
      BY <1>1, <1>3, <3>1, <3>2, <3>3
  <2>2. TopAt(h, 2 * q) = SizeOf(a) + t
    BY DEF TopAt
  <2>3. es[SizeOf(a) + t] = Trees(ls)[h][b]
    BY <1>3, <2>1, <2>2 DEF TreesInPlace
  <2>4. SizeOf(b) = SizeOf(a) + t
    <3>1. TopAt(h, 2 * q + 1) = TopAt(h, 2 * q) + TreeSize(h)
      BY BlocksSideBySide
    <3>2. TopAt(h, 2 * q + 1) = SizeOf(b) + t
      BY <2>1 DEF TopAt
    <3>3. SizeOf(b) \in Nat
      <4>1. b \in Nat
        BY <1>1, <1>3, <2>1
      <4> HIDE DEF b
      <4>2. QED
        BY <4>1, SizeStep
    <3> HIDE DEF b, a, t
    <3>4. QED
      BY <1>1, <1>5, <2>2, <3>1, <3>2, <3>3 DEF t
  <2>5. Mountains(ls)[b] = Append(Mountains(ls)[a], Trees(ls)[h][b])
    BY NextMountain
  <2> HIDE DEF a, b, t
  <2>6. s.rest >= t /\ SizeOf(m) - t = SizeOf(m - p)
    <3>1. SizeOf(m) = t + SizeOf(m - p) /\ m - p \in Nat
      BY <1>4, <1>7
    <3>2. SizeOf(m - p) \in Nat
      <4> DEFINE x == m - p
      <4>1. x \in Nat
        BY <3>1
      <4> HIDE DEF x
      <4>2. SizeOf(x) \in Nat
        BY <4>1, SizeStep
      <4>3. QED
        BY <4>2 DEF x
    <3>3. QED
      BY <1>1, <1>5, <1>6, <3>1, <3>2
  <2>7. PeakStep(es, s, h) = new
    <3>1. TreeSize(h) = t
      BY DEF t
    <3>2. QED
      BY <1>6, <2>3, <2>4, <2>5, <2>6, <3>1 DEF PeakStep
  <2>8. n = (2 * q + 1) * p + (m - p) /\ m - p < p /\ m - p \in Nat /\ 2 * q + 1 \in Nat
        /\ b = (2 * q + 1) * p
    BY <1>4, <1>7, <2>1
  <2>9. PeakStep(es, s, h) = [rest |-> SizeOf(m - p), pos |-> SizeOf((2 * q + 1) * p),
                              peaks |-> Mountains(ls)[(2 * q + 1) * p]]
    BY <2>7, <2>8
  <2>10. QED
    BY <2>8, <2>9 DEF Peaked
<1>8. CASE m < p
  <2>1. ~(s.rest >= TreeSize(h))
    BY <1>1, <1>4, <1>5, <1>6, <1>8
  <2>2. PeakStep(es, s, h) = s
    BY <2>1 DEF PeakStep
  <2>3. s = [rest |-> SizeOf(m), pos |-> SizeOf((2 * q) * p),
             peaks |-> Mountains(ls)[(2 * q) * p]]
    BY <1>2, <1>3
  <2>4. n = (2 * q) * p + m
    BY <1>3
  <2>5. QED
    BY <1>3, <1>8, <2>2, <2>3, <2>4 DEF Peaked
<1>9. QED
  BY <1>1, <1>2, <1>7, <1>8

\* The peaks that GetPeaks finds are the tops of the mountains.
LEMMA PeaksAreMountains ==
  ASSUME NEW S, NEW es \in Seq(S), NEW ls, NEW n \in Nat,
         Len(es) = SizeOf(n), TreesInPlace(es, ls, n)
  PROVE  GetPeaks(es) = Mountains(ls)[n]
<1> DEFINE T == {es[i] : i \in Nat}
           l == Len(es)
           b == Bits(l)
<1>1. \A i \in Nat : es[i] \in T
  OBVIOUS
<1>2. l \in Nat /\ l = SizeOf(n)
  OBVIOUS
<1> HIDE DEF T
<1>3. PICK g : PeakRun(es, T, g)
  BY <1>1, <1>2, PeakSteps
<1>4. b \in Nat /\ n < Pow2[b] /\ Pow2[b] \in Nat
  <2>1. b \in Nat /\ l < Pow2[b] /\ Pow2[b] \in Nat
    BY <1>2, BitsIs, PowPositive
  <2>2. n <= l
    BY <1>2, SizeGrows
  <2>3. QED
    BY <1>2, <2>1, <2>2
<1> HIDE DEF l, b
<1>5. /\ g[0] = [rest |-> l, pos |-> 0, peaks |-> <<>>]
      /\ \A k \in 1..b : g[k] = PeakStep(es, g[k - 1], b - k)
      /\ GetPeaks(es) = g[b].peaks
  BY <1>3 DEF PeakRun, l, b
<1>6. \A k \in 0..b : Peaked(ls, n, b - k, g[k])
  <2> DEFINE C == {k \in Nat : k <= b /\ ~Peaked(ls, n, b - k, g[k])}
  <2>1. SUFFICES ASSUME C # {} PROVE FALSE
    BY <1>4
  <2>2. PICK k \in C : \A m \in C : k <= m
    <3>1. C \subseteq Nat
      OBVIOUS
    <3> HIDE DEF C
    <3>2. QED
      BY <2>1, <3>1, LeastNatural
  <2>3. k # 0
    <3>1. n = 0 * Pow2[b] + n /\ 0 * Pow2[b] = 0 /\ 0 \in Nat /\ b - 0 = b
      BY <1>4
    <3>2. g[0] = [rest |-> SizeOf(n), pos |-> SizeOf(0 * Pow2[b]),
                  peaks |-> Mountains(ls)[0 * Pow2[b]]]
      <4>1. Mountains(ls)[0] = <<>>
        BY MountainsIs
      <4>2. QED
        BY <1>2, <1>5, <3>1, <4>1, SizeZero
    <3>3. Peaked(ls, n, b, g[0])
      BY <1>4, <3>1, <3>2 DEF Peaked
    <3>4. QED
      BY <2>2, <3>1, <3>3
  <2> DEFINE h == b - k
  <2>4. k \in 1..b /\ k - 1 \in Nat /\ k - 1 <= b /\ ~(k <= k - 1)
        /\ h \in Nat /\ b - (k - 1) = h + 1
    BY <1>4, <2>2, <2>3
  <2>5. Peaked(ls, n, b - (k - 1), g[k - 1])
    BY <2>2, <2>4
  <2>6. g[k] = PeakStep(es, g[k - 1], h)
    BY <1>5, <2>4
  <2>7. Peaked(ls, n, h + 1, g[k - 1])
    BY <2>4, <2>5
  <2> HIDE DEF h
  <2>8. Peaked(ls, n, h, g[k])
    BY <2>4, <2>6, <2>7, PeakStepPeaked
  <2>9. QED
    BY <2>2, <2>8 DEF h
<1>7. Peaked(ls, n, 0, g[b])
  <2>1. b \in 0..b /\ b - b = 0
    BY <1>4
  <2>2. QED
    BY <1>6, <2>1
<1>8. PICK q \in Nat, m \in Nat :
        n = q * 1 + m /\ m < 1 /\ g[b].peaks = Mountains(ls)[q * 1]
  BY <1>7, Pow2Is DEF Peaked
<1>9. q * 1 = n
  BY <1>8
<1>10. QED
  BY <1>5, <1>8, <1>9


-----------------------------------------------------------------------------
(* The way up to a peak *)

\* What Climbed does with one sibling.
Up(e, hash) == IF e.IsLeft THEN <<e.Hash, hash>> ELSE <<hash, e.Hash>>

\* it gives each set of siblings where those lead.
Ways(path, leaf, S, it) ==
  it = [s \in SUBSET S |-> IF s = {} THEN <<leaf>>
                           ELSE Up(path[Max(s)], it[s \ {Max(s)}])]

\* There is such a function.
LEMMA WaysExist ==
  ASSUME NEW path, NEW leaf, NEW n \in Nat
  PROVE  \E it : Ways(path, leaf, 1..n, it)
<1> DEFINE Good(m) == \E it : Ways(path, leaf, 1..m, it)
           C == {m \in Nat : ~Good(m)}
<1>1. SUFFICES ASSUME C # {} PROVE FALSE
  <2>1. C = {} => Good(n)
    <3> HIDE DEF Good
    <3>1. QED
      OBVIOUS
  <2>2. QED
    BY <2>1
<1>2. PICK m \in C : \A k \in C : m <= k
  <2>1. C \subseteq Nat
    OBVIOUS
  <2> HIDE DEF C
  <2>2. QED
    BY <1>1, <2>1, LeastNatural
<1>3. m \in Nat /\ ~Good(m)
  BY <1>2
<1>4. CASE m = 0
  <2> DEFINE it == [s \in SUBSET (1..0) |-> <<leaf>>]
  <2>1. \A s \in SUBSET (1..0) : s = {}
    OBVIOUS
  <2>2. Ways(path, leaf, 1..0, it)
    BY <2>1 DEF Ways
  <2>3. QED
    BY <1>3, <1>4, <2>2
<1>5. CASE m # 0
  <2>1. m - 1 \in Nat /\ ~(m <= m - 1) /\ m \in 1..m
    BY <1>3, <1>5
  <2>2. PICK old : Ways(path, leaf, 1..m - 1, old)
    BY <1>2, <2>1
  <2>3. \A s \in SUBSET (1..m - 1) :
          old[s] = IF s = {} THEN <<leaf>> ELSE Up(path[Max(s)], old[s \ {Max(s)}])
    BY <2>2 DEF Ways
  <2> DEFINE it == [s \in SUBSET (1..m) |-> IF m \in s THEN Up(path[m], old[s \ {m}])
                                            ELSE old[s]]
  <2>4. ASSUME NEW s \in SUBSET (1..m)
        PROVE  /\ s \ {m} \in SUBSET (1..m - 1)
               /\ m \notin s => s \in SUBSET (1..m - 1)
    BY <1>3
  <2>5. \A s \in SUBSET (1..m) :
          it[s] = IF m \in s THEN Up(path[m], old[s \ {m}]) ELSE old[s]
    OBVIOUS
  <2>6. it = [s \in SUBSET (1..m) |-> it[s]]
    OBVIOUS
  <2> HIDE DEF it
  <2>7. ASSUME NEW s \in SUBSET (1..m)
        PROVE  it[s] = IF s = {} THEN <<leaf>> ELSE Up(path[Max(s)], it[s \ {Max(s)}])
    <3>1. CASE s = {}
      <4>1. s \in SUBSET (1..m - 1) /\ m \notin s
        BY <3>1
      <4>2. QED
        BY <2>3, <2>5, <3>1, <4>1
    <3>2. CASE s # {} /\ m \in s
      <4>1. \A l \in s : l <= m
        BY <1>3
      <4>2. Max(s) = m
        BY <1>3, <3>2, <4>1, LargestIndex
      <4> DEFINE r == s \ {m}
      <4>3. r \in SUBSET (1..m) /\ m \notin r
        OBVIOUS
      <4> HIDE DEF r
      <4>4. it[r] = old[r]
        BY <2>5, <4>3
      <4>5. it[s] = Up(path[m], old[r])
        BY <2>5, <3>2 DEF r
      <4>6. QED
        BY <3>2, <4>2, <4>4, <4>5 DEF r
    <3>3. CASE s # {} /\ m \notin s
      <4>1. s \in SUBSET (1..m - 1)
        BY <2>4, <3>3
      <4> DEFINE r == s \ {Max(s)}
      <4>2. r \in SUBSET (1..m) /\ m \notin r
        BY <3>3
      <4>3. old[s] = Up(path[Max(s)], old[r])
        BY <2>3, <3>3, <4>1
      <4> HIDE DEF r
      <4>4. it[r] = old[r] /\ it[s] = old[s]
        BY <2>5, <3>3, <4>2
      <4>5. QED
        BY <3>3, <4>3, <4>4 DEF r
    <3>4. QED
      BY <3>1, <3>2, <3>3
  <2>8. Ways(path, leaf, 1..m, it)
    <3> DEFINE f == [s \in SUBSET (1..m) |->
                       IF s = {} THEN <<leaf>> ELSE Up(path[Max(s)], it[s \ {Max(s)}])]
    <3>1. \A s \in SUBSET (1..m) : f[s] = it[s]
      BY <2>7
    <3>2. f = [s \in SUBSET (1..m) |-> f[s]]
      OBVIOUS
    <3> HIDE DEF f
    <3>3. f = it
      BY <2>6, <3>1, <3>2
    <3>4. QED
      BY <3>3 DEF Ways, f
  <2>9. QED
    BY <1>3, <2>8
<1>6. QED
  BY <1>4, <1>5

\* g gives where the first siblings of a path lead.
Way(path, leaf, n, g) ==
  /\ g[0] = <<leaf>>
  /\ \A k \in 1..n : g[k] = Up(path[k], g[k - 1])
  /\ Climbed(path, leaf) = g[n]

\* There is such a function.
LEMMA WayExists ==
  ASSUME NEW path, NEW leaf, NEW n \in Nat, DOMAIN path = 1..n
  PROVE  \E g : Way(path, leaf, n, g)
<1> DEFINE Is(f) == f = [s \in SUBSET DOMAIN path |->
                           IF s = {} THEN <<leaf>>
                           ELSE Up(path[Max(s)], f[s \ {Max(s)}])]
           F == CHOOSE f : Is(f)
<1>1. PICK it : Ways(path, leaf, 1..n, it)
  BY WaysExist
<1>2. Is(it)
  BY <1>1 DEF Ways
<1>3. Is(F)
  BY <1>2
<1>4. Climbed(path, leaf) = F[DOMAIN path]
  BY DEF Climbed, FoldLeft, MapThenFoldSet, Up
<1> HIDE DEF F
<1>5. F[1..0] = <<leaf>>
  <2>1. 1..0 = {} /\ {} \in SUBSET DOMAIN path
    OBVIOUS
  <2>2. QED
    BY <1>3, <2>1
<1>6. ASSUME NEW k \in 1..n PROVE F[1..k] = Up(path[k], F[1..(k - 1)])
  <2>1. /\ 1..k \in SUBSET (1..n) /\ 1..k # {}
        /\ Max(1..k) = k /\ (1..k) \ {k} = 1..(k - 1)
    BY LastIndex
  <2>2. F[1..k] = Up(path[Max(1..k)], F[(1..k) \ {Max(1..k)}])
    BY <1>3, <2>1
  <2>3. QED
    BY <2>1, <2>2
<1> DEFINE g == [k \in 0..n |-> F[1..k]]
<1>7. \A k \in 0..n : g[k] = F[1..k]
  OBVIOUS
<1>8. 0 \in 0..n /\ n \in 0..n /\ \A k \in 1..n : k \in 0..n /\ k - 1 \in 0..n
  OBVIOUS
<1> HIDE DEF g
<1>9. g[0] = <<leaf>> /\ g[n] = F[DOMAIN path]
  BY <1>5, <1>7, <1>8
<1>10. \A k \in 1..n : g[k] = Up(path[k], g[k - 1])
  BY <1>6, <1>7, <1>8
<1>11. QED
  BY <1>4, <1>9, <1>10 DEF Way

\* Without siblings the hash stays that of the leaf; one sibling more leads one
\* step further.
LEMMA ClimbedIs ==
  ASSUME NEW E, NEW path \in Seq(E), NEW leaf, NEW e \in E
  PROVE  /\ Climbed(<<>>, leaf) = <<leaf>>
         /\ Climbed(Append(path, e), leaf) = Up(e, Climbed(path, leaf))
<1>1. Climbed(<<>>, leaf) = <<leaf>>
  <2>1. DOMAIN <<>> = 1..0 /\ 0 \in Nat
    OBVIOUS
  <2>2. PICK g : Way(<<>>, leaf, 0, g)
    BY <2>1, WayExists
  <2>3. QED
    BY <2>2 DEF Way
<1> DEFINE n == Len(path)
           more == Append(path, e)
<1>2. n \in Nat /\ DOMAIN path = 1..n
  OBVIOUS
<1>3. /\ DOMAIN more = 1..n + 1 /\ n + 1 \in Nat
      /\ more[n + 1] = e /\ \A k \in 1..n : more[k] = path[k]
  OBVIOUS
<1> HIDE DEF n, more
<1>4. PICK g : Way(path, leaf, n, g)
  BY <1>2, WayExists
<1>5. PICK f : Way(more, leaf, n + 1, f)
  BY <1>3, WayExists
<1>6. \A k \in 0..n : f[k] = g[k]
  <2> DEFINE C == {k \in Nat : k <= n /\ f[k] # g[k]}
  <2>1. SUFFICES ASSUME C # {} PROVE FALSE
    BY <1>2
  <2>2. PICK k \in C : \A m \in C : k <= m
    <3>1. C \subseteq Nat
      OBVIOUS
    <3> HIDE DEF C
    <3>2. QED
      BY <2>1, <3>1, LeastNatural
  <2>3. k # 0
    BY <1>4, <1>5, <2>2 DEF Way
  <2>4. k \in 1..n /\ k \in 1..n + 1 /\ k - 1 \in Nat /\ k - 1 <= n /\ ~(k <= k - 1)
    BY <1>2, <2>2, <2>3
  <2>5. f[k - 1] = g[k - 1]
    BY <2>2, <2>4
  <2>6. f[k] = Up(more[k], f[k - 1]) /\ g[k] = Up(path[k], g[k - 1])
    BY <1>4, <1>5, <2>4 DEF Way
  <2>7. f[k] = g[k]
    BY <1>3, <2>4, <2>5, <2>6
  <2>8. QED
    BY <2>2, <2>7
<1>7. f[n] = g[n] /\ n + 1 \in 1..n + 1 /\ (n + 1) - 1 = n
  BY <1>2, <1>6
<1>8. f[n + 1] = Up(more[n + 1], f[n])
  BY <1>5, <1>7 DEF Way
<1>9. Climbed(more, leaf) = f[n + 1] /\ Climbed(path, leaf) = g[n]
  BY <1>4, <1>5 DEF Way
<1>10. QED
  BY <1>1, <1>3, <1>7, <1>8, <1>9 DEF more

\* A path and one more step of it.
PathOver(T, path, e) ==
  LET E == [Hash : T, IsLeft : BOOLEAN] IN path \in Seq(E) /\ e \in E

\* The step more is the last one up.
LEMMA PathGrows ==
  ASSUME NEW T, NEW path, NEW e, NEW leaf, PathOver(T, path, e)
  PROVE  Climbed(Append(path, e), leaf) = Up(e, Climbed(path, leaf))
<1> DEFINE E == [Hash : T, IsLeft : BOOLEAN]
<1>1. path \in Seq(E) /\ e \in E
  BY DEF PathOver
<1> HIDE DEF E
<1>2. QED
  BY <1>1, ClimbedIs

\* Which blocks are whole tells whether the tops of their trees are there.
LEMMA TopInRange ==
  ASSUME NEW h \in Nat, NEW c \in Nat, NEW n \in Nat
  PROVE  /\ LastOf(h, c) <= n => TopAt(h, c) <= SizeOf(n)
         /\ ~(LastOf(h, c) <= n) => SizeOf(n) + (h + 1) <= TopAt(h, c)
<1> DEFINE j == LastOf(h, c)
           m == j - 1
<1>1. /\ j \in Nat /\ m \in Nat /\ m + 1 = j
      /\ TopAt(h, c) = SizeOf(m) + (h + 1)
      /\ h <= Ones(m) /\ Ones(m) \in Nat
  <2>1. /\ j \in Nat /\ j - 1 \in Nat
        /\ TopAt(h, c) = SizeOf(j - 1) + (h + 1)
        /\ h <= Ones(j - 1) /\ Ones(j - 1) \in Nat
    BY BlockIs
  <2>2. QED
    BY <2>1
<1> HIDE DEF j, m
<1>2. SizeOf(m + 1) = SizeOf(m) + (1 + Ones(m)) /\ SizeOf(m) \in Nat /\ SizeOf(n) \in Nat
  BY <1>1, SizeStep
<1>3. ASSUME j <= n PROVE TopAt(h, c) <= SizeOf(n)
  <2>1. SizeOf(j) <= SizeOf(n)
    BY <1>1, <1>3, SizeGrows
  <2>2. SizeOf(j) = SizeOf(m) + (1 + Ones(m))
    BY <1>1, <1>2
  <2>3. QED
    BY <1>1, <1>2, <2>1, <2>2
<1>4. ASSUME ~(j <= n) PROVE SizeOf(n) + (h + 1) <= TopAt(h, c)
  <2>1. n <= m
    BY <1>1, <1>4
  <2>2. SizeOf(n) <= SizeOf(m)
    BY <1>1, <2>1, SizeGrows
  <2>3. QED
    BY <1>1, <1>2, <2>2
<1>5. QED
  BY <1>3, <1>4 DEF j

\* The bitmap of the elements before a top tells its height; the element before
\* the trees of an even block is higher.
LEMMA HeightsAt ==
  ASSUME NEW h \in Nat
  PROVE  /\ \A c \in Nat : /\ TopAt(h, c) - 1 \in Nat
                          /\ HeightBitmapForMMRSize(TopAt(h, c) - 1).rest = h
         /\ \A d \in Nat :
              LET prev == TopAt(h, 2 * d) - 1 - TreeSize(h)
              IN  /\ prev \in Int
                  /\ ~(prev >= 0 /\ HeightBitmapForMMRSize(prev).rest = h)
<1>1. ASSUME NEW c \in Nat
      PROVE  /\ TopAt(h, c) - 1 \in Nat
             /\ HeightBitmapForMMRSize(TopAt(h, c) - 1).rest = h
  <2> DEFINE m == LastOf(h, c) - 1
  <2>1. /\ m \in Nat /\ TopAt(h, c) = SizeOf(m) + (h + 1)
        /\ h <= Ones(m) /\ Ones(m) \in Nat
    BY BlockIs
  <2> HIDE DEF m
  <2>2. SizeOf(m) \in Nat /\ h \in 0..Ones(m)
    BY <2>1, SizeStep
  <2>3. TopAt(h, c) - 1 = SizeOf(m) + h /\ SizeOf(m) + h \in Nat
    BY <2>1, <2>2
  <2>4. HeightBitmapForMMRSize(SizeOf(m) + h) = [peaks |-> m, rest |-> h]
    BY <2>1, <2>2, BitmapIs
  <2>5. QED
    BY <2>3, <2>4
<1>2. ASSUME NEW d \in Nat
      PROVE  LET prev == TopAt(h, 2 * d) - 1 - TreeSize(h)
             IN  /\ prev \in Int
                 /\ ~(prev >= 0 /\ HeightBitmapForMMRSize(prev).rest = h)
  <2> DEFINE prev == TopAt(h, 2 * d) - 1 - TreeSize(h)
             p == Pow2[h]
             a == (2 * d) * p
  <2>1. p \in Nat /\ p >= 1 /\ TreeSize(h) \in Nat /\ a \in Nat
    <3>1. p \in Nat /\ p >= 1 /\ TreeSize(h) \in Nat
      BY PowPositive, TreeSizeIs
    <3> HIDE DEF p
    <3>2. QED
      BY <3>1
  <2>2. TopAt(h, 2 * d) = SizeOf(a) + TreeSize(h)
    BY DEF TopAt
  <2> HIDE DEF a
  <2>3. SizeOf(a) \in Nat
    BY <2>1, SizeStep
  <2>4. prev = SizeOf(a) - 1
    <3> DEFINE t == TreeSize(h)
    <3>1. t \in Nat /\ prev = (SizeOf(a) + t) - 1 - t
      BY <2>1, <2>2
    <3> HIDE DEF t, prev
    <3>2. QED
      BY <2>3, <3>1
  <2>5. CASE d = 0
    <3>1. a = 0
      BY <2>1, <2>5 DEF a
    <3>2. prev = -1
      BY <2>4, <3>1, SizeZero
    <3> HIDE DEF prev
    <3>3. prev \in Int /\ ~(prev >= 0)
      BY <3>2
    <3>4. QED
      BY <3>3 DEF prev
  <2>6. CASE d # 0
    <3> DEFINE e == d - 1
               m == a - 1
    <3>1. e \in Nat /\ e + 1 = d /\ h + 1 \in Nat
      BY <2>6
    <3>2. LastOf(h + 1, e) = a
      <4>1. LastOf(h + 1, e) = d * (2 * p)
        BY <3>1, Pow2Is DEF LastOf
      <4> HIDE DEF p
      <4>2. QED
        BY <2>1, <4>1 DEF a
    <3> HIDE DEF e
    <3>3. m \in Nat /\ h + 1 <= Ones(m) /\ Ones(m) \in Nat
      BY <3>1, <3>2, BlockIs
    <3>4. m + 1 = a
      BY <2>1
    <3> HIDE DEF m
    <3>5. SizeOf(m + 1) = SizeOf(m) + (1 + Ones(m)) /\ SizeOf(m) \in Nat
      BY <3>3, SizeStep
    <3>6. prev = SizeOf(m) + Ones(m)
      BY <2>4, <3>3, <3>4, <3>5
    <3>7. Ones(m) \in 0..Ones(m)
      BY <3>3
    <3>8. HeightBitmapForMMRSize(SizeOf(m) + Ones(m)) = [peaks |-> m, rest |-> Ones(m)]
      BY <3>3, <3>7, BitmapIs
    <3> HIDE DEF prev
    <3>9. prev \in Int /\ HeightBitmapForMMRSize(prev).rest # h
      BY <3>3, <3>5, <3>6, <3>8
    <3>10. QED
      BY <3>9 DEF prev
  <2>7. QED
    BY <2>5, <2>6
<1>3. QED
  BY <1>1, <1>2

\* What the loop of GetSubtreeProofElm keeps.
ClimbState(T) ==
  [index : Nat, inTree : BOOLEAN, path : Seq([Hash : T, IsLeft : BOOLEAN])]

\* One iteration of it.
ClimbStep(es, s, h) ==
  LET prev == s.index - TreeSize(h)
  IN  IF ~s.inTree THEN s
      ELSE IF prev >= 0 /\ HeightBitmapForMMRSize(prev).rest = h
      THEN [s EXCEPT !.index = @ + 1,
                     !.path = Append(@, [Hash |-> es[prev + 1], IsLeft |-> TRUE])]
      ELSE addRightElm(es, s, h)

\* An iteration keeps the types.
LEMMA ClimbStepType ==
  ASSUME NEW es, NEW T, \A i \in Nat : es[i] \in T,
         NEW s \in ClimbState(T), NEW h \in Nat
  PROVE  ClimbStep(es, s, h) \in ClimbState(T)
<1> DEFINE t == TreeSize(h)
           prev == s.index - t
           next == s.index + t
           E == [Hash : T, IsLeft : BOOLEAN]
           left == [Hash |-> es[prev + 1], IsLeft |-> TRUE]
           right == [Hash |-> es[next + 1], IsLeft |-> FALSE]
<1>1. t \in Nat /\ s.index \in Nat /\ s.inTree \in BOOLEAN /\ s.path \in Seq(E)
  BY TreeSizeIs DEF ClimbState
<1> HIDE DEF t
<1>2. /\ next \in Nat /\ next + 1 \in Nat /\ s.index + 1 \in Nat
      /\ prev >= 0 => prev + 1 \in Nat
  BY <1>1
<1>3. right \in E /\ (prev >= 0 => left \in E)
  BY <1>2
<1> HIDE DEF E, left, right, next, prev
<1>4. Append(s.path, right) \in Seq(E) /\ (prev >= 0 => Append(s.path, left) \in Seq(E))
  BY <1>1, <1>3
<1>5. addRightElm(es, s, h) \in ClimbState(T)
  <2>1. addRightElm(es, s, h) =
          IF next < Len(es) - 1
          THEN [index |-> next + 1, inTree |-> TRUE, path |-> Append(s.path, right)]
          ELSE [s EXCEPT !.inTree = FALSE]
    BY DEF addRightElm, next, right, t
  <2>2. [index |-> next + 1, inTree |-> TRUE, path |-> Append(s.path, right)]
          \in ClimbState(T)
    BY <1>2, <1>4 DEF ClimbState, E
  <2>3. [s EXCEPT !.inTree = FALSE] \in ClimbState(T)
    BY DEF ClimbState
  <2>4. QED
    BY <2>1, <2>2, <2>3
<1>6. prev >= 0 => [s EXCEPT !.index = @ + 1, !.path = Append(@, left)] \in ClimbState(T)
  BY <1>2, <1>4 DEF ClimbState, E
<1>7. ClimbStep(es, s, h) =
        IF ~s.inTree THEN s
        ELSE IF prev >= 0 /\ HeightBitmapForMMRSize(prev).rest = h
        THEN [s EXCEPT !.index = @ + 1, !.path = Append(@, left)]
        ELSE addRightElm(es, s, h)
  BY DEF ClimbStep, prev, left, t
<1>8. QED
  BY <1>5, <1>6, <1>7

\* g gives what the loop comes to after each iteration.
ClimbRun(es, index, T, g) ==
  LET b == Bits(Len(es))
  IN  /\ g[0] = [index |-> index, inTree |-> TRUE, path |-> <<>>]
      /\ \A k \in 1..b + 1 : /\ g[k - 1] \in ClimbState(T)
                             /\ g[k] = ClimbStep(es, g[k - 1], k - 1)
      /\ GetSubtreeProofElm(es, index) = g[b + 1]

\* There is such a function.
LEMMA ClimbSteps ==
  ASSUME NEW es, Len(es) \in Nat, NEW index \in Nat, NEW T, \A i \in Nat : es[i] \in T
  PROVE  \E g : ClimbRun(es, index, T, g)
<1> DEFINE St == ClimbState(T)
           b == Bits(Len(es))
           r == b + 1
           up == Heights(Len(es))
           hs == Reverse(up) \o <<Len(up)>>
           base == [index |-> index, inTree |-> TRUE, path |-> <<>>]
           step == [x \in St \X (1..r) |-> ClimbStep(es, x[1], hs[x[2]])]
<1>1. b \in Nat /\ up = [i \in 1..b |-> b - i] /\ r \in Nat
  BY BitsIs, SMTT(30)
<1> HIDE DEF b, up
<1>2. DOMAIN hs = 1..r /\ \A k \in 1..r : hs[k] = k - 1 /\ hs[k] \in Nat
  <2>1. up \in Seq(Int) /\ Len(up) = b /\ \A i \in 1..b : up[i] = b - i
    BY <1>1
  <2>2. Reverse(up) = [i \in 1..b |-> up[(b - i) + 1]]
    BY <2>1 DEF Reverse
  <2>3. \A i \in 1..b : up[(b - i) + 1] = i - 1 /\ i - 1 \in Int
    <3>1. ASSUME NEW i \in 1..b PROVE up[(b - i) + 1] = i - 1 /\ i - 1 \in Int
      <4>1. (b - i) + 1 \in 1..b /\ b - ((b - i) + 1) = i - 1
        BY <1>1
      <4>2. QED
        BY <2>1, <4>1
    <3>2. QED
      BY <3>1
  <2> DEFINE rev == Reverse(up)
  <2>4. rev = [i \in 1..b |-> i - 1]
    BY <2>2, <2>3
  <2> HIDE DEF rev
  <2>5. rev \in Seq(Int) /\ Len(rev) = b /\ \A i \in 1..b : rev[i] = i - 1
    BY <1>1, <2>4
  <2>6. hs = Append(rev, b)
    BY <1>1, <2>1, <2>5 DEF rev
  <2>7. DOMAIN hs = 1..r /\ hs[r] = b /\ \A k \in 1..b : hs[k] = k - 1
    <3>1. /\ DOMAIN Append(rev, b) = 1..Len(rev) + 1
          /\ Append(rev, b)[Len(rev) + 1] = b
          /\ \A k \in 1..Len(rev) : Append(rev, b)[k] = rev[k]
      BY <1>1, <2>5
    <3>2. QED
      BY <2>5, <2>6, <3>1
  <2> HIDE DEF hs
  <2>8. \A k \in 1..r : k \in 1..b \/ k = r
    BY <1>1
  <2>9. QED
    BY <1>1, <2>7, <2>8
<1>3. base \in St
  <2>1. <<>> \in Seq([Hash : T, IsLeft : BOOLEAN])
    OBVIOUS
  <2>2. QED
    BY <2>1 DEF ClimbState
<1> HIDE DEF hs, base, St, r
<1>4. \A x \in St, k \in 1..r : step[<<x, k>>] = ClimbStep(es, x, hs[k])
  OBVIOUS
<1>5. \A x \in St, h \in Nat : ClimbStep(es, x, h) \in St
  BY ClimbStepType DEF St
<1>6. \A x \in St, k \in 1..r : step[<<x, k>>] \in St
  BY <1>2, <1>4, <1>5
<1> HIDE DEF step
<1>7. PICK it \in [SUBSET (1..r) -> St] : Folds(base, step, 1..r, it)
  BY <1>1, <1>3, <1>6, FoldsExist
<1> DEFINE Is(f) == f = [s \in SUBSET DOMAIN hs |->
                           IF s = {} THEN base
                           ELSE ClimbStep(es, f[s \ {Max(s)}], hs[Max(s)])]
           F == CHOOSE f : Is(f)
<1>8. Is(it)
  <2>1. \A s \in SUBSET (1..r) :
          s # {} => /\ Max(s) \in 1..r /\ it[s \ {Max(s)}] \in St
    <3>1. SUFFICES ASSUME NEW s \in SUBSET (1..r), s # {}
                   PROVE  Max(s) \in 1..r /\ it[s \ {Max(s)}] \in St
      OBVIOUS
    <3>2. Max(s) \in s
      BY <1>1, <3>1, LargestIndex
    <3>3. QED
      BY <1>7, <3>2
  <2>2. QED
    BY <1>2, <1>4, <1>7, <2>1, ZenonT(60) DEF Folds
<1>9. Is(F)
  BY <1>8
<1>10. GetSubtreeProofElm(es, index) = F[DOMAIN hs]
  BY DEF GetSubtreeProofElm, FoldLeft, MapThenFoldSet, ClimbStep, hs, up, base
<1> HIDE DEF F
<1>11. F[1..0] = base
  <2>1. 1..0 = {} /\ {} \in SUBSET DOMAIN hs
    OBVIOUS
  <2>2. QED
    BY <1>9, <2>1
<1>12. ASSUME NEW k \in 1..r PROVE F[1..k] = ClimbStep(es, F[1..(k - 1)], k - 1)
  <2>1. /\ 1..k \in SUBSET (1..r) /\ 1..k # {}
        /\ Max(1..k) = k /\ (1..k) \ {k} = 1..(k - 1)
    BY <1>1, LastIndex
  <2>2. F[1..k] = ClimbStep(es, F[(1..k) \ {Max(1..k)}], hs[Max(1..k)])
    BY <1>2, <1>9, <2>1
  <2>3. QED
    BY <1>2, <2>1, <2>2
<1>13. \A k \in 0..r : F[1..k] \in St
  <2> DEFINE C == {k \in Nat : k <= r /\ F[1..k] \notin St}
  <2>1. SUFFICES ASSUME C # {} PROVE FALSE
    BY <1>1
  <2>2. PICK k \in C : \A l \in C : k <= l
    <3>1. C \subseteq Nat
      OBVIOUS
    <3> HIDE DEF C
    <3>2. QED
      BY <2>1, <3>1, LeastNatural
  <2>3. k # 0
    BY <1>3, <1>11, <2>2
  <2>4. k \in 1..r /\ k - 1 \in Nat /\ k - 1 <= r /\ ~(k <= k - 1)
    BY <1>1, <2>2, <2>3
  <2>5. F[1..(k - 1)] \in St
    BY <2>2, <2>4
  <2>6. F[1..k] \in St
    BY <1>5, <1>12, <2>4, <2>5
  <2>7. QED
    BY <2>2, <2>6
<1> DEFINE g == [k \in 0..r |-> F[1..k]]
<1>14. \A k \in 1..r : k \in 0..r /\ k - 1 \in 0..r
  BY <1>1
<1>15. \A k \in 0..r : g[k] = F[1..k] /\ g[k] \in St
  BY <1>13
<1> HIDE DEF g
<1>16. 0 \in 0..r /\ r \in 0..r
  BY <1>1
<1>17. g[0] = base /\ g[r] = F[DOMAIN hs]
  BY <1>2, <1>11, <1>15, <1>16
<1>18. \A k \in 1..r : g[k - 1] \in St /\ g[k] = ClimbStep(es, g[k - 1], k - 1)
  BY <1>12, <1>14, <1>15
<1>19. QED
  BY <1>10, <1>17, <1>18 DEF ClimbRun, St, base, b, r

\* The leaves with another one in the i-th place.
Other(ls, i, leaf) == [ls EXCEPT ![i] = leaf]

\* The i-th leaf is in a block.
Holds(h, c, i) == LastOf(h, c) - Pow2[h] < i /\ i <= LastOf(h, c)

\* The path leads from a leaf in the i-th place to the top of its tree.
Leads(ls, i, leaf, h, c, path) ==
  Climbed(path, leaf) = Trees(Other(ls, i, leaf))[h][LastOf(h, c)]

\* The climb has come to the top of the tree of height h.
OnTheWay(ls, i, leaf, h, s) ==
  \E c \in Nat : /\ LastOf(h, c) <= Len(ls) /\ Holds(h, c, i)
                 /\ s.inTree /\ s.index = TopAt(h, c) - 1
                 /\ Leads(ls, i, leaf, h, c, s.path)

\* An even block that is whole while the next one is not: a mountain.
Mountain(n, h, d) == LastOf(h, 2 * d) <= n /\ n < LastOf(h, 2 * d) + Pow2[h]

\* The climb has ended at the top of a mountain.
AtPeak(ls, i, leaf, s) ==
  \E h \in Nat, d \in Nat : /\ Mountain(Len(ls), h, d) /\ Holds(h, 2 * d, i)
                            /\ ~s.inTree
                            /\ Leads(ls, i, leaf, h, 2 * d, s.path)

\* A block that does not hold the leaf has the tree of the range's own leaves.
LEMMA SiblingSame ==
  ASSUME NEW L, NEW ls \in Seq(L), NEW i \in 1..Len(ls), NEW leaf,
         NEW h \in Nat, NEW c \in Nat, LastOf(h, c) <= Len(ls), ~Holds(h, c, i)
  PROVE  Trees(ls)[h][LastOf(h, c)] = Trees(Other(ls, i, leaf))[h][LastOf(h, c)]
<1> DEFINE j == LastOf(h, c)
           more == Other(ls, i, leaf)
<1>1. j \in Nat /\ Pow2[h] <= j /\ Pow2[h] \in Nat /\ j <= Len(ls)
  BY BlockIs, PowPositive
<1>2. ASSUME NEW x \in Int, j - Pow2[h] < x, x <= j PROVE ls[x] = more[x]
  <2>1. x # i
    BY <1>2 DEF Holds
  <2>2. x \in DOMAIN ls
    <3> HIDE DEF j
    <3>1. x \in 1..Len(ls)
      BY <1>1, <1>2
    <3>2. QED
      BY <3>1
  <2>3. QED
    BY <2>1, <2>2 DEF Other
<1> HIDE DEF j, more
<1>3. SameLeaves(ls, more, h, j)
  BY <1>2 DEF SameLeaves
<1>4. j \in Int
  BY <1>1
<1>5. QED
  BY <1>3, <1>4, TreesSame, ZenonT(60) DEF j, more

\* An odd block: the sibling is on the left.
LEMMA ClimbLeft ==
  ASSUME NEW L, NEW ls \in Seq(L), NEW i \in 1..Len(ls), NEW leaf,
         NEW es, TreesInPlace(es, ls, Len(ls)),
         NEW T, \A x \in Nat : es[x] \in T, NEW s \in ClimbState(T),
         NEW h \in Nat, NEW d \in Nat, LET c == 2 * d + 1 IN
           /\ LastOf(h, c) <= Len(ls) /\ Holds(h, c, i)
           /\ s.inTree /\ s.index = TopAt(h, c) - 1
           /\ Leads(ls, i, leaf, h, c, s.path)
  PROVE  OnTheWay(ls, i, leaf, h + 1, ClimbStep(es, s, h))
<1> DEFINE n == Len(ls)
           b == LastOf(h, 2 * d)
           c == LastOf(h, 2 * d + 1)
           u == TopAt(h, 2 * d)
           v == TopAt(h, 2 * d + 1)
           t == TreeSize(h)
           p == Pow2[h]
           more == Other(ls, i, leaf)
<1>1. /\ v = u + t /\ TopAt(h + 1, d) = v + 1
      /\ LastOf(h + 1, d) = c /\ c = b + p
  BY BlocksSideBySide
<1>2. /\ b \in Nat /\ c \in Nat /\ p \in Nat /\ p >= 1 /\ n \in Nat /\ t \in Nat
      /\ u \in Nat /\ u - 1 \in Nat /\ h + 1 \in Nat /\ Pow2[h + 1] = 2 * p /\ i \in Nat
  <2>1. 2 * d \in Nat /\ 2 * d + 1 \in Nat
    OBVIOUS
  <2>2. /\ b \in Nat /\ c \in Nat /\ u \in Nat
    BY <2>1, BlockIs
  <2>3. QED
    BY <2>1, <2>2, PowPositive, Pow2Is, HeightsAt, TreeSizeIs
<1>3. c <= n /\ c - p < i /\ i <= c /\ s.inTree /\ s.index = v - 1
  BY DEF Holds
<1>4. Climbed(s.path, leaf) = Trees(more)[h][c]
  BY DEF Leads
<1>5. HeightBitmapForMMRSize(u - 1).rest = h
  <2>1. 2 * d \in Nat
    OBVIOUS
  <2>2. QED
    BY <2>1, HeightsAt
<1>6. es[u] = Trees(more)[h][b]
  <2>1. 2 * d \in Nat
    OBVIOUS
  <2>2. b <= n
    <3> HIDE DEF b, c, p, n
    <3>1. QED
      BY <1>1, <1>2, <1>3
  <2>3. es[u] = Trees(ls)[h][b]
    BY <2>1, <2>2 DEF TreesInPlace
  <2>4. ~Holds(h, 2 * d, i)
    <3>1. Holds(h, 2 * d, i) => i <= b
      BY DEF Holds
    <3> HIDE DEF b, c, p, n
    <3>2. ~(i <= b)
      BY <1>1, <1>2, <1>3
    <3>3. QED
      BY <3>1, <3>2
  <2>5. Trees(ls)[h][b] = Trees(more)[h][b]
    BY <2>1, <2>2, <2>4, SiblingSame
  <2>6. QED
    BY <2>3, <2>5
<1> DEFINE e == [Hash |-> es[u], IsLeft |-> TRUE]
           new == ClimbStep(es, s, h)
<1>7. PathOver(T, s.path, e)
  BY <1>2 DEF ClimbState, PathOver
<1> HIDE DEF b, c, u, v, t, p, more, n
<1>8. /\ new.index = (v - 1) + 1 /\ new.inTree = s.inTree
      /\ new.path = Append(s.path, e)
  <2>1. s.index - t = u - 1 /\ u - 1 >= 0 /\ (u - 1) + 1 = u
    BY <1>1, <1>2, <1>3
  <2>2. TreeSize(h) = t
    BY DEF t
  <2>3. new = [s EXCEPT !.index = @ + 1, !.path = Append(@, e)]
    BY <1>3, <1>5, <2>1, <2>2 DEF ClimbStep
  <2>4. QED
    BY <1>3, <2>3 DEF ClimbState
<1>9. new.inTree /\ new.index = TopAt(h + 1, d) - 1
  BY <1>1, <1>2, <1>3, <1>8
<1>10. Climbed(new.path, leaf) = <<es[u], Climbed(s.path, leaf)>>
  <2>1. Climbed(Append(s.path, e), leaf) = Up(e, Climbed(s.path, leaf))
    BY <1>7, PathGrows
  <2>2. QED
    BY <1>8, <2>1 DEF Up
<1>11. Trees(more)[h + 1][c] = <<Trees(more)[h][b], Trees(more)[h][c]>>
  <2>1. c \in Int /\ c - p = b
    BY <1>1, <1>2
  <2>2. Trees(more)[h + 1][c] = <<Trees(more)[h][c - Pow2[h]], Trees(more)[h][c]>>
    BY <2>1, TreesIs
  <2>3. QED
    BY <2>1, <2>2 DEF p
<1>12. Leads(ls, i, leaf, h + 1, d, new.path)
  BY <1>1, <1>4, <1>6, <1>10, <1>11 DEF Leads, more
<1>13. LastOf(h + 1, d) <= Len(ls) /\ Holds(h + 1, d, i)
  BY <1>1, <1>2, <1>3 DEF Holds, n
<1>14. QED
  BY <1>9, <1>12, <1>13 DEF OnTheWay

\* An even block: the sibling is on the right, or the block is a mountain.
LEMMA ClimbRight ==
  ASSUME NEW L, NEW ls \in Seq(L), NEW i \in 1..Len(ls), NEW leaf,
         NEW es, TreesInPlace(es, ls, Len(ls)), Len(es) = SizeOf(Len(ls)),
         NEW T, \A x \in Nat : es[x] \in T, NEW s \in ClimbState(T),
         NEW h \in Nat, NEW d \in Nat, LET c == 2 * d IN
           /\ LastOf(h, c) <= Len(ls) /\ Holds(h, c, i)
           /\ s.inTree /\ s.index = TopAt(h, c) - 1
           /\ Leads(ls, i, leaf, h, c, s.path)
  PROVE  \/ OnTheWay(ls, i, leaf, h + 1, ClimbStep(es, s, h))
         \/ AtPeak(ls, i, leaf, ClimbStep(es, s, h))
<1> DEFINE n == Len(ls)
           l == Len(es)
           b == LastOf(h, 2 * d)
           c == LastOf(h, 2 * d + 1)
           u == TopAt(h, 2 * d)
           v == TopAt(h, 2 * d + 1)
           t == TreeSize(h)
           p == Pow2[h]
           more == Other(ls, i, leaf)
           e == [Hash |-> es[v], IsLeft |-> FALSE]
           new == ClimbStep(es, s, h)
<1>1. /\ v = u + t /\ TopAt(h + 1, d) = v + 1
      /\ LastOf(h + 1, d) = c /\ c = b + p
  BY BlocksSideBySide
<1>2. /\ b \in Nat /\ c \in Nat /\ p \in Nat /\ p >= 1 /\ n \in Nat /\ t \in Nat
      /\ u \in Nat /\ u - 1 \in Nat /\ h + 1 \in Nat /\ Pow2[h + 1] = 2 * p /\ i \in Nat
      /\ SizeOf(n) \in Nat /\ l = SizeOf(n)
  <2>1. 2 * d \in Nat /\ 2 * d + 1 \in Nat /\ n \in Nat /\ i \in Nat /\ h + 1 \in Nat
    OBVIOUS
  <2>2. /\ b \in Nat /\ c \in Nat /\ u \in Nat
    BY <2>1, BlockIs
  <2>3. SizeOf(n) \in Nat /\ l = SizeOf(n)
    BY <2>1, SizeStep
  <2>4. p \in Nat /\ p >= 1 /\ Pow2[h + 1] = 2 * p
    BY PowPositive, Pow2Is
  <2>5. t \in Nat
    BY TreeSizeIs
  <2>6. u - 1 \in Nat
    BY <2>1, HeightsAt
  <2> HIDE DEF b, c, u, n, l, p, t
  <2>7. QED
    BY <2>1, <2>2, <2>3, <2>4, <2>5, <2>6
<1>3. b <= n /\ b - p < i /\ i <= b /\ s.inTree /\ s.index = u - 1
  BY DEF Holds
<1>4. Climbed(s.path, leaf) = Trees(more)[h][b]
  BY DEF Leads
<1>5. new = addRightElm(es, s, h)
  <2>1. ~(u - 1 - t >= 0 /\ HeightBitmapForMMRSize(u - 1 - t).rest = h)
    BY HeightsAt
  <2>2. QED
    BY <1>3, <2>1 DEF ClimbStep
<1>6. /\ c <= n => v + 1 <= l
      /\ ~(c <= n) => l + (h + 1) <= v
  <2>1. 2 * d + 1 \in Nat /\ h + 1 \in Nat
    OBVIOUS
  <2>2. LastOf(h + 1, d) <= n => TopAt(h + 1, d) <= SizeOf(n)
    BY <1>2, <2>1, TopInRange
  <2>3. ~(c <= n) => SizeOf(n) + (h + 1) <= v
    BY <1>2, <2>1, TopInRange
  <2>4. QED
    BY <1>1, <1>2, <2>2, <2>3
<1>7. PathOver(T, s.path, e)
  <2>1. v \in Nat
    BY <1>1, <1>2, SMTT(30)
  <2>2. QED
    BY <2>1 DEF ClimbState, PathOver
<1>8. (u - 1) + t = v - 1 /\ (v - 1) + 1 = v
  <2> HIDE DEF u, v, t
  <2>1. QED
    BY <1>1, <1>2
<1>9. new = IF v - 1 < l - 1
            THEN [index |-> v, inTree |-> TRUE, path |-> Append(s.path, e)]
            ELSE [s EXCEPT !.inTree = FALSE]
  <2> DEFINE next == s.index + t
  <2>1. next = v - 1 /\ next + 1 = v
    BY <1>3, <1>8
  <2>2. new = IF next < l - 1
              THEN [index |-> next + 1, inTree |-> TRUE,
                    path |-> Append(s.path, [Hash |-> es[next + 1], IsLeft |-> FALSE])]
              ELSE [s EXCEPT !.inTree = FALSE]
    BY <1>5 DEF addRightElm
  <2> HIDE DEF next, new
  <2>3. QED
    BY <2>1, <2>2
<1>10. CASE c <= n
  <2>1. v - 1 < l - 1
    <3> HIDE DEF c, v, l, n, u, t
    <3>1. QED
      BY <1>1, <1>2, <1>6, <1>10
  <2>2. new.index = v /\ new.inTree /\ new.path = Append(s.path, e)
    <3> HIDE DEF new, e
    <3>1. QED
      BY <1>9, <2>1
  <2>3. 2 * d + 1 \in Nat /\ ~Holds(h, 2 * d + 1, i)
    <3>1. 2 * d + 1 \in Nat
      OBVIOUS
    <3>2. Holds(h, 2 * d + 1, i) => c - p < i
      BY DEF Holds
    <3> HIDE DEF b, c, p, n
    <3>3. ~(c - p < i)
      BY <1>1, <1>2, <1>3
    <3>4. QED
      BY <3>1, <3>2, <3>3
  <2>4. es[v] = Trees(ls)[h][c]
    BY <1>10, <2>3 DEF TreesInPlace
  <2>5. Trees(ls)[h][c] = Trees(more)[h][c]
    BY <1>10, <2>3, SiblingSame
  <2> HIDE DEF b, c, u, v, t, p, more, n, new, l
  <2>6. Climbed(new.path, leaf) = <<Climbed(s.path, leaf), es[v]>>
    <3>1. Climbed(Append(s.path, e), leaf) = Up(e, Climbed(s.path, leaf))
      BY <1>7, PathGrows
    <3>2. QED
      BY <2>2, <3>1 DEF Up
  <2>7. Trees(more)[h + 1][c] = <<Trees(more)[h][b], Trees(more)[h][c]>>
    <3>1. c \in Int /\ c - p = b
      BY <1>1, <1>2
    <3>2. Trees(more)[h + 1][c] = <<Trees(more)[h][c - Pow2[h]], Trees(more)[h][c]>>
      BY <3>1, TreesIs
    <3>3. QED
      BY <3>1, <3>2 DEF p
  <2>8. Leads(ls, i, leaf, h + 1, d, new.path)
    BY <1>1, <1>4, <2>4, <2>5, <2>6, <2>7 DEF Leads, more
  <2>9. LastOf(h + 1, d) <= Len(ls) /\ Holds(h + 1, d, i)
    BY <1>1, <1>2, <1>3, <1>10 DEF Holds, n
  <2>10. new.index = TopAt(h + 1, d) - 1
    <3>1. v \in Int
      BY <1>1, <1>2
    <3>2. QED
      BY <1>1, <2>2, <3>1
  <2>11. OnTheWay(ls, i, leaf, h + 1, new)
    BY <2>2, <2>8, <2>9, <2>10 DEF OnTheWay
  <2>12. QED
    BY <2>11 DEF new
<1>11. CASE ~(c <= n)
  <2>1. ~(v - 1 < l - 1)
    <3> HIDE DEF c, v, l, n, u, t
    <3>1. QED
      BY <1>1, <1>2, <1>6, <1>11, SMTT(30)
  <2>2. ~new.inTree /\ new.path = s.path
    <3>1. new = [s EXCEPT !.inTree = FALSE]
      BY <1>9, <2>1
    <3> HIDE DEF new
    <3>2. QED
      BY <3>1 DEF ClimbState
  <2>3. Mountain(n, h, d)
    <3> HIDE DEF c, n
    <3>1. n < c
      BY <1>2, <1>11
    <3>2. QED
      BY <1>1, <1>3, <3>1 DEF Mountain
  <2>4. AtPeak(ls, i, leaf, new)
    BY <2>2, <2>3 DEF AtPeak, Leads
  <2>5. QED
    BY <2>4
<1>12. QED
  BY <1>10, <1>11

\* An iteration goes on from the top of one tree to that of the tree around it,
\* or ends at a mountain.
LEMMA ClimbGoesOn ==
  ASSUME NEW L, NEW ls \in Seq(L), NEW i \in 1..Len(ls), NEW leaf,
         NEW es, TreesInPlace(es, ls, Len(ls)), Len(es) = SizeOf(Len(ls)),
         NEW T, \A x \in Nat : es[x] \in T, NEW s \in ClimbState(T),
         NEW h \in Nat, OnTheWay(ls, i, leaf, h, s)
  PROVE  \/ OnTheWay(ls, i, leaf, h + 1, ClimbStep(es, s, h))
         \/ AtPeak(ls, i, leaf, ClimbStep(es, s, h))
<1>1. PICK c \in Nat : /\ LastOf(h, c) <= Len(ls) /\ Holds(h, c, i)
                       /\ s.inTree /\ s.index = TopAt(h, c) - 1
                       /\ Leads(ls, i, leaf, h, c, s.path)
  BY DEF OnTheWay
<1>2. PICK d \in Nat : c = 2 * d \/ c = 2 * d + 1
  BY EvenOrOdd
<1>3. CASE c = 2 * d
  <2>1. /\ LastOf(h, 2 * d) <= Len(ls) /\ Holds(h, 2 * d, i)
        /\ s.inTree /\ s.index = TopAt(h, 2 * d) - 1
        /\ Leads(ls, i, leaf, h, 2 * d, s.path)
    BY <1>1, <1>3
  <2>2. QED
    BY <2>1, ClimbRight
<1>4. CASE c = 2 * d + 1
  <2>1. /\ LastOf(h, 2 * d + 1) <= Len(ls) /\ Holds(h, 2 * d + 1, i)
        /\ s.inTree /\ s.index = TopAt(h, 2 * d + 1) - 1
        /\ Leads(ls, i, leaf, h, 2 * d + 1, s.path)
    BY <1>1, <1>4
  <2>2. QED
    BY <2>1, ClimbLeft
<1>5. QED
  BY <1>2, <1>3, <1>4

\* The loop of GetSubtreeProofElm starts at the leaf and ends at a mountain.
LEMMA ClimbEnds ==
  ASSUME NEW L, NEW ls \in Seq(L), NEW i \in 1..Len(ls), NEW leaf,
         NEW es, TreesInPlace(es, ls, Len(ls)), Len(es) = SizeOf(Len(ls))
  PROVE  AtPeak(ls, i, leaf, GetSubtreeProofElm(es, MmrIndex(i)))
<1> DEFINE T == {es[x] : x \in Nat}
           n == Len(ls)
           l == Len(es)
           b == Bits(l)
           m == i - 1
           more == Other(ls, i, leaf)
<1>1. \A x \in Nat : es[x] \in T
  OBVIOUS
<1>2. n \in Nat /\ i \in Nat /\ m \in Nat /\ m + 1 = i /\ i <= n
  OBVIOUS
<1>3. l = SizeOf(n) /\ SizeOf(n) \in Nat /\ l \in Nat
  BY <1>2, SizeStep
<1>4. MmrIndex(i) = SizeOf(m) /\ SizeOf(m) \in Nat
  BY <1>2, SizeStep DEF MmrIndex
<1> HIDE DEF T
<1>5. PICK g : ClimbRun(es, MmrIndex(i), T, g)
  BY <1>1, <1>3, <1>4, ClimbSteps
<1>6. b \in Nat /\ l < Pow2[b]
  BY <1>3, BitsIs
<1>7. /\ g[0] = [index |-> MmrIndex(i), inTree |-> TRUE, path |-> <<>>]
      /\ \A k \in 1..b + 1 : /\ g[k - 1] \in ClimbState(T)
                             /\ g[k] = ClimbStep(es, g[k - 1], k - 1)
      /\ GetSubtreeProofElm(es, MmrIndex(i)) = g[b + 1]
  BY <1>5 DEF ClimbRun
<1>8. OnTheWay(ls, i, leaf, 0, g[0])
  <2>1. LastOf(0, m) = i /\ TopAt(0, m) = SizeOf(m) + 1 /\ Pow2[0] = 1
    <3>1. Pow2[0] = 1 /\ TreeSize(0) = 1
      BY Pow2Is, TreeSizeIs
    <3>2. m * 1 = m /\ (m + 1) * 1 = i
      BY <1>2
    <3> HIDE DEF m
    <3>3. QED
      BY <3>1, <3>2 DEF LastOf, TopAt
  <2>2. Climbed(<<>>, leaf) = <<leaf>>
    <3>1. <<>> \in Seq({leaf}) /\ leaf \in {leaf}
      OBVIOUS
    <3>2. QED
      BY <3>1, ClimbedIs
  <2>3. Trees(more)[0][i] = <<leaf>>
    <3>1. more[i] = leaf
      BY <1>2 DEF Other
    <3> HIDE DEF more
    <3>2. i \in Int
      BY <1>2
    <3>3. Trees(more)[0][i] = <<more[i]>>
      BY <3>2, TreesIs
    <3>4. QED
      BY <3>1, <3>3
  <2> HIDE DEF m
  <2>4. Holds(0, m, i) /\ LastOf(0, m) <= Len(ls)
    BY <1>2, <2>1 DEF Holds
  <2>5. Leads(ls, i, leaf, 0, m, <<>>)
    BY <2>1, <2>2, <2>3 DEF Leads
  <2>6. SizeOf(m) = TopAt(0, m) - 1
    BY <1>4, <2>1
  <2>7. QED
    BY <1>2, <1>4, <1>7, <2>4, <2>5, <2>6 DEF OnTheWay
<1> HIDE DEF b, l, n, m, more
<1>9. \A k \in 0..b + 1 : OnTheWay(ls, i, leaf, k, g[k]) \/ AtPeak(ls, i, leaf, g[k])
  <2> DEFINE Good(k) == OnTheWay(ls, i, leaf, k, g[k]) \/ AtPeak(ls, i, leaf, g[k])
             C == {k \in Nat : k <= b + 1 /\ ~Good(k)}
  <2>1. SUFFICES ASSUME C # {} PROVE FALSE
    BY <1>6
  <2>2. PICK k \in C : \A x \in C : k <= x
    <3>1. C \subseteq Nat
      OBVIOUS
    <3> HIDE DEF C
    <3>2. QED
      BY <2>1, <3>1, LeastNatural
  <2>3. k # 0
    BY <1>8, <2>2
  <2> DEFINE h == k - 1
  <2>4. k \in 1..b + 1 /\ h \in Nat /\ h <= b + 1 /\ ~(k <= h) /\ h + 1 = k
    BY <1>6, <2>2, <2>3
  <2>5. g[h] \in ClimbState(T) /\ g[k] = ClimbStep(es, g[h], h)
    BY <1>7, <2>4
  <2> HIDE DEF h
  <2>6. Good(h)
    BY <2>2, <2>4
  <2>7. CASE OnTheWay(ls, i, leaf, h, g[h])
    <3>1. \/ OnTheWay(ls, i, leaf, h + 1, ClimbStep(es, g[h], h))
          \/ AtPeak(ls, i, leaf, ClimbStep(es, g[h], h))
      BY <1>1, <2>4, <2>5, <2>7, ClimbGoesOn
    <3>2. Good(k)
      BY <2>4, <2>5, <3>1
    <3>3. QED
      BY <2>2, <3>2
  <2>8. CASE AtPeak(ls, i, leaf, g[h])
    <3>1. ~g[h].inTree
      BY <2>8 DEF AtPeak
    <3>2. g[k] = g[h]
      BY <2>5, <3>1 DEF ClimbStep
    <3>3. Good(k)
      BY <2>8, <3>2
    <3>4. QED
      BY <2>2, <3>3
  <2>9. QED
    BY <2>6, <2>7, <2>8
<1>10. ~OnTheWay(ls, i, leaf, b + 1, g[b + 1])
  <2>1. SUFFICES ASSUME NEW c \in Nat, LastOf(b + 1, c) <= n PROVE FALSE
    BY DEF OnTheWay, n
  <2>2. b + 1 \in Nat /\ b <= b + 1
    BY <1>6
  <2>3. Pow2[b + 1] <= LastOf(b + 1, c) /\ LastOf(b + 1, c) \in Nat
    BY <2>2, BlockIs
  <2>4. Pow2[b] <= Pow2[b + 1] /\ Pow2[b] \in Nat /\ Pow2[b + 1] \in Nat
    BY <1>6, <2>2, PowGrows, PowPositive
  <2>5. n <= SizeOf(n)
    BY <1>2, SizeGrows
  <2>6. QED
    BY <1>2, <1>3, <1>6, <2>1, <2>3, <2>4, <2>5
<1>11. b + 1 \in 0..b + 1
  BY <1>6
<1>12. QED
  BY <1>7, <1>9, <1>10, <1>11

\* A block of a height can be a mountain only if it is the last whole one.
LEMMA MountainAt ==
  ASSUME NEW h \in Nat, NEW d \in Nat, NEW q \in Nat, NEW m \in Nat,
         NEW n, n = q * Pow2[h] + m, m < Pow2[h]
  PROVE  Mountain(n, h, d) <=> q = 2 * d + 1
<1> DEFINE p == Pow2[h]
           k == 2 * d + 1
           j == LastOf(h, 2 * d)
<1>1. p \in Nat /\ p >= 1 /\ k \in Nat
  BY PowPositive
<1>2. /\ j = k * p
      /\ Mountain(n, h, d) <=> j <= n /\ n < j + p
  BY DEF LastOf, Mountain
<1> HIDE DEF p, j, k
<1>3. n = q * p + m /\ m \in 0..p - 1
  BY <1>1 DEF p
<1>4. (q * p + m) \div p = q
  BY <1>1, <1>3, Division
<1>5. k * p \in Nat /\ n \in Nat
  BY <1>1, <1>3
<1>6. ASSUME j <= n, n < j + p PROVE q = k
  <2> DEFINE r == n - k * p
  <2>1. r \in 0..p - 1 /\ n = k * p + r
    BY <1>1, <1>2, <1>5, <1>6
  <2> HIDE DEF r
  <2>2. (k * p + r) \div p = k
    BY <1>1, <2>1, Division
  <2>3. QED
    BY <1>3, <1>4, <2>1, <2>2
<1>7. ASSUME q = k PROVE j <= n /\ n < j + p
  BY <1>1, <1>2, <1>3, <1>5, <1>7
<1>8. QED
  BY <1>2, <1>6, <1>7 DEF k

\* A sequence has the tops of the mountains that are as high as h or higher.
HasTops(ls, n, h, ms) ==
  \A x : x \in ToSet(ms) <=>
           \E g \in Nat, d \in Nat : /\ h <= g /\ Mountain(n, g, d)
                                     /\ x = Trees(ls)[g][LastOf(g, 2 * d)]

\* The mountains over the leaves up to the last whole block of a height are those
\* that are as high.
TopsDownTo(ls, n, h) ==
  \E q \in Nat, m \in Nat : /\ n = q * Pow2[h] + m /\ m < Pow2[h]
                            /\ HasTops(ls, n, h, Mountains(ls)[q * Pow2[h]])

\* One height further down.
LEMMA TopsOneDown ==
  ASSUME NEW ls, NEW n \in Nat, NEW h \in Nat, TopsDownTo(ls, n, h + 1)
  PROVE  TopsDownTo(ls, n, h)
<1> DEFINE p == Pow2[h]
           Top(g, d) == Trees(ls)[g][LastOf(g, 2 * d)]
<1>1. p \in Nat /\ p >= 1 /\ Pow2[h + 1] = 2 * p
  BY PowPositive, Pow2Is
<1>2. PICK q \in Nat, m \in Nat :
        /\ n = q * (2 * p) + m /\ m < 2 * p
        /\ HasTops(ls, n, h + 1, Mountains(ls)[q * (2 * p)])
  BY <1>1 DEF TopsDownTo
<1> DEFINE a == (2 * q) * p
           below == Mountains(ls)[a]
<1>3. q * (2 * p) = a /\ a \in Nat /\ 2 * q \in Nat /\ n = a + m
  <2> HIDE DEF p
  <2>1. q * (2 * p) = (2 * q) * p /\ (2 * q) * p \in Nat
    BY <1>1
  <2>2. QED
    BY <1>2, <2>1
<1>4. HasTops(ls, n, h + 1, below)
  BY <1>2, <1>3
<1>5. \A g \in Nat : h <= g <=> g = h \/ h + 1 <= g
  OBVIOUS
<1>6. CASE m >= p
  <2> DEFINE b == LastOf(h, 2 * q)
             r == m - p
             more == Mountains(ls)[b]
  <2>1. r \in Nat /\ r < p /\ 2 * q + 1 \in Nat
    BY <1>1, <1>2, <1>6
  <2>2. b = (2 * q + 1) * p
    BY DEF LastOf
  <2>3. n = (2 * q + 1) * p + r
    <3> HIDE DEF p
    <3>1. (2 * q + 1) * p = a + p
      BY <1>1
    <3> HIDE DEF a
    <3>2. QED
      BY <1>1, <1>2, <1>3, <3>1
  <2>4. more = Append(below, Top(h, q))
    BY NextMountain
  <2>5. ToSet(more) = ToSet(below) \cup {Top(h, q)}
    <3> DEFINE U == AllTrees(ls)
               x == Top(h, q)
    <3>1. below \in Seq(U)
      BY <1>3, MountainsIs
    <3> HIDE DEF U, below, x
    <3>2. ToSet(Append(below, x)) = ToSet(below) \cup {x}
      <4>1. /\ Len(below) \in Nat /\ DOMAIN below = 1..Len(below)
            /\ DOMAIN Append(below, x) = 1..Len(below) + 1
            /\ Append(below, x)[Len(below) + 1] = x
            /\ \A k \in 1..Len(below) : Append(below, x)[k] = below[k]
        BY <3>1
      <4>2. /\ 1..Len(below) + 1 = (1..Len(below)) \cup {Len(below) + 1}
        BY <4>1
      <4>3. QED
        BY <4>1, <4>2 DEF ToSet
    <3>3. QED
      BY <2>4, <3>2 DEF x
  <2>6. \A d \in Nat : Mountain(n, h, d) <=> d = q
    <3>1. SUFFICES ASSUME NEW d \in Nat PROVE Mountain(n, h, d) <=> d = q
      OBVIOUS
    <3>2. Mountain(n, h, d) <=> 2 * q + 1 = 2 * d + 1
      BY <2>1, <2>3, MountainAt
    <3>3. QED
      BY <3>2
  <2> HIDE DEF below, more, p
  <2>7. HasTops(ls, n, h, more)
    <3>1. SUFFICES ASSUME NEW x
                   PROVE  x \in ToSet(more) <=>
                            \E g \in Nat, d \in Nat : h <= g /\ Mountain(n, g, d) /\ x = Top(g, d)
      BY DEF HasTops
    <3>2. x \in ToSet(below) <=>
            \E g \in Nat, d \in Nat : h + 1 <= g /\ Mountain(n, g, d) /\ x = Top(g, d)
      BY <1>4 DEF HasTops
    <3>3. x = Top(h, q) <=> \E d \in Nat : Mountain(n, h, d) /\ x = Top(h, d)
      BY <2>6
    <3> HIDE DEF Top
    <3>4. x \in ToSet(more) <=> x \in ToSet(below) \/ x = Top(h, q)
      BY <2>5
    <3>5. QED
      BY <1>5, <3>2, <3>3, <3>4
  <2>8. HasTops(ls, n, h, Mountains(ls)[(2 * q + 1) * p])
    BY <2>2, <2>7 DEF more
  <2>9. QED
    BY <2>1, <2>3, <2>8 DEF TopsDownTo, p
<1>7. CASE m < p
  <2>1. \A d \in Nat : ~Mountain(n, h, d)
    <3>1. SUFFICES ASSUME NEW d \in Nat PROVE ~Mountain(n, h, d)
      OBVIOUS
    <3>2. Mountain(n, h, d) <=> 2 * q = 2 * d + 1
      BY <1>3, <1>7, MountainAt, SMTT(30)
    <3>3. QED
      BY <3>2
  <2> HIDE DEF below
  <2>2. HasTops(ls, n, h, below)
    BY <1>4, <1>5, <2>1 DEF HasTops
  <2>3. QED
    BY <1>3, <1>7, <2>2 DEF TopsDownTo, below
<1>8. QED
  BY <1>1, <1>2, <1>6, <1>7

\* The mountains that the range has.
LEMMA MountainTops ==
  ASSUME NEW ls, NEW n \in Nat
  PROVE  HasTops(ls, n, 0, Mountains(ls)[n])
<1>1. n < Pow2[n]
  BY PowGreater
<1>2. TopsDownTo(ls, n, n)
  <2>1. Mountains(ls)[0] = <<>> /\ ToSet(<<>>) = {}
    BY MountainsIs DEF ToSet
  <2>2. ASSUME NEW g \in Nat, NEW d \in Nat, n <= g PROVE ~Mountain(n, g, d)
    <3>1. Pow2[n] <= Pow2[g] /\ Pow2[n] \in Nat /\ Pow2[g] \in Nat
      BY <2>2, PowGrows, PowPositive
    <3>2. 2 * d \in Nat
      OBVIOUS
    <3>3. Pow2[g] <= LastOf(g, 2 * d) /\ LastOf(g, 2 * d) \in Nat
      BY <3>2, BlockIs
    <3>4. QED
      BY <1>1, <3>1, <3>3 DEF Mountain
  <2>3. HasTops(ls, n, n, Mountains(ls)[0])
    BY <2>1, <2>2 DEF HasTops
  <2>4. 0 * Pow2[n] = 0 /\ n = 0 * Pow2[n] + n
    BY PowPositive
  <2>5. QED
    BY <1>1, <2>3, <2>4 DEF TopsDownTo
<1>3. TopsDownTo(ls, n, 0)
  <2> DEFINE C == {h \in Nat : TopsDownTo(ls, n, h)}
  <2>1. PICK h \in C : \A x \in C : h <= x
    <3>1. C \subseteq Nat /\ n \in C
      BY <1>2
    <3> HIDE DEF C
    <3>2. QED
      BY <3>1, LeastNatural
  <2>2. CASE h # 0
    <3> DEFINE k == h - 1
    <3>1. k \in Nat /\ k + 1 = h /\ ~(h <= k)
      BY <2>1, <2>2
    <3> HIDE DEF k
    <3>2. TopsDownTo(ls, n, k)
      BY <2>1, <3>1, TopsOneDown
    <3>3. QED
      BY <2>1, <3>1, <3>2
  <2>3. QED
    BY <2>1, <2>2
<1>4. PICK q \in Nat, m \in Nat :
        n = q * 1 + m /\ m < 1 /\ HasTops(ls, n, 0, Mountains(ls)[q * 1])
  BY <1>3, Pow2Is DEF TopsDownTo
<1>5. q * 1 = n
  BY <1>4
<1>6. QED
  BY <1>4, <1>5


-----------------------------------------------------------------------------
(* The range, whatever is added *)

\* The elements are as many as the leaves bring, and the trees have their places.
RangeOK ==
  /\ leaves \in Seq(Leaf)
  /\ \E S : elements \in Seq(S)
  /\ Len(elements) = SizeOf(Len(leaves))
  /\ TreesInPlace(elements, leaves, Len(leaves))

\* It is inductive, with no other invariant beside it.
LEMMA RangeStays ==
  ASSUME RangeOK, [Next]_vars
  PROVE  RangeOK'
<1>1. CASE UNCHANGED vars
  BY <1>1 DEF RangeOK, vars
<1>2. ASSUME NEW leaf \in Leaf, AddLeaf(leaf)
      PROVE  RangeOK'
  <2> DEFINE n == Len(leaves)
             l == Len(elements)
             j == Joined(elements, leaf)
  <2>1. elements' = j /\ leaves' = Append(leaves, leaf)
    BY <1>2 DEF AddLeaf
  <2>2. PICK S : elements \in Seq(S)
    BY DEF RangeOK
  <2>3. n \in Nat /\ leaves \in Seq(Leaf) /\ l = SizeOf(n)
    BY DEF RangeOK
  <2>4. leaves' \in Seq(Leaf) /\ Len(leaves') = n + 1
    BY <2>1, <2>3
  <2> DEFINE more == Append(leaves, leaf)
  <2>10. TreesInPlace(j, more, n + 1)
    <3>1. Len(elements) = SizeOf(n) /\ TreesInPlace(elements, leaves, n)
      BY DEF RangeOK
    <3>2. QED
      BY <2>2, <2>3, <3>1, TreesStayInPlace
  <2> HIDE DEF n, more
  <2>5. (\E T : j \in Seq(T)) /\ Len(j) = l + (1 + Ones(n))
    <3>1. Len(elements) = SizeOf(n)
      BY <2>3
    <3>2. QED
      BY <2>2, <2>3, <3>1, JoinedIs DEF Joining
  <2>6. SizeOf(n + 1) = SizeOf(n) + (1 + Ones(n))
    BY <2>3, SizeStep
  <2> HIDE DEF j, l
  <2>7. Len(elements') = SizeOf(Len(leaves'))
    BY <2>1, <2>3, <2>4, <2>5, <2>6
  <2>8. \E T : elements' \in Seq(T)
    BY <2>1, <2>5
  <2>9. TreesInPlace(elements', leaves', Len(leaves'))
    BY <2>1, <2>4, <2>10 DEF more
  <2>11. QED
    BY <2>4, <2>7, <2>8, <2>9 DEF RangeOK
<1>3. QED
  BY <1>1, <1>2 DEF Next

\* So it always holds.
LEMMA RangeAlwaysOK == Spec => []RangeOK
<1>1. Init => RangeOK
  <2>1. SUFFICES ASSUME Init PROVE RangeOK
    OBVIOUS
  <2>2. <<>> \in Seq(Leaf) /\ Len(<<>>) = 0
    OBVIOUS
  <2>3. TreesInPlace(<<>>, <<>>, 0)
    <3>1. ASSUME NEW h \in Nat, NEW c \in Nat PROVE ~(LastOf(h, c) <= 0)
      <4>1. Pow2[h] <= LastOf(h, c) /\ LastOf(h, c) \in Nat
        BY BlockIs
      <4>2. Pow2[h] \in Nat /\ Pow2[h] >= 1
        BY PowPositive
      <4>3. QED
        BY <4>1, <4>2
    <3>2. QED
      BY <3>1 DEF TreesInPlace
  <2>4. QED
    BY <2>1, <2>2, <2>3, SizeZero DEF Init, RangeOK
<1>2. QED
  BY <1>1, RangeStays, PTL DEF Spec

\* The bitmap of the whole range is the number of leaves, and the size up to an
\* element tells its height (HeightBitmapForMMRSize), whatever leaves are added
\* and however many.
THEOREM BitmapAlwaysCounts == Spec => []BitmapCountsLeaves
<1>1. RangeOK => BitmapCountsLeaves
  <2>1. SUFFICES ASSUME RangeOK PROVE BitmapCountsLeaves
    OBVIOUS
  <2> DEFINE n == Len(leaves)
  <2>2. n \in Nat /\ Len(elements) = SizeOf(n)
    BY <2>1 DEF RangeOK
  <2> HIDE DEF n
  <2>3. HeightBitmapForMMRSize(Len(elements)) = [peaks |-> n, rest |-> 0]
    <3>1. 0 \in 0..Ones(n) /\ SizeOf(n) + 0 = SizeOf(n)
      BY <2>2, SizeStep, OnesEnd
    <3>2. HeightBitmapForMMRSize(SizeOf(n) + 0) = [peaks |-> n, rest |-> 0]
      BY <2>2, <3>1, BitmapIs
    <3>3. QED
      BY <2>2, <3>1, <3>2
  <2>4. ASSUME NEW i \in 1..n, NEW k \in MmrIndex(i)..MmrIndex(i + 1) - 1
        PROVE  HeightBitmapForMMRSize(k).rest = k - MmrIndex(i)
    <3> DEFINE m == i - 1
               d == k - SizeOf(m)
    <3>1. m \in Nat /\ (i + 1) - 1 = m + 1
      BY <2>2
    <3>2. MmrIndex(i) = SizeOf(m) /\ MmrIndex(i + 1) = SizeOf(m + 1)
      BY <3>1 DEF MmrIndex
    <3> HIDE DEF m
    <3>3. /\ SizeOf(m) \in Nat /\ Ones(m) \in Nat
          /\ SizeOf(m + 1) = SizeOf(m) + (1 + Ones(m))
      BY <3>1, SizeStep, OnesEnd
    <3>4. d \in 0..Ones(m) /\ SizeOf(m) + d = k
      BY <3>2, <3>3
    <3> HIDE DEF d
    <3>5. HeightBitmapForMMRSize(SizeOf(m) + d) = [peaks |-> m, rest |-> d]
      BY <3>1, <3>4, BitmapIs
    <3>6. QED
      BY <3>2, <3>4, <3>5 DEF d
  <2>5. QED
    BY <2>3, <2>4 DEF BitmapCountsLeaves, n
<1>2. QED
  BY <1>1, RangeAlwaysOK, PTL

\* The elements are the tops of all trees in the order of their last leaves, and
\* the peaks those of the mountains (AddLeaf, GetPeaks), whatever leaves are added
\* and however many.
THEOREM ElementsAlwaysMountains == Spec => []ElementsAreMountains
<1>1. RangeOK => ElementsAreMountains
  <2>1. SUFFICES ASSUME RangeOK PROVE ElementsAreMountains
    OBVIOUS
  <2> DEFINE n == Len(leaves)
  <2>2. n \in Nat /\ Len(elements) = SizeOf(n) /\ TreesInPlace(elements, leaves, n)
    BY <2>1 DEF RangeOK
  <2>3. PICK S : elements \in Seq(S)
    BY <2>1 DEF RangeOK
  <2> HIDE DEF n
  <2>4. ASSUME NEW j \in 1..n, NEW h \in 0..n, j % Pow2[h] = 0
        PROVE  elements[MmrIndex(j) + h + 1] = Trees(leaves)[h][j]
    <3>1. j \in Nat /\ j # 0 /\ h \in Nat /\ j <= n
      BY <2>2
    <3>2. PICK c \in Nat : j = LastOf(h, c)
      BY <2>4, <3>1, BlockOf
    <3>3. elements[TopAt(h, c)] = Trees(leaves)[h][j]
      BY <2>2, <3>1, <3>2 DEF TreesInPlace
    <3>4. TopAt(h, c) = SizeOf(j - 1) + (h + 1)
      BY <3>1, <3>2, BlockIs
    <3>5. j - 1 \in Nat
      BY <3>1
    <3> DEFINE x == SizeOf(j - 1)
    <3>6. x \in Nat
      BY <3>5, SizeStep
    <3> HIDE DEF x
    <3>7. x + (h + 1) = x + h + 1
      BY <3>1, <3>6
    <3>8. QED
      BY <3>3, <3>4, <3>7 DEF MmrIndex, x
  <2>5. GetPeaks(elements) = Mountains(leaves)[n]
    BY <2>2, <2>3, PeaksAreMountains
  <2>6. QED
    BY <2>2, <2>4, <2>5 DEF ElementsAreMountains, n
<1>2. QED
  BY <1>1, RangeAlwaysOK, PTL

\* The circuit (Define) accepts exactly the proofs of the range that Verify
\* accepts, whatever leaves are added and however many.
THEOREM CircuitAlwaysAgrees == Spec => []CircuitAgrees
<1>1. RangeOK => CircuitAgrees
  <2>1. SUFFICES ASSUME RangeOK, NEW i \in 1..Len(leaves), NEW leaf \in Leaf, NEW root,
                        NEW proof, proof.Peaks = GetPeaks(elements)
                 PROVE  Define(proof, leaf, root) <=> Verify(proof, leaf, root)
    BY DEF CircuitAgrees, GetProof
  <2>2. PICK S : elements \in Seq(S)
    BY <2>1 DEF RangeOK
  <2>3. Len(elements) # 0
    <3>1. Len(leaves) \in Nat /\ Len(leaves) # 0 /\ Len(elements) = SizeOf(Len(leaves))
      BY <2>1 DEF RangeOK
    <3>2. Len(leaves) <= SizeOf(Len(leaves))
      BY <3>1, SizeGrows
    <3>3. QED
      BY <3>1, <3>2, SizeStep
  <2>4. PICK T : GetPeaks(elements) \in Seq(T) /\ GetPeaks(elements) # <<>>
    BY <2>2, <2>3, SomePeak
  <2>5. QED
    BY <2>1, <2>4, DefineIsVerify
<1>2. QED
  BY <1>1, RangeAlwaysOK, PTL

\* Every leaf keeps a complete proof (GetProof), and it verifies for this leaf and
\* for no other (Verify), whatever leaves are added and however many.
THEOREM ProofsAlwaysVerify == Spec => []ProofsVerify
<1>1. RangeOK => ProofsVerify
  <2>1. SUFFICES ASSUME RangeOK, NEW i \in 1..Len(leaves)
                 PROVE  /\ ~GetSubtreeProofElm(elements, MmrIndex(i)).inTree
                        /\ \A leaf \in Leaf :
                             Verify(GetProof(elements, MmrIndex(i)), leaf,
                                    BaggingThePeaks(elements)) <=> leaf = leaves[i]
    BY DEF ProofsVerify
  <2> DEFINE n == Len(leaves)
             end == GetSubtreeProofElm(elements, MmrIndex(i))
             tops == ToSet(GetPeaks(elements))
  <2>2. leaves \in Seq(Leaf) /\ n \in Nat /\ i \in Nat /\ i \in Int
    BY <2>1 DEF RangeOK
  <2>3. Len(elements) = SizeOf(Len(leaves)) /\ TreesInPlace(elements, leaves, Len(leaves))
    BY <2>1 DEF RangeOK
  <2>4. ASSUME NEW leaf PROVE AtPeak(leaves, i, leaf, end)
    BY <2>1, <2>2, <2>3, ClimbEnds
  <2>5. ~end.inTree
    BY <2>4 DEF AtPeak
  <2>6. \A x : x \in tops <=> \E g \in Nat, d \in Nat :
                                Mountain(n, g, d) /\ x = Trees(leaves)[g][LastOf(g, 2 * d)]
    <3>1. PICK S : elements \in Seq(S)
      BY <2>1 DEF RangeOK
    <3>2. GetPeaks(elements) = Mountains(leaves)[n]
      BY <2>2, <2>3, <3>1, PeaksAreMountains
    <3>3. HasTops(leaves, n, 0, Mountains(leaves)[n])
      BY <2>2, MountainTops
    <3>4. \A g \in Nat : 0 <= g
      OBVIOUS
    <3>5. QED
      BY <3>2, <3>3, <3>4 DEF HasTops
  <2>7. ASSUME NEW leaf \in Leaf
        PROVE  Verify(GetProof(elements, MmrIndex(i)), leaf, BaggingThePeaks(elements))
                 <=> leaf = leaves[i]
    <3> DEFINE more == Other(leaves, i, leaf)
    <3>1. PICK h \in Nat, d \in Nat : /\ Mountain(n, h, d) /\ Holds(h, 2 * d, i)
                                      /\ Leads(leaves, i, leaf, h, 2 * d, end.path)
      BY <2>4 DEF AtPeak
    <3> DEFINE j == LastOf(h, 2 * d)
    <3>2. Climbed(end.path, leaf) = Trees(more)[h][j]
      BY <3>1 DEF Leads
    <3>3. Verify(GetProof(elements, MmrIndex(i)), leaf, BaggingThePeaks(elements))
            <=> Trees(more)[h][j] \in tops
      BY <3>2 DEF Verify, GetProof, BaggingThePeaks
    <3>4. j \in Nat /\ j \in Int /\ j - Pow2[h] < i /\ i <= j
      <4>1. 2 * d \in Nat
        OBVIOUS
      <4>2. j \in Nat
        BY <4>1, BlockIs
      <4>3. QED
        BY <3>1, <4>2 DEF Holds
    <3>5. more[i] = leaf
      BY <2>1, <2>2 DEF Other
    <3>6. ASSUME leaf = leaves[i] PROVE Trees(more)[h][j] \in tops
      <4>1. more = leaves
        BY <2>2, <3>6 DEF Other
      <4>2. QED
        BY <2>6, <3>1, <4>1
    <3>7. ASSUME Trees(more)[h][j] \in tops PROVE leaf = leaves[i]
      <4>1. PICK g \in Nat, e \in Nat :
              /\ Mountain(n, g, e)
              /\ Trees(more)[h][j] = Trees(leaves)[g][LastOf(g, 2 * e)]
        BY <2>6, <3>7
      <4> DEFINE k == LastOf(g, 2 * e)
      <4>2. k \in Int
        <5>1. 2 * e \in Nat
          OBVIOUS
        <5>2. k \in Nat
          BY <5>1, BlockIs
        <5> HIDE DEF k
        <5>3. QED
          BY <5>2
      <4> HIDE DEF more, j, k, n
      <4>3. ~(h < g)
        BY <3>4, <4>1, <4>2, HeightsDiffer DEF k
      <4>4. ~(g < h)
        BY <3>4, <4>1, <4>2, HeightsDiffer DEF k
      <4>5. g = h
        BY <4>3, <4>4
      <4>6. e = d
        <5> DEFINE p == Pow2[h]
                   q == n \div p
                   m == n % p
        <5>1. p \in Nat /\ p >= 1
          BY PowPositive
        <5> HIDE DEF p
        <5>2. q \in Nat /\ m \in 0..p - 1 /\ n = q * p + m
          BY <2>2, <5>1, Divided
        <5> HIDE DEF q, m
        <5>3. m \in Nat /\ m < p
          BY <5>1, <5>2
        <5>4. Mountain(n, h, d) <=> q = 2 * d + 1
          BY <5>2, <5>3, MountainAt DEF p
        <5>5. Mountain(n, h, e) <=> q = 2 * e + 1
          BY <5>2, <5>3, MountainAt DEF p
        <5>6. QED
          BY <3>1, <4>1, <4>5, <5>4, <5>5
      <4>7. Trees(leaves)[h][j] = Trees(more)[h][j]
        BY <4>1, <4>5, <4>6 DEF j
      <4>8. leaves[i] = more[i]
        <5>1. i \in Int /\ j \in Int /\ SameAround(leaves, more, h, j, i)
          BY <2>2, <3>4, <4>7 DEF SameAround
        <5>2. QED
          BY <5>1, TreesTell
      <4>9. QED
        BY <3>5, <4>8
    <3>8. QED
      BY <3>3, <3>6, <3>7
  <2>8. QED
    BY <2>5, <2>7
<1>2. QED
  BY <1>1, RangeAlwaysOK, PTL

=============================================================================
