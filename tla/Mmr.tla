-------------------------------- MODULE Mmr --------------------------------
(***************************************************************************)
(* The Merkle mountain range, merkle_trees_gnark/mmr.go: an append-only    *)
(* list of leaves kept as perfect binary trees ("mountains") one after the *)
(* other, each in postorder, and the proofs that a leaf is in it.          *)
(* mmr_circuit.go checks the same proofs as an arithmetic circuit.         *)
(*                                                                         *)
(* A hash is the sequence of what was written into it: <<x>> is the hash   *)
(* of a leaf, <<l, r>> that of two hashes.  So hashes do not collide.      *)
(* Indices are those of the code, from 0.                                  *)
(***************************************************************************)
EXTENDS Integers, SequencesExt

CONSTANTS
  Leaf,         \* the values of leaves
  MaxLeaves     \* bound: leaves added

ASSUME MmrAssumption == MaxLeaves \in Nat

VARIABLES
  elements,     \* mmr.elements
  leaves        \* history: the leaves added

vars == <<elements, leaves>>

\* 1 << n
Pow2[n \in Nat] == IF n = 0 THEN 1 ELSE 2 * Pow2[n - 1]

\* A tree of height h has that many elements; 1 << (h + 1) - 1 in the code.
TreeSize(h) == Pow2[h + 1] - 1

\* The bits of a size, the highest first: h, h - 1, ..., 0.
Heights(size) ==
  LET bits == CHOOSE b \in 0..size : size < Pow2[b] /\ (b = 0 \/ Pow2[b - 1] <= size)
  IN  [i \in 1..bits |-> bits - i]

\* Fault: a tree that fits exactly is not counted.
HeightBitmapForMMRSize_strict(size) ==
  FoldLeft(LAMBDA s, h :
             IF s.rest > TreeSize(h)
             THEN [peaks |-> 2 * s.peaks + 1, rest |-> s.rest - TreeSize(h)]
             ELSE [s EXCEPT !.peaks = 2 * @],
           [peaks |-> 0, rest |-> size], Heights(size))

\* The heights of the peaks of a range of this size, as a bitmap, and the
\* height of the element that comes next.
HeightBitmapForMMRSize(size) ==
  FoldLeft(LAMBDA s, h :
             IF s.rest >= TreeSize(h)
             THEN [peaks |-> 2 * s.peaks + 1, rest |-> s.rest - TreeSize(h)]
             ELSE [s EXCEPT !.peaks = 2 * @],
           [peaks |-> 0, rest |-> size], Heights(size))

\* Each peak of the lowest heights is joined with what was added last; the
\* first height without a peak ends it.
Joined(es, leaf) ==
  LET size  == Len(es)
      peaks == HeightBitmapForMMRSize(size).peaks
      n     == CHOOSE k \in 0..size : peaks % Pow2[k] = Pow2[k] - 1 /\ (peaks \div Pow2[k]) % 2 = 0
      added[i \in 0..n] ==
        IF i = 0 THEN <<leaf>>
        ELSE <<es[size + (i - 1) - TreeSize(i - 1) + 1], added[i - 1]>>
  IN  es \o [i \in 1..n + 1 |-> added[i - 1]]

AddLeaf(leaf) ==
  /\ Len(leaves) < MaxLeaves
  /\ elements' = Joined(elements, leaf)
  /\ leaves' = Append(leaves, leaf)

-----------------------------------------------------------------------------
(* Proofs *)

\* Fault: the climb goes on from the sibling, not from its parent.
addRightElm_sibling(es, s, h) ==
  LET next == s.index + TreeSize(h)
  IN  IF next < Len(es) - 1
      THEN [index |-> next, inTree |-> TRUE,
            path |-> Append(s.path, [Hash |-> es[next + 1], IsLeft |-> FALSE])]
      ELSE [s EXCEPT !.inTree = FALSE]

\* The sibling on the right; without one the proof is complete.
addRightElm(es, s, h) ==
  LET next == s.index + TreeSize(h)
  IN  IF next < Len(es) - 1
      THEN [index |-> next + 1, inTree |-> TRUE,
            path |-> Append(s.path, [Hash |-> es[next + 1], IsLeft |-> FALSE])]
      ELSE [s EXCEPT !.inTree = FALSE]

\* The siblings on the way from an element up to the peak of its mountain.  The
\* loop of the code has no bound; no mountain is higher than the fold goes.
GetSubtreeProofElm(es, index) ==
  LET climb(s, h) ==
        LET prev == s.index - TreeSize(h)
        IN  IF ~s.inTree THEN s
            ELSE IF prev >= 0 /\ HeightBitmapForMMRSize(prev).rest = h
            THEN [s EXCEPT !.index = @ + 1,
                           !.path = Append(@, [Hash |-> es[prev + 1], IsLeft |-> TRUE])]
            ELSE addRightElm(es, s, h)
  IN  FoldLeft(climb, [index |-> index, inTree |-> TRUE, path |-> <<>>],
               Reverse(Heights(Len(es))) \o <<Len(Heights(Len(es)))>>)

GetPeaks(es) ==
  FoldLeft(LAMBDA s, h :
             IF s.rest >= TreeSize(h)
             THEN [rest |-> s.rest - TreeSize(h), pos |-> s.pos + TreeSize(h),
                   peaks |-> Append(s.peaks, es[s.pos + TreeSize(h)])]
             ELSE s,
           [rest |-> Len(es), pos |-> 0, peaks |-> <<>>], Heights(Len(es))).peaks

GetProof(es, index) ==
  [MerkleProof |-> GetSubtreeProofElm(es, index).path, Peaks |-> GetPeaks(es)]

\* The hash of the peaks, written one after the other.
BaggingThePeaks(es) == GetPeaks(es)

\* Where the siblings lead from the hash of a leaf.
Climbed(path, leaf) ==
  FoldLeft(LAMBDA hash, e : IF e.IsLeft THEN <<e.Hash, hash>> ELSE <<hash, e.Hash>>,
           <<leaf>>, path)

Verify(proof, leaf, root) ==
  /\ Climbed(proof.MerkleProof, leaf) \in ToSet(proof.Peaks)
  /\ proof.Peaks = root

\* Fault: only the first peak is compared.
Define_first(proof, leaf, root) ==
  /\ proof.Peaks[1] = Climbed(proof.MerkleProof, leaf)
  /\ proof.Peaks = root

\* The circuit multiplies one comparison for each peak, 0 when they are equal,
\* and asserts that the product is its own negation.
Define(proof, leaf, root) ==
  LET hashed  == Climbed(proof.MerkleProof, leaf)
      Cmp(p)  == IF p = hashed THEN 0 ELSE 1
      mul     == FoldLeft(LAMBDA m, p : m * Cmp(p), Cmp(proof.Peaks[1]), Tail(proof.Peaks))
  IN  /\ mul = -mul
      /\ proof.Peaks = root

-----------------------------------------------------------------------------

Init == elements = <<>> /\ leaves = <<>>

Next == \E leaf \in Leaf : AddLeaf(leaf)

Spec == Init /\ [][Next]_vars

-----------------------------------------------------------------------------
(* Reference definitions *)

\* The trees of each height: the one over the 2^h leaves up to the j-th.
Trees(ls) ==
  LET tree[h \in Nat] ==
        [j \in Int |-> IF h = 0 THEN <<ls[j]>>
                       ELSE <<tree[h - 1][j - Pow2[h - 1]], tree[h - 1][j]>>]
  IN  tree

\* The mountains over the first n leaves: the last one is as high as the lowest
\* bit of n, before it are those over the leaves that it does not stand on.
Mountains(ls) ==
  LET ms[n \in Nat] ==
        IF n = 0 THEN <<>>
        ELSE LET h == CHOOSE k \in 0..n : n % Pow2[k + 1] = Pow2[k]
             IN  Append(ms[n - Pow2[h]], Trees(ls)[h][n])
  IN  ms

\* The elements over n leaves: the j-th leaf completes a tree of height h if j is
\* a multiple of 2^h, and brings the tops of all trees that it completes.
SizeOf(n) == Cardinality({x \in (1..n) \X (0..n) : x[1] % Pow2[x[2]] = 0})

\* The index of the i-th leaf: what the leaves before it have brought.
MmrIndex(i) == SizeOf(i - 1)

-----------------------------------------------------------------------------

\* The elements are the tops of all trees over the leaves, in the order in which
\* the leaves complete them and the lower ones first, whatever was joined on the
\* way (AddLeaf), and the peaks are the tops of the mountains (GetPeaks).
ElementsAreMountains ==
  /\ Len(elements) = SizeOf(Len(leaves))
  /\ \A j \in 1..Len(leaves), h \in 0..Len(leaves) :
       j % Pow2[h] = 0 => elements[MmrIndex(j) + h + 1] = Trees(leaves)[h][j]
  /\ GetPeaks(elements) = Mountains(leaves)[Len(leaves)]

\* "A number whose bits represent at what heights there are peaks + the height
\* of the next element" (mmr.go:36): the bitmap of the whole range is the number
\* of leaves, and the elements before any element tell its height: it is as many
\* places behind the last leaf as it is high.
BitmapCountsLeaves ==
  /\ HeightBitmapForMMRSize(Len(elements)) = [peaks |-> Len(leaves), rest |-> 0]
  /\ \A i \in 1..Len(leaves) : \A k \in MmrIndex(i)..MmrIndex(i + 1) - 1 :
       HeightBitmapForMMRSize(k).rest = k - MmrIndex(i)

\* Every leaf has a proof that is complete and that verifies, at every size of
\* the range, and it is a proof of this leaf alone.
ProofsVerify ==
  \A i \in 1..Len(leaves) :
    LET proof == GetProof(elements, MmrIndex(i))
    IN  /\ ~GetSubtreeProofElm(elements, MmrIndex(i)).inTree
        /\ \A leaf \in Leaf :
             Verify(proof, leaf, BaggingThePeaks(elements)) <=> leaf = leaves[i]

\* The circuit accepts exactly the proofs that Verify accepts: the range's own
\* proofs, for the leaf and for others, against this root and that of the range
\* before its last leaf, whole or with their first step missing.
CircuitAgrees ==
  \A i \in 1..Len(leaves), leaf \in Leaf :
    LET whole == GetProof(elements, MmrIndex(i))
        cut   == [whole EXCEPT !.MerkleProof = IF @ = <<>> THEN @ ELSE Tail(@)]
        older == FoldLeft(Joined, <<>>, Front(leaves))
    IN  \A proof \in {whole, cut}, root \in {GetPeaks(elements), GetPeaks(older)} :
          Define(proof, leaf, root) <=> Verify(proof, leaf, root)

=============================================================================
