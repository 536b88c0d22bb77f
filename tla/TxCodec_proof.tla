--------------------------- MODULE TxCodec_proof ---------------------------
(***************************************************************************)
(* Proofs about transactions: whoever builds, signs and relays them in     *)
(* whatever order, a transaction keeps its hash, and GetSender answers     *)
(* with the last signer or not at all.  Then about keys, paths and the     *)
(* compact encoding, for sequences of any length.                          *)
(***************************************************************************)
EXTENDS MCTxCodec, FoldLemmas

\* What fits into a uint64 is not cut.
LEMMA SmallRemainder == \A i \in 0..Word - 1 : i % Word = i
BY CodecAssumption

\* What is cut to a uint64 is one.
LEMMA WordRemainder == \A i \in Int : i % Word \in 0..Word - 1
BY CodecAssumption

\* V is a uint64 when it is encoded.
LEMMA FoldedType ==
  ASSUME NEW v \in 0..Word - 1, NEW c \in Chain \cup {Nil, 0}
  PROVE  Folded(v, c) \in 0..Word - 1
<1>1. CASE c # Nil /\ c > 0 /\ v < 35
  <2>1. v + 35 + 2 * c \in Int
    BY <1>1, CodecAssumption
  <2>2. QED
    BY <1>1, <2>1, WordRemainder DEF Folded
<1>2. CASE ~(c # Nil /\ c > 0 /\ v < 35)
  BY <1>2 DEF Folded
<1>3. QED
  BY <1>1, <1>2

\* The chain identifier is folded into a V that holds it no second time, and
\* a nil one is like 0.
LEMMA FoldedOnce ==
  ASSUME NEW v \in {0, 27, 28}, NEW c \in Chain \cup {Nil, 0},
         c # Nil => c >= 0, Fits(c),
         NEW d, d = IF c = Nil THEN 0 ELSE c
  PROVE  /\ Folded(v, c) = IF d > 0 THEN v + 35 + 2 * d ELSE v
         /\ Folded(Folded(v, c), c) = Folded(v, c)
         /\ Folded(v, d) = Folded(v, c)
         /\ Folded(Folded(v, c), d) = Folded(v, c)
         /\ Folded(v, c) = 0 => v = 0
         /\ d > 0 => Folded(v, c) \in 35..Word - 1
<1>1. d \in Int /\ d # Nil /\ d >= 0
  BY CodecAssumption
<1>2. CASE d > 0
  <2>1. c = d
    BY <1>1, <1>2
  <2>2. v + 35 + 2 * d \in 35..Word - 1
    BY <1>1, <1>2, <2>1, CodecAssumption DEF Fits
  <2>3. Folded(v, d) = v + 35 + 2 * d
    BY <1>1, <1>2, <2>2, SmallRemainder DEF Folded
  <2>4. Folded(v + 35 + 2 * d, d) = v + 35 + 2 * d
    BY <1>1, <1>2, <2>2 DEF Folded
  <2>5. QED
    BY <1>2, <2>1, <2>2, <2>3, <2>4
<1>3. CASE d = 0
  <2>1. Folded(v, c) = v /\ Folded(v, d) = v
    BY <1>3, CodecAssumption DEF Folded
  <2>2. QED
    BY <1>3, <2>1
<1>4. QED
  BY <1>1, <1>2, <1>3

-----------------------------------------------------------------------------

EncodedChain(t) == IF t.chain = Nil THEN 0 ELSE t.chain

\* What is signed is an encoding without a signature.
LEMMA DigestIs ==
  ASSUME NEW t \in Transactions
  PROVE  /\ Digest(t) = Transaction(t.body, t.to, EncodedChain(t),
                                    Folded(0, t.chain), NoSig)
         /\ Digest(t) \in Encoding
<1>1. Digest(t) = Transaction(t.body, t.to, EncodedChain(t), Folded(0, t.chain), NoSig)
  BY DEF Digest, GetHash, Serialize, NewTransaction, Transaction, EncodedChain
<1>2. 0 \in 0..Word - 1 /\ t.chain \in Chain \cup {Nil, 0}
  BY CodecAssumption DEF Transactions
<1>3. Folded(0, t.chain) \in 0..Word - 1
  BY <1>2, FoldedType
<1>4. EncodedChain(t) \in Chain \cup {0}
  BY DEF EncodedChain, Transactions
<1>5. QED
  BY <1>1, <1>3, <1>4 DEF Transaction, Transactions, Encoding

\* A relayed transaction is a transaction, and its signed hash is the same.
LEMMA RelayIs ==
  ASSUME NEW t \in Transactions, t.v # Nil,
         NEW u, u = Deserialize(Serialize(t))
  PROVE  /\ u = Transaction(t.body, t.to, EncodedChain(t), Folded(t.v, t.chain),
                            IF Folded(t.v, t.chain) = 0 THEN NoSig ELSE t.rs)
         /\ u \in Transactions /\ u.v # Nil
         /\ Digest(u) = Digest(t)
<1> DEFINE v == Folded(t.v, t.chain)
           rs == IF v = 0 THEN NoSig ELSE t.rs
<1>1. u = Transaction(t.body, t.to, EncodedChain(t), v, rs)
  <2>1. Serialize(t) = Transaction(t.body, t.to, EncodedChain(t), v, t.rs)
    BY DEF Serialize, EncodedChain
  <2> HIDE DEF v
  <2>2. QED
    BY <2>1 DEF Deserialize, Transaction
<1>2. v \in 0..Word - 1
  BY FoldedType DEF Transactions
<1>3. rs \in SignatureData /\ EncodedChain(t) \in Chain \cup {0}
  BY DEF EncodedChain, Transactions, SignatureData
<1>4. u \in Transactions /\ u.v # Nil
  <2> HIDE DEF v, rs
  <2>1. QED
    BY <1>1, <1>2, <1>3, CodecAssumption DEF Transaction, Transactions
<1>5. Folded(0, u.chain) = Folded(0, t.chain) /\ EncodedChain(u) = EncodedChain(t)
  <2>1. u.chain = EncodedChain(t)
    BY <1>1 DEF Transaction
  <2>2. QED
    BY <2>1, CodecAssumption DEF EncodedChain, Folded
<1>6. Digest(u) = Digest(t)
  <2>1. u.body = t.body /\ u.to = t.to
    BY <1>1 DEF Transaction
  <2>2. QED
    BY <1>4, <1>5, <2>1, DigestIs
<1>7. QED
  BY <1>1, <1>4, <1>6

-----------------------------------------------------------------------------

\* Every transaction is made of what it should be made of.
THEOREM CodecTypeCorrect == CodecSpec => []CodecTypeOK
<1>1. CodecInit => CodecTypeOK
  <2> SUFFICES ASSUME CodecInit PROVE CodecTypeOK
    OBVIOUS
  <2>1. PICK b \in Body, to \in Receiver \cup {Nil}, c \in Chain \cup {Nil}, v \in {0, Nil} :
          tx = Transaction(b, to, c, v, NoSig)
    BY DEF CodecInit, NewTransaction, Unsigned
  <2>2. v \in (0..Word - 1) \cup {Nil} /\ NoSig \in SignatureData
    BY CodecAssumption DEF SignatureData
  <2>3. c \in Chain \cup {Nil, 0}
    OBVIOUS
  <2>4. tx \in Transactions /\ tx.rs = NoSig
    BY <2>1, <2>2, <2>3 DEF Transaction, Transactions
  <2>5. QED
    BY <2>4 DEF CodecInit, CodecTypeOK
<1>2. CodecTypeOK /\ [CodecNext]_codecVars => CodecTypeOK'
  <2> SUFFICES ASSUME CodecTypeOK, [CodecNext]_codecVars PROVE CodecTypeOK'
    OBVIOUS
  <2>1. ASSUME NEW k \in Key, NEW bit \in {0, 1}, Sign(k, bit) PROVE CodecTypeOK'
    <3>1. Signature(k, Digest(tx), bit) \in SignatureData
      BY DigestIs DEF CodecTypeOK, Signature, SignatureData
    <3>2. 27 + bit \in 0..Word - 1 /\ 27 + bit # Nil
      BY CodecAssumption
    <3>3. tx' = Transaction(tx.body, tx.to, tx.chain, 27 + bit, Signature(k, Digest(tx), bit))
      BY <2>1 DEF Sign
    <3>4. /\ tx.body \in Body /\ tx.to \in Receiver \cup {Nil}
          /\ tx.chain \in Chain \cup {Nil, 0}
      BY DEF CodecTypeOK, Transactions
    <3>5. 27 + bit \in (0..Word - 1) \cup {Nil}
      BY <3>2
    <3>6. tx' \in Transactions /\ tx'.v = 27 + bit
      BY <3>1, <3>3, <3>4, <3>5 DEF Transaction, Transactions
    <3>7. QED
      BY <2>1, <3>2, <3>6 DEF Sign, CodecTypeOK
  <2>2. CASE Relay
    <3>1. tx' \in Transactions /\ tx'.v # Nil
      BY <2>2, RelayIs DEF Relay, Relayable, CodecTypeOK
    <3>2. QED
      BY <2>2, <3>1 DEF Relay, CodecTypeOK
  <2>3. CASE UNCHANGED codecVars
    BY <2>3 DEF codecVars, CodecTypeOK
  <2>4. QED
    BY <2>1, <2>2, <2>3 DEF CodecNext
<1>3. QED
  BY <1>1, <1>2, PTL DEF CodecSpec

-----------------------------------------------------------------------------

\* V is w, or w with the chain identifier once the transaction was relayed.
Holds(w) == tx.v = w \/ (relayed /\ tx.v = Folded(w, tx.chain))

\* The invariant behind the theorems: without a signer there is no signature,
\* and otherwise it is the signer's, over the content as it is, with its bit
\* in V, unless V has overflowed on the way.
SignedInv ==
  /\ signer = Nil => /\ tx.rs = NoSig
                     /\ tx.v # Nil /\ Fits(tx.chain) => Holds(0)
  /\ signer # Nil => Encodable(tx) /\ tx.v # Nil
  /\ signer # Nil /\ (Fits(tx.chain) \/ ~relayed) =>
       \E bit \in {0, 1} : tx.rs = Signature(signer, Digest(tx), bit) /\ Holds(27 + bit)

\* Relaying keeps what V holds, and with it the signature.
LEMMA RelayHolds ==
  ASSUME CodecTypeOK, Relay, Fits(tx.chain), NEW w \in {0, 27, 28}, Holds(w)
  PROVE  /\ Holds(w)'
         /\ w # 0 \/ tx.rs = NoSig => tx'.rs = tx.rs
<1> DEFINE c == tx.chain
           d == EncodedChain(tx)
<1>1. /\ tx \in Transactions /\ tx.v # Nil /\ Encodable(tx)
      /\ tx' = Deserialize(Serialize(tx)) /\ relayed' = TRUE
  BY DEF CodecTypeOK, Relay, Relayable
<1>2. /\ tx' = Transaction(tx.body, tx.to, d, Folded(tx.v, c),
                           IF Folded(tx.v, c) = 0 THEN NoSig ELSE tx.rs)
  BY <1>1, RelayIs
<1>3. c \in Chain \cup {Nil, 0} /\ (c # Nil => c >= 0) /\ Fits(c)
  BY <1>1 DEF Transactions, Encodable
<1>4. d = IF c = Nil THEN 0 ELSE c
  BY DEF EncodedChain
<1> HIDE DEF c, d
<1>5. /\ Folded(Folded(w, c), c) = Folded(w, c)
      /\ Folded(w, d) = Folded(w, c)
      /\ Folded(w, c) = 0 => w = 0
  BY <1>3, <1>4, FoldedOnce
<1>6. Folded(tx.v, c) = Folded(w, c)
  BY <1>5 DEF Holds, c
<1>7. tx'.v = Folded(w, c) /\ tx'.chain = d
  BY <1>2, <1>6 DEF Transaction
<1>8. Holds(w)'
  BY <1>1, <1>5, <1>7 DEF Holds
<1>9. w # 0 \/ tx.rs = NoSig => tx'.rs = tx.rs
  BY <1>2, <1>5, <1>6 DEF Transaction
<1>10. QED
  BY <1>8, <1>9

\* Relaying keeps the hash that was signed, and whether V fits.
LEMMA RelayKeeps ==
  ASSUME CodecTypeOK, Relay
  PROVE  /\ Digest(tx)' = Digest(tx)
         /\ Fits(tx.chain)' => Fits(tx.chain)
         /\ Encodable(tx)' = Encodable(tx)
         /\ tx'.v # Nil
<1>1. /\ tx \in Transactions /\ tx.v # Nil /\ Encodable(tx)
      /\ tx' = Deserialize(Serialize(tx))
  BY DEF CodecTypeOK, Relay, Relayable
<1>2. /\ tx'.v # Nil /\ Digest(tx') = Digest(tx)
      /\ tx'.body = tx.body /\ tx'.chain = EncodedChain(tx)
  BY <1>1, RelayIs DEF Transaction
<1>3. Digest(tx)' = Digest(tx')
  BY DEF Digest, GetHash, Serialize, NewTransaction, Transaction, Folded, NoSig, Signature
<1>4. Encodable(tx)' = Encodable(tx)
  BY <1>1, <1>2, CodecAssumption DEF Encodable, EncodedChain
<1>5. Fits(tx.chain)' => Fits(tx.chain)
  BY <1>2 DEF Fits, EncodedChain
<1>6. QED
  BY <1>2, <1>3, <1>4, <1>5

\* A new signature makes SignedInv true, relaying keeps it.
LEMMA SignedInductive ==
  /\ CodecInit => SignedInv
  /\ CodecTypeOK /\ SignedInv /\ [CodecNext]_codecVars => SignedInv'
<1>1. CodecInit => SignedInv
  BY CodecAssumption
  DEF CodecInit, SignedInv, Holds, NewTransaction, Unsigned, Transaction
<1>2. ASSUME CodecTypeOK, SignedInv, [CodecNext]_codecVars PROVE SignedInv'
  <2>1. ASSUME NEW k \in Key, NEW bit \in {0, 1}, Sign(k, bit) PROVE SignedInv'
    <3>1. /\ tx' = Transaction(tx.body, tx.to, tx.chain, 27 + bit,
                               Signature(k, Digest(tx), bit))
          /\ signer' = k /\ Encodable(tx)
      BY <2>1 DEF Sign
    <3>2. /\ tx'.body = tx.body /\ tx'.to = tx.to /\ tx'.chain = tx.chain
          /\ tx'.v = 27 + bit /\ tx'.rs = Signature(k, Digest(tx), bit)
      BY <3>1 DEF Transaction
    <3>3. Digest(tx)' = Digest(tx)
      BY <3>2 DEF Digest, GetHash, Serialize, NewTransaction, Transaction, Folded,
                  NoSig, Signature
    <3>4. Encodable(tx)' /\ tx'.v # Nil /\ signer' # Nil
      BY <3>1, <3>2, CodecAssumption DEF Encodable
    <3>5. tx'.rs = Signature(signer', Digest(tx)', bit) /\ Holds(27 + bit)'
      BY <3>1, <3>2, <3>3 DEF Holds
    <3>6. QED
      BY <3>4, <3>5 DEF SignedInv
  <2>2. CASE Relay
    <3>1. signer' = signer /\ relayed' = TRUE /\ tx.v # Nil
      BY <2>2 DEF Relay, Relayable
    <3>2. /\ Digest(tx)' = Digest(tx) /\ (Fits(tx.chain)' => Fits(tx.chain))
          /\ Encodable(tx)' = Encodable(tx) /\ tx'.v # Nil
      BY <1>2, <2>2, RelayKeeps
    <3>3. ASSUME signer = Nil PROVE SignedInv'
      <4>1. tx'.rs = NoSig
        BY <1>2, <2>2, <3>3, RelayIs
        DEF SignedInv, CodecTypeOK, Relay, Relayable, Transaction
      <4>2. Fits(tx.chain)' => Holds(0)'
        BY <1>2, <2>2, <3>1, <3>2, <3>3, RelayHolds DEF SignedInv
      <4>3. QED
        BY <3>1, <3>3, <4>1, <4>2 DEF SignedInv
    <3>4. ASSUME signer # Nil PROVE SignedInv'
      <4>1. ASSUME Fits(tx.chain)'
            PROVE  \E bit \in {0, 1} :
                     tx'.rs = Signature(signer', Digest(tx)', bit) /\ Holds(27 + bit)'
        <5>1. PICK bit \in {0, 1} :
                tx.rs = Signature(signer, Digest(tx), bit) /\ Holds(27 + bit)
          BY <1>2, <3>2, <3>4, <4>1 DEF SignedInv
        <5>2. 27 + bit \in {0, 27, 28} /\ 27 + bit # 0
          OBVIOUS
        <5>3. Holds(27 + bit)' /\ tx'.rs = tx.rs
          BY <1>2, <2>2, <3>2, <4>1, <5>1, <5>2, RelayHolds
        <5>4. QED
          BY <3>1, <3>2, <5>1, <5>3
      <4>2. Encodable(tx)' /\ tx'.v # Nil
        BY <1>2, <3>2, <3>4 DEF SignedInv
      <4>3. QED
        BY <3>1, <3>4, <4>1, <4>2 DEF SignedInv
    <3>5. QED
      BY <3>3, <3>4
  <2>3. CASE UNCHANGED codecVars
    BY <1>2, <2>3 DEF codecVars, SignedInv, Holds, Encodable, Fits, Digest, GetHash,
                      Serialize, NewTransaction, Transaction, Folded, NoSig, Signature
  <2>4. QED
    BY <1>2, <2>1, <2>2, <2>3 DEF CodecNext
<1>3. QED
  BY <1>1, <1>2

\* Types and signatures hold in all behaviours.
LEMMA SignedCorrect == CodecSpec => [](CodecTypeOK /\ SignedInv)
<1>1. CodecInit => SignedInv
  BY SignedInductive
<1>2. CodecTypeOK /\ SignedInv /\ [CodecNext]_codecVars => SignedInv'
  BY SignedInductive
<1>3. CodecSpec => []CodecTypeOK
  BY CodecTypeCorrect
<1>4. QED
  BY <1>1, <1>2, <1>3, PTL DEF CodecSpec

\* A transaction whose V holds w answers with the signature's key, or with an
\* error if V holds a chain identifier as well.
LEMMA HeldSender ==
  ASSUME CodecTypeOK, NEW bit \in {0, 1}, signer # Nil, Encodable(tx),
         tx.rs = Signature(signer, Digest(tx), bit), Holds(27 + bit)
  PROVE  /\ tx.v = 27 + bit => GetSender(tx) = signer
         /\ Fits(tx.chain) => GetSender(tx) \in {signer, Error}
         /\ tx.chain = 0 => GetSender(tx) = signer
<1> DEFINE c == tx.chain
           d == EncodedChain(tx)
<1>1. /\ SigToPub(Digest(tx), tx.rs, bit) = signer
      /\ bit \in Int /\ 27 + bit \in {0, 27, 28} /\ 27 + bit # Nil
  BY CodecAssumption DEF SigToPub, Signature, NoSig
<1>2. ASSUME tx.v = 27 + bit PROVE GetSender(tx) = signer
  <2>1. (tx.v - 27) % Word = bit
    BY <1>2, SmallRemainder, CodecAssumption
  <2>2. tx.v # Nil /\ ~(bit > 1)
    BY <1>1, <1>2
  <2>3. QED
    BY <1>1, <2>1, <2>2 DEF GetSender
<1>3. c \in Chain \cup {Nil, 0} /\ (c # Nil => c >= 0) /\ d = IF c = Nil THEN 0 ELSE c
  BY DEF CodecTypeOK, Transactions, Encodable, EncodedChain
<1> HIDE DEF c, d
<1>4. ASSUME Fits(c), d > 0, tx.v = Folded(27 + bit, c) PROVE GetSender(tx) = Error
  <2>1. tx.v = 27 + bit + 35 + 2 * d /\ tx.v \in 35..Word - 1
    BY <1>1, <1>3, <1>4, FoldedOnce
  <2>2. d \in Int
    BY <1>3, CodecAssumption
  <2>3. tx.v - 27 \in 0..Word - 1 /\ tx.v - 27 > 1
    BY <1>4, <2>1, <2>2, CodecAssumption
  <2>4. (tx.v - 27) % Word = tx.v - 27
    BY <2>3, SmallRemainder
  <2>5. QED
    BY <2>3, <2>4 DEF GetSender
<1>5. ASSUME Fits(c), ~(d > 0) PROVE tx.v = 27 + bit
  <2>1. Folded(27 + bit, c) = 27 + bit
    BY <1>1, <1>3, <1>5, FoldedOnce
  <2>2. QED
    BY <2>1 DEF Holds, c
<1>6. Fits(c) => GetSender(tx) \in {signer, Error}
  BY <1>2, <1>4, <1>5 DEF Holds, c
<1>7. c = 0 => GetSender(tx) = signer
  <2>1. c = 0 => Fits(c) /\ ~(d > 0)
    BY <1>3, CodecAssumption DEF Fits
  <2>2. QED
    BY <1>2, <1>5, <2>1
<1>8. QED
  BY <1>2, <1>6, <1>7 DEF c

\* For every chain identifier that fits, nobody is taken for the sender but
\* the last signer.
THEOREM NobodyElsePays == CodecSpec => []SenderOrNobody
<1>1. ASSUME CodecTypeOK, SignedInv, Fits(tx.chain), signer = Nil
      PROVE  GetSender(tx) = Error
  BY <1>1 DEF SignedInv, GetSender, SigToPub
<1>2. ASSUME CodecTypeOK, SignedInv, Fits(tx.chain), signer # Nil
      PROVE  GetSender(tx) \in {signer, Error}
  BY <1>2, HeldSender DEF SignedInv
<1>3. CodecTypeOK /\ SignedInv => SenderOrNobody
  BY <1>1, <1>2, CodecAssumption DEF SenderOrNobody
<1>4. QED
  BY <1>3, SignedCorrect, PTL

\* Whatever is signed, the signer is found until the transaction is relayed,
\* and after that if the chain identifier is 0.
THEOREM SignerFound == CodecSpec => []SenderKnown
<1>1. ASSUME CodecTypeOK, SignedInv, signer # Nil, relayed => tx.chain = 0
      PROVE  GetSender(tx) = signer
  <2>1. tx.chain = 0 => Fits(tx.chain)
    BY CodecAssumption DEF Fits
  <2>2. PICK bit \in {0, 1} :
          tx.rs = Signature(signer, Digest(tx), bit) /\ Holds(27 + bit)
    BY <1>1, <2>1 DEF SignedInv
  <2>3. ~relayed => tx.v = 27 + bit
    BY <2>2 DEF Holds
  <2>4. QED
    BY <1>1, <2>2, <2>3, HeldSender DEF SignedInv, CodecTypeOK
<1>2. CodecTypeOK /\ SignedInv => SenderKnown
  BY <1>1 DEF SenderKnown
<1>3. QED
  BY <1>2, SignedCorrect, PTL

\* For every chain identifier that fits, a transaction is encoded alike before
\* and after relaying, so it keeps its hash.
THEOREM HashKept == CodecSpec => []WireStable
<1>1. ASSUME CodecTypeOK, SignedInv, Relayable(tx), Fits(tx.chain)
      PROVE  Serialize(Deserialize(Serialize(tx))) = Serialize(tx)
  <2> DEFINE c == tx.chain
             d == EncodedChain(tx)
             u == Deserialize(Serialize(tx))
  <2>1. tx \in Transactions /\ tx.v # Nil /\ Encodable(tx)
    BY <1>1 DEF CodecTypeOK, Relayable
  <2>2. PICK w \in {0, 27, 28} : Holds(w) /\ (w = 0 => tx.rs = NoSig)
    BY <1>1 DEF SignedInv, Relayable
  <2>3. u = Transaction(tx.body, tx.to, d, Folded(tx.v, c),
                        IF Folded(tx.v, c) = 0 THEN NoSig ELSE tx.rs)
    BY <2>1, RelayIs
  <2>4. c \in Chain \cup {Nil, 0} /\ (c # Nil => c >= 0) /\ d = IF c = Nil THEN 0 ELSE c
    BY <2>1 DEF Transactions, Encodable, EncodedChain
  <2>5. Serialize(tx) = Transaction(tx.body, tx.to, d, Folded(tx.v, c), tx.rs)
    BY DEF Serialize, EncodedChain
  <2> HIDE DEF c, d, u
  <2>6. /\ Folded(Folded(w, c), c) = Folded(w, c)
        /\ Folded(Folded(w, c), d) = Folded(w, c)
        /\ Folded(w, c) = 0 => w = 0
    BY <1>1, <2>4, FoldedOnce DEF c
  <2>7. Folded(tx.v, c) = Folded(w, c)
    BY <2>2, <2>6 DEF Holds, c
  <2>8. /\ u.body = tx.body /\ u.to = tx.to /\ u.chain = d
        /\ u.v = Folded(w, c) /\ u.rs = tx.rs
    BY <2>2, <2>3, <2>6, <2>7 DEF Transaction
  <2>9. d # Nil
    BY <2>4, CodecAssumption
  <2>10. Serialize(u) = Transaction(tx.body, tx.to, d, Folded(w, c), tx.rs)
    BY <2>6, <2>8, <2>9 DEF Serialize
  <2>11. QED
    BY <2>5, <2>7, <2>10 DEF u
<1>2. CodecTypeOK /\ SignedInv => WireStable
  BY <1>1 DEF WireStable
<1>3. QED
  BY <1>2, SignedCorrect, PTL

-----------------------------------------------------------------------------
(* Keys, paths and the compact encoding *)

\* A byte is its two nibbles.
LEMMA ByteHalves ==
  \A x \in Byte : /\ x \div 16 \in Nibble /\ x % 16 \in Nibble
                 /\ 16 * (x \div 16) + (x % 16) = x
BY DEF Byte, Nibble

\* Two nibbles are read back from the byte they were written to.
LEMMA HalvesOfByte ==
  \A a, b \in Nibble : (16 * a + b) \div 16 = a /\ (16 * a + b) % 16 = b
BY DEF Nibble

\* Two nibbles make a byte.
LEMMA HalvesAreNumber ==
  \A a, b \in Nibble : 16 * a + b \in Int /\ 16 * a + b \in Byte
BY DEF Nibble, Byte

\* A key read as nibbles, nibble by nibble.
LEMMA ToNibblesIs ==
  ASSUME NEW k \in Seq(Byte)
  PROVE  /\ ToNibbles(k) \in Seq(Nibble)
         /\ Len(ToNibbles(k)) = 2 * Len(k)
         /\ \A i \in 1..Len(k) : /\ ToNibbles(k)[2 * i - 1] = k[i] \div 16
                                 /\ ToNibbles(k)[2 * i] = k[i] % 16
<1> DEFINE n == ToNibbles(k)
<1>1. Len(k) \in Nat /\ \A i \in 1..Len(k) : k[i] \in Byte
  OBVIOUS
<1>2. ASSUME NEW i \in 1..2 * Len(k)
      PROVE  (IF i % 2 = 1 THEN k[(i + 1) \div 2] \div 16 ELSE k[i \div 2] % 16) \in Nibble
  <2>1. CASE i % 2 = 1
    <3>1. (i + 1) \div 2 \in 1..Len(k)
      BY <1>1, <2>1
    <3>2. k[(i + 1) \div 2] \in Byte
      BY <1>1, <3>1
    <3>3. QED
      BY <2>1, <3>2, ByteHalves
  <2>2. CASE i % 2 # 1
    <3>1. i \div 2 \in 1..Len(k)
      BY <1>1, <2>2
    <3>2. k[i \div 2] \in Byte
      BY <1>1, <3>1
    <3>3. QED
      BY <2>2, <3>2, ByteHalves
  <2>3. QED
    BY <2>1, <2>2
<1>3. n \in Seq(Nibble) /\ Len(n) = 2 * Len(k)
  <2>1. 2 * Len(k) \in Nat
    BY <1>1
  <2>2. n = [i \in 1..2 * Len(k) |->
               IF i % 2 = 1 THEN k[(i + 1) \div 2] \div 16 ELSE k[i \div 2] % 16]
    BY DEF ToNibbles
  <2>3. QED
    BY <1>2, <2>1, <2>2
<1>4. ASSUME NEW i \in 1..Len(k)
      PROVE  n[2 * i - 1] = k[i] \div 16 /\ n[2 * i] = k[i] % 16
  <2>1. /\ 2 * i - 1 \in 1..2 * Len(k) /\ (2 * i - 1) % 2 = 1
        /\ ((2 * i - 1) + 1) \div 2 = i
    BY <1>1
  <2>2. 2 * i \in 1..2 * Len(k) /\ (2 * i) % 2 = 0 /\ (2 * i) \div 2 = i
    BY <1>1
  <2>3. QED
    BY <2>1, <2>2 DEF ToNibbles
<1>5. QED
  BY <1>3, <1>4

\* Paths become keys again: no two keys have the same path.
THEOREM KeysKept ==
  ASSUME NEW k \in Seq(Byte)
  PROVE  ToBytes(ToNibbles(k)) = k
<1> DEFINE n == ToNibbles(k)
<1>1. Len(k) \in Nat /\ \A i \in 1..Len(k) : k[i] \in Byte
  OBVIOUS
<1>2. Len(n) = 2 * Len(k) /\ (2 * Len(k)) \div 2 = Len(k)
  BY <1>1, ToNibblesIs
<1>3. ASSUME NEW i \in 1..Len(k) PROVE 16 * n[2 * i - 1] + n[2 * i] = k[i]
  <2>1. n[2 * i - 1] = k[i] \div 16 /\ n[2 * i] = k[i] % 16
    BY ToNibblesIs
  <2> HIDE DEF n
  <2>2. QED
    BY <1>1, <2>1, ByteHalves
<1>4. ToBytes(n) = [i \in 1..Len(k) |-> 16 * n[2 * i - 1] + n[2 * i]]
  BY <1>2 DEF ToBytes
<1> HIDE DEF n
<1>5. ToBytes(n) = [i \in 1..Len(k) |-> k[i]]
  BY <1>3, <1>4
<1>6. QED
  BY <1>5 DEF n

\* A path of even length is a key's, and the only one.
THEOREM PathsKept ==
  ASSUME NEW p \in Seq(Nibble), Len(p) % 2 = 0
  PROVE  IsKeyPath(p)
<1> DEFINE m == Len(p) \div 2
           k == ToBytes(p)
           n == ToNibbles(k)
<1>1. m \in Nat /\ Len(p) = 2 * m
  OBVIOUS
<1>2. /\ k \in Seq(Byte) /\ Len(k) = m
      /\ \A i \in 1..m : k[i] = 16 * p[2 * i - 1] + p[2 * i]
  <2>1. k = [i \in 1..m |-> 16 * p[2 * i - 1] + p[2 * i]]
    BY DEF ToBytes
  <2> HIDE DEF k, m
  <2>2. ASSUME NEW i \in 1..m PROVE 16 * p[2 * i - 1] + p[2 * i] \in Byte
    <3>1. 2 * i - 1 \in 1..Len(p) /\ 2 * i \in 1..Len(p)
      BY <1>1
    <3>2. p[2 * i - 1] \in Nibble /\ p[2 * i] \in Nibble
      BY <3>1
    <3>3. QED
      BY <3>2, HalvesAreNumber
  <2>3. QED
    BY <1>1, <2>1, <2>2
<1> HIDE DEF k, m
<1>3. /\ n \in Seq(Nibble) /\ Len(n) = 2 * m
      /\ \A i \in 1..m : n[2 * i - 1] = k[i] \div 16 /\ n[2 * i] = k[i] % 16
  BY <1>2, ToNibblesIs
<1> HIDE DEF n
<1>4. ASSUME NEW i \in 1..m PROVE n[2 * i - 1] = p[2 * i - 1] /\ n[2 * i] = p[2 * i]
  <2>1. 2 * i - 1 \in 1..Len(p) /\ 2 * i \in 1..Len(p)
    BY <1>1
  <2>2. p[2 * i - 1] \in Nibble /\ p[2 * i] \in Nibble
    BY <2>1
  <2>3. QED
    BY <1>2, <1>3, <2>2, HalvesOfByte
<1>5. ASSUME NEW j \in 1..Len(p) PROVE n[j] = p[j]
  <2>1. CASE j % 2 = 1
    <3> DEFINE i == (j + 1) \div 2
    <3>1. i \in 1..m /\ j = 2 * i - 1
      BY <1>1, <2>1
    <3> HIDE DEF i
    <3>2. QED
      BY <1>4, <3>1
  <2>2. CASE j % 2 # 1
    <3> DEFINE i == j \div 2
    <3>1. i \in 1..m /\ j = 2 * i
      BY <1>1, <2>2
    <3> HIDE DEF i
    <3>2. QED
      BY <1>4, <3>1
  <2>3. QED
    BY <2>1, <2>2
<1>6. n = p
  BY <1>1, <1>3, <1>5
<1>7. QED
  BY <1>6 DEF IsKeyPath, n, k

-----------------------------------------------------------------------------
(* What two paths share *)

\* How many nibbles two paths share: these are equal, and the next ones, if
\* both have one, are not.  Split in module Mpt parts the paths there.
THEOREM PartWhereTheyDiffer ==
  ASSUME NEW a \in Seq(Nibble), NEW b \in Seq(Nibble)
  PROVE  LET n == CommonLen(a, b)
         IN  /\ n \in Nat /\ n <= Len(a) /\ n <= Len(b)
             /\ FindCommonPrefix(a, b) \in Seq(Nibble)
             /\ Len(FindCommonPrefix(a, b)) = n
             /\ \A i \in 1..n : a[i] = b[i]
             /\ n < Len(a) /\ n < Len(b) => a[n + 1] # b[n + 1]
<1> DEFINE C == {m \in Nat : m >= Len(a) \/ m >= Len(b) \/ a[m + 1] # b[m + 1]}
           n == CommonLen(a, b)
           Common(m) == /\ m <= Len(b) /\ \A i \in 1..m : a[i] = b[i]
                        /\ m < Len(a) /\ m < Len(b) => a[m + 1] # b[m + 1]
<1>1. Len(a) \in Nat /\ Len(b) \in Nat
  BY LenProperties
<1>2. C \subseteq Nat /\ Len(a) \in C
  BY <1>1
<1>3. PICK m \in C : \A l \in C : m <= l
  <2> HIDE DEF C
  <2>1. QED
    BY <1>2, LeastNatural
<1>4. \A l \in Nat : l < m => l < Len(a) /\ l < Len(b) /\ a[l + 1] = b[l + 1]
  BY <1>1, <1>3
<1>5. m \in Nat /\ m <= Len(a) /\ m <= Len(b)
  <2>1. m <= Len(a)
    BY <1>1, <1>2, <1>3
  <2>2. Len(b) \in C
    BY <1>1
  <2>3. QED
    BY <1>2, <1>3, <2>1, <2>2
<1>6. ASSUME NEW i \in 1..m PROVE a[i] = b[i]
  <2>1. i - 1 \in Nat /\ i - 1 < m /\ (i - 1) + 1 = i
    BY <1>5
  <2>2. a[(i - 1) + 1] = b[(i - 1) + 1]
    BY <1>4, <2>1
  <2>3. QED
    BY <2>1, <2>2
<1>7. m \in 0..Len(a) /\ Common(m)
  BY <1>1, <1>3, <1>5, <1>6
<1>8. n = CHOOSE l \in 0..Len(a) : Common(l)
  BY DEF CommonLen
<1> HIDE DEF n, Common
<1>9. n \in 0..Len(a) /\ Common(n)
  BY <1>7, <1>8
<1>10. FindCommonPrefix(a, b) = SubSeq(a, 1, n)
  BY DEF FindCommonPrefix, n
<1>11. n \in Nat /\ n <= Len(a)
  BY <1>1, <1>9
<1>12. FindCommonPrefix(a, b) \in Seq(Nibble) /\ Len(FindCommonPrefix(a, b)) = n
  BY <1>1, <1>10, <1>11, SubSeqProperties
<1>13. QED
  BY <1>9, <1>11, <1>12 DEF Common, n

-----------------------------------------------------------------------------

\* Of a path of odd length the last nibble has no byte, of one of even length
\* every nibble has.
LEMMA PanicsIfOdd ==
  ASSUME NEW p \in Seq(Nibble)
  PROVE  EncodePanics(p) <=> Len(p) % 2 = 1
<1> DEFINE n == Len(p)
<1>1. n \in Nat
  OBVIOUS
<1>2. ASSUME n % 2 = 1 PROVE EncodePanics(p)
  <2>1. /\ n - 1 \in 0..n - 1 /\ (n - 1) % 2 = 0
        /\ (n - 1) \div 2 + 1 > n \div 2
    BY <1>1, <1>2
  <2>2. QED
    BY <2>1 DEF EncodePanics
<1>3. ASSUME n % 2 # 1, NEW i \in 0..n - 1, i % 2 = 0 PROVE ~(i \div 2 + 1 > n \div 2)
  BY <1>1, <1>3
<1>4. QED
  BY <1>2, <1>3 DEF EncodePanics

\* The bytes of a path of even length: a zero, and a byte for two nibbles.
LEMMA CompactEncodeIs ==
  ASSUME NEW p \in Seq(Nibble), NEW m \in Nat, Len(p) = 2 * m
  PROVE  /\ CompactEncode(p) \in Seq(Int)
         /\ Len(CompactEncode(p)) = m + 1
         /\ CompactEncode(p)[1] = 0
         /\ \A i \in 1..m : CompactEncode(p)[i + 1] = 16 * p[2 * i - 1] + p[2 * i]
<1> DEFINE data == CompactEncode(p)
<1>1. Len(p) \div 2 + 1 = m + 1 /\ Len(p) % 2 = 0 /\ m + 1 \in Nat
  OBVIOUS
<1>2. data = [i \in 1..m + 1 |-> IF i = 1 THEN 0 ELSE 16 * p[2 * i - 3] + p[2 * i - 2]]
  BY <1>1 DEF CompactEncode
<1> HIDE DEF data
<1>3. ASSUME NEW i \in 1..m PROVE data[i + 1] = 16 * p[2 * i - 1] + p[2 * i]
  <2>1. i + 1 \in 1..m + 1 /\ i + 1 # 1 /\ 2 * (i + 1) - 3 = 2 * i - 1 /\ 2 * (i + 1) - 2 = 2 * i
    OBVIOUS
  <2>2. QED
    BY <1>2, <2>1
<1>4. ASSUME NEW i \in 1..m + 1
      PROVE  (IF i = 1 THEN 0 ELSE 16 * p[2 * i - 3] + p[2 * i - 2]) \in Int
  <2>1. CASE i = 1
    BY <2>1
  <2>2. CASE i # 1
    <3>1. 2 * i - 3 \in 1..Len(p) /\ 2 * i - 2 \in 1..Len(p)
      BY <2>2
    <3>2. p[2 * i - 3] \in Nibble /\ p[2 * i - 2] \in Nibble
      BY <3>1
    <3>3. 16 * p[2 * i - 3] + p[2 * i - 2] \in Int
      BY <3>2, HalvesAreNumber
    <3>4. QED
      BY <2>2, <3>3
  <2>3. QED
    BY <2>1, <2>2
<1>5. data \in Seq(Int) /\ Len(data) = m + 1
  BY <1>1, <1>2, <1>4
<1>6. data[1] = 0
  BY <1>2
<1>7. QED
  BY <1>3, <1>5, <1>6 DEF data

\* A path of even length comes back with one more nibble, a zero.
LEMMA CompactAddsNibble ==
  ASSUME NEW p \in Seq(Nibble), Len(p) % 2 # 1
  PROVE  CompactDecode(CompactEncode(p)) = Append(p, 0)
<1> DEFINE m == Len(p) \div 2
           data == CompactEncode(p)
<1>1. m \in Nat /\ Len(p) = 2 * m
  OBVIOUS
<1>2. /\ data \in Seq(Int) /\ Len(data) = m + 1 /\ data[1] = 0
      /\ \A i \in 1..m : data[i + 1] = 16 * p[2 * i - 1] + p[2 * i]
  BY <1>1, CompactEncodeIs
<1> HIDE DEF m, data
<1>3. data # <<>> /\ ~(data[1] = 1)
  BY <1>1, <1>2
<1>4. 2 * Len(data) - 1 = 2 * m + 1 /\ 2 * Len(data) - 2 = 2 * m
  BY <1>1, <1>2
<1>5. CompactDecode(data) =
        [j \in 1..2 * m + 1 |->
           IF j > 2 * m THEN 0
           ELSE IF j % 2 = 1 THEN data[(j + 3) \div 2] \div 16
           ELSE data[(j + 2) \div 2] % 16]
  BY <1>3, <1>4 DEF CompactDecode
<1>6. ASSUME NEW j \in 1..2 * m
      PROVE  (IF j % 2 = 1 THEN data[(j + 3) \div 2] \div 16
              ELSE data[(j + 2) \div 2] % 16) = p[j]
  <2>1. CASE j % 2 = 1
    <3> DEFINE i == (j + 1) \div 2
    <3>1. i \in 1..m /\ j = 2 * i - 1 /\ (j + 3) \div 2 = i + 1
      BY <1>1, <2>1
    <3> HIDE DEF i
    <3>2. p[2 * i - 1] \in Nibble /\ p[2 * i] \in Nibble
      BY <1>1, <3>1
    <3>3. QED
      BY <1>2, <2>1, <3>1, <3>2, HalvesOfByte
  <2>2. CASE j % 2 # 1
    <3> DEFINE i == j \div 2
    <3>1. i \in 1..m /\ j = 2 * i /\ (j + 2) \div 2 = i + 1
      BY <1>1, <2>2
    <3> HIDE DEF i
    <3>2. p[2 * i - 1] \in Nibble /\ p[2 * i] \in Nibble
      BY <1>1, <3>1
    <3>3. QED
      BY <1>2, <2>2, <3>1, <3>2, HalvesOfByte
  <2>3. QED
    BY <2>1, <2>2
<1>7. Append(p, 0) = [j \in 1..2 * m + 1 |-> IF j > 2 * m THEN 0 ELSE p[j]]
  <2> DEFINE longer == Append(p, 0)
  <2>1. longer \in Seq(Nibble) /\ Len(longer) = 2 * m + 1
    BY <1>1 DEF Nibble
  <2>2. ASSUME NEW j \in 1..2 * m + 1
        PROVE  longer[j] = IF j > 2 * m THEN 0 ELSE p[j]
    BY <1>1
  <2> HIDE DEF longer
  <2>3. longer = [j \in 1..2 * m + 1 |-> longer[j]]
    BY <2>1
  <2>4. QED
    BY <2>2, <2>3 DEF longer
<1>8. CompactDecode(data) = [j \in 1..2 * m + 1 |-> IF j > 2 * m THEN 0 ELSE p[j]]
  <2>1. ASSUME NEW j \in 1..2 * m + 1
        PROVE  (IF j > 2 * m THEN 0
                ELSE IF j % 2 = 1 THEN data[(j + 3) \div 2] \div 16
                ELSE data[(j + 2) \div 2] % 16)
                 = IF j > 2 * m THEN 0 ELSE p[j]
    <3>1. j > 2 * m \/ j \in 1..2 * m
      BY <1>1
    <3>2. QED
      BY <1>6, <3>1, Zenon
  <2>2. QED
    BY <1>5, <2>1, Zenon
<1>9. QED
  BY <1>7, <1>8 DEF data

\* No path of any length comes back from its compact encoding: an odd length makes
\* the encoding panic, an even one adds a nibble.
THEOREM CompactNeverExact ==
  ASSUME NEW p \in Seq(Nibble)
  PROVE  ~CompactReturns(p)
<1>1. CASE Len(p) % 2 = 1
  BY <1>1, PanicsIfOdd DEF CompactReturns
<1>2. CASE Len(p) % 2 # 1
  <2>1. CompactDecode(CompactEncode(p)) = Append(p, 0)
    BY <1>2, CompactAddsNibble
  <2>2. Len(Append(p, 0)) # Len(p)
    OBVIOUS
  <2>3. QED
    BY <2>1, <2>2 DEF CompactReturns
<1>3. QED
  BY <1>1, <1>2

\* The terminal flag is seen on a path that has it and on no path of a key, and
\* taking it off leaves the path.
THEOREM TerminalFlagKept ==
  ASSUME NEW p \in Seq(Nibble)
  PROVE  /\ IsTerminal(AddTerminalFlag(p)) /\ ~IsTerminal(p)
         /\ RemoveTerminalFlag(AddTerminalFlag(p)) = p
         /\ RemoveTerminalFlag(p) = p
<1>1. ~IsTerminal(p)
  BY DEF IsTerminal, Terminal, Nibble
<1>2. /\ AddTerminalFlag(p) # <<>> /\ AddTerminalFlag(p)[1] = Terminal
      /\ Tail(AddTerminalFlag(p)) = p
  BY DEF AddTerminalFlag, Terminal, Nibble
<1>3. QED
  BY <1>1, <1>2 DEF IsTerminal, RemoveTerminalFlag

-----------------------------------------------------------------------------
(* Whatever path is encoded *)

\* The path is a sequence of nibbles.
PathOK == path \in Seq(Nibble)

\* No step makes it anything else.
LEMMA PathType == Spec => []PathOK
<1>1. Init => PathOK
  BY EmptySeq DEF Init, PathOK
<1>2. PathOK /\ [Next]_vars => PathOK'
  <2> SUFFICES ASSUME path \in Seq(Nibble), [Next]_vars PROVE path' \in Seq(Nibble)
    BY DEF PathOK
  <2>1. CASE Grow
    <3>1. PICK n \in {0, 3, 15} : path' = Append(path, n)
      BY <2>1 DEF Grow
    <3>2. n \in Nibble
      BY DEF Nibble
    <3>3. QED
      BY <3>1, <3>2, AppendProperties
  <2>2. CASE UNCHANGED path
    BY <2>2
  <2>3. QED
    BY <2>1, <2>2 DEF Next, vars
<1>3. QED
  BY <1>1, <1>2, PTL DEF Spec

\* Keys and paths of even length are the same thing.
THEOREM KeysAlwaysRoundTrip == Spec => []KeysRoundTrip
<1>1. PathOK => KeysRoundTrip
  BY PathsKept DEF PathOK, KeysRoundTrip
<1>2. QED
  BY <1>1, PathType, PTL

=============================================================================
