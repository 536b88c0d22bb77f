------------------------------ MODULE TxCodec ------------------------------
(***************************************************************************)
(* Signing, encoding and decoding a transaction, and finding out who sent  *)
(* it, src/tx/transaction.go.                                              *)
(*                                                                         *)
(* A hash is what was hashed.  The pair R, S is a record of who signed     *)
(* what and which of its two points was used; recovering with another hash *)
(* or the other point gives the address of somebody else.                  *)
(***************************************************************************)
EXTENDS Integers

CONSTANTS
  Body,         \* nonce, gas, value and data of a transaction
  Negative,     \* the bodies with a negative price or value: rlp has none
  Receiver,     \* addresses of receivers
  Chain,        \* chain identifiers, integers
  Key,          \* private keys; an address stands for its key
  Nil,          \* a nil pointer
  Stranger,     \* the address of somebody else
  Error,        \* GetSender fails
  Word          \* V is a uint64 on its way, 2^64 in the code

ASSUME CodecAssumption ==
  /\ Negative \subseteq Body /\ Chain \subseteq Int
  /\ Word \in Nat /\ Word > 64
  /\ Nil \notin Int /\ Nil \notin Receiver /\ Nil \notin Key
  /\ Error \notin Key \cup {Nil, Stranger} /\ Stranger \notin Key \cup {Nil}

VARIABLES
  tx,           \* the transaction object somebody holds
  signer,       \* history: who signed it, Nil for nobody
  relayed       \* history: whether it was encoded and decoded since

codecVars == <<tx, signer, relayed>>

-----------------------------------------------------------------------------

Transaction(b, to, c, v, rs) ==
  [body |-> b, to |-> to, chain |-> c, v |-> v, rs |-> rs]

Signature(k, digest, bit) == [key |-> k, digest |-> digest, bit |-> bit]

\* R and S are zero, or nil with V.
NoSig == Signature(Nil, Nil, 0)

Encoding == [body : Body, to : Receiver \cup {Nil}, chain : Chain \cup {0},
             v : 0..Word - 1, rs : {NoSig}]

SignatureData == [key : Key, digest : Encoding, bit : {0, 1}] \cup {NoSig}

Transactions == [body : Body, to : Receiver \cup {Nil}, chain : Chain \cup {Nil, 0},
                 v : (0..Word - 1) \cup {Nil}, rs : SignatureData]

\* The receiver is the address of a parameter, never nil.
NewTransaction(b, to, c) == Transaction(b, to, c, 0, NoSig)

\* A literal with TxData only.
Unsigned(b, to, c) == Transaction(b, to, c, Nil, NoSig)

\* Fault: a V that holds the chain identifier gets it once more.
Folded_again(v, c) == IF c # Nil /\ c > 0 THEN (v + 35 + 2 * c) % Word ELSE v

\* Fault: a chain identifier of 0 is folded, too.
Folded_zero(v, c) ==
  IF c # Nil /\ c >= 0 /\ v < 35 THEN (v + 35 + 2 * c) % Word ELSE v

\* Fault: V is not cut to a uint64.
Folded_wide(v, c) == IF c # Nil /\ c > 0 /\ v < 35 THEN v + 35 + 2 * c ELSE v

\* V as it is encoded.
Folded(v, c) ==
  IF c # Nil /\ c > 0 /\ v < 35 THEN (v + 35 + 2 * c) % Word ELSE v

\* rlp refuses negative numbers.
Encodable(t) == t.body \notin Negative /\ (t.chain # Nil => t.chain >= 0)

\* A nil chain identifier is encoded as 0.
Serialize(t) ==
  Transaction(t.body, t.to, IF t.chain = Nil THEN 0 ELSE t.chain,
              Folded(t.v, t.chain), t.rs)

GetHash(t) == Serialize(t)

\* What is signed: the transaction without a signature.
Digest(t) == GetHash(NewTransaction(t.body, t.to, t.chain))

\* crypto.SigToPub; without a signature there is nothing to recover from.
SigToPub(digest, rs, bit) ==
  IF rs = NoSig THEN Error
  ELSE IF rs.digest = digest /\ rs.bit = bit THEN rs.key ELSE Stranger

\* V holds the bit plus 27, in uint64 arithmetic.
GetSender(t) ==
  LET recoveryId == (t.v - 27) % Word
  IN  IF t.v = Nil \/ ~Encodable(t) THEN Error
      ELSE IF recoveryId > 1 THEN Error
      ELSE SigToPub(Digest(t), t.rs, recoveryId)

\* Without a V the signature is dropped; V is not unfolded.
Deserialize(data) == [data EXCEPT !.rs = IF data.v = 0 THEN NoSig ELSE @]

\* Serialize dereferences V and Deserialize wants a receiver: rlp writes a nil
\* address as an empty string and reads no address from one.
Relayable(t) == t.v # Nil /\ Encodable(t) /\ t.to # Nil

-----------------------------------------------------------------------------

CodecInit ==
  /\ \E b \in Body, c \in Chain \cup {Nil} :
       \/ \E to \in Receiver : tx = NewTransaction(b, to, c)
       \/ \E to \in Receiver \cup {Nil} : tx = Unsigned(b, to, c)
  /\ signer = Nil
  /\ relayed = FALSE

\* Fault: the hash covers the signature that is there already.
Sign_resigned(k, bit) ==
  /\ Encodable(tx)
  /\ tx' = Transaction(tx.body, tx.to, tx.chain, 27 + bit,
                       Signature(k, IF tx.v = Nil THEN Digest(tx) ELSE GetHash(tx), bit))
  /\ signer' = k
  /\ relayed' = FALSE

\* Which bit comes out depends on key and hash.
Sign(k, bit) ==
  /\ Encodable(tx)
  /\ tx' = Transaction(tx.body, tx.to, tx.chain, 27 + bit, Signature(k, Digest(tx), bit))
  /\ signer' = k
  /\ relayed' = FALSE

\* Somebody encodes the transaction, and somebody else decodes it.
Relay ==
  /\ Relayable(tx)
  /\ tx' = Deserialize(Serialize(tx))
  /\ relayed' = TRUE
  /\ UNCHANGED signer

CodecNext ==
  \/ \E k \in Key, bit \in {0, 1} : Sign(k, bit)
  \/ Relay

CodecSpec == CodecInit /\ [][CodecNext]_codecVars

-----------------------------------------------------------------------------

\* Chain identifiers for which V does not overflow.
Fits(c) == c = Nil \/ 2 * c + 63 < Word

\* Type invariant: V is a uint64 once it is set, and what is signed is the
\* encoding of a transaction without a signature.
CodecTypeOK ==
  /\ tx \in Transactions
  /\ tx.v = Nil => tx.rs = NoSig
  /\ signer \in Key \cup {Nil}
  /\ relayed \in BOOLEAN

\* A transaction keeps its encoding, and so its hash, however often it is
\* relayed, signed or not: the chain identifier is folded into V only once.
WireStable ==
  Relayable(tx) /\ Fits(tx.chain) => Serialize(Deserialize(Serialize(tx))) = Serialize(tx)

\* Nobody pays for somebody else: GetSender gives the address of the last one
\* to sign or fails, also after another signature over an earlier one, and
\* after relaying, where it fails if there is a chain identifier.
SenderOrNobody == Fits(tx.chain) => GetSender(tx) \in {signer, Error} \ {Nil}

\* The signer is found as long as the transaction is not relayed, whatever the
\* chain identifier, and if there is none after any number of relays as well.
SenderKnown ==
  signer # Nil /\ (relayed => tx.chain = 0) => GetSender(tx) = signer

=============================================================================
