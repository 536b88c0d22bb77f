-------------------------------- MODULE Mpt --------------------------------
(***************************************************************************)
(* The Merkle Patricia trie, src/mpt/mpt.go and node.go.                   *)
(*                                                                         *)
(* Nodes live in two places.  The root, and below it the children of full  *)
(* nodes, are objects in memory that insert and delete change in place; an *)
(* extension names its child by a hash, under which the database has the   *)
(* child's serialization.  A node computes its hash once and keeps it when *)
(* it changes afterwards: it is then saved under the old hash.             *)
(*                                                                         *)
(* A hash is the content that was hashed, so hashes do not collide.  Every *)
(* operation threads a store through its calls: the database, how many     *)
(* more writes it takes before it fails (a negative number: it does not),  *)
(* and whether all went well so far.  After a failure nothing is done, as  *)
(* every caller returns on an error.  The value of a full node is left     *)
(* out: insert drops the hash it computes for it, so it is always zero.    *)
(*                                                                         *)
(* A recursive function of the code is a function of how deep its calls    *)
(* may still nest, whose values are functions of a call's arguments.  A    *)
(* call that would need more depth, or an argument outside Datum, is not   *)
(* considered: it only marks the store as exceeded.                        *)
(***************************************************************************)
EXTENDS Nibbles, FiniteSets, SequencesExt

CONSTANTS
  Key,          \* keys: sequences of bytes
  Value,        \* the values
  Missing,      \* what Get answers when it fails
  NoPath,       \* the nil Path of a branch's child read back
  MaxWrites,    \* bound: a call fails at this write at the latest
  MaxDepth,     \* bound: how deep calls nest
  Datum,        \* bound: what calls may have as their arguments
  AnyDelete     \* whether Delete is called where it goes wrong, too

\* Keys are the addresses of accounts, which all have one length.
ASSUME MptAssumption ==
  /\ \A k \in Key : k \in Seq(Byte)
  /\ \A k, l \in Key : Len(k) = Len(l)
  /\ NoPath \notin Seq(Nibble)
  /\ MaxWrites \in Nat /\ MaxDepth \in Nat /\ AnyDelete \in BOOLEAN

VARIABLES
  root,         \* mpt.Root
  db,           \* mpt.DB: from hashes to contents
  answers,      \* history: what Get answers for every key
  call          \* history: the last call, and whether it returned no error

mptVars == <<root, db, answers, call>>

-----------------------------------------------------------------------------
(* Paths.                                                                  *)

keyToNibbles(key) == ToNibbles(key)

\* Fault: the prefix ends one nibble too early.
findCommonPrefix_short(a, b) ==
  LET p == FindCommonPrefix(a, b) IN SubSeq(p, 1, Len(p) - 1)

findCommonPrefix(a, b) == FindCommonPrefix(a, b)

hasPrefix(s, prefix) == HasPrefix(s, prefix)

\* Any two keys differ both in their first nibbles and after them, as addresses
\* do, which are hashes.
KeysPart(first) ==
  \A k, l \in Key :
    LET x == keyToNibbles(k)
        y == keyToNibbles(l)
    IN  k # l => /\ \E i \in DOMAIN x : i <= first /\ x[i] # y[i]
                 /\ \E i \in DOMAIN x : i > first /\ x[i] # y[i]

-----------------------------------------------------------------------------
(* Nodes.                                                                  *)

\* A nil Node, and common.Hash{}: a hash not computed, a value not set.
Nil == [type |-> "nil"]
ZeroHash == [type |-> "zero"]

LeafNode(key, value) ==
  [type |-> "leaf", path |-> key, value |-> value, hash |-> ZeroHash]
ExtensionNode(path, value) ==
  [type |-> "extension", path |-> path, value |-> value, hash |-> ZeroHash]
FullNode(children) ==
  [type |-> "full", children |-> children, hash |-> ZeroHash]

Path(n) == IF n.path = NoPath THEN <<>> ELSE n.path

\* The serialization: a full node writes down its children's hashes.
Content(n) ==
  IF n.type = "full"
  THEN [type |-> "full", children |-> [i \in DOMAIN n.children |-> n.children[i].hash]]
  ELSE [type |-> n.type, path |-> n.path, value |-> n.value]

\* Fault: the children of a full node read back are leaves.
deserializeNode_leaves(c) ==
  CASE c.type = "leaf" -> LeafNode(c.path, c.value)
    [] c.type = "extension" -> ExtensionNode(c.path, c.value)
    [] c.type = "full" ->
         FullNode([i \in DOMAIN c.children |-> LeafNode(<<>>, c.children[i])])

\* A node read back has no hash yet, and the children of a full node are
\* extension nodes without a path.
deserializeNode(c) ==
  CASE c.type = "leaf" -> LeafNode(c.path, c.value)
    [] c.type = "extension" -> ExtensionNode(c.path, c.value)
    [] c.type = "full" ->
         FullNode([i \in DOMAIN c.children |-> ExtensionNode(NoPath, c.children[i])])

Hashed(n) == IF n.hash # ZeroHash THEN n ELSE [n EXCEPT !.hash = Content(n)]

\* Serialize asks the children of a full node for their hashes, and GetHash
\* remembers the hash it computes: the node afterwards.  Children that are full
\* nodes themselves were saved and know their hash.
Serialize(n) ==
  IF n.type = "full"
  THEN [n EXCEPT !.children = [i \in DOMAIN @ |-> Hashed(@[i])]]
  ELSE n
GetHash(n) == Hashed(Serialize(n))

LoadNode(database, hash) ==
  IF hash \in DOMAIN database THEN deserializeNode(database[hash]) ELSE Nil

-----------------------------------------------------------------------------
(* Get.                                                                    *)

\* The key without the path of the node that was followed.
After(n, nibbles) == SubSeq(nibbles, Len(Path(n)) + 1, Len(nibbles))

\* A node, and what of the key is left there.
At(n, nibbles) == [node |-> n, rest |-> nibbles]

\* The node at p is a full node with a child for the next nibble.
HasChild(p) ==
  /\ p.node.type = "full" /\ p.rest # <<>>
  /\ Head(p.rest) \in DOMAIN p.node.children

ToChild(p) == At(p.node.children[Head(p.rest)], Tail(p.rest))

\* Where get calls itself.
Continues(p) ==
  \/ HasChild(p)
  \/ p.node.type = "extension" /\ IsPrefix(Path(p.node), p.rest)

Onward(database, p) ==
  IF p.node.type = "full" THEN ToChild(p)
  ELSE At(LoadNode(database, p.node.value), After(p.node, p.rest))

Walk(database, n, nibbles) ==
  LET p[i \in 0..MaxDepth] ==
        IF i = 0 THEN At(n, nibbles)
        ELSE LET q == p[i - 1] IN IF Continues(q) THEN Onward(database, q) ELSE q
  IN  p[MaxDepth]

\* A leaf with an empty key answers for every longer key, a full node at the
\* end of the key for itself.  Nil is no answer: the way is too long.
get(p) ==
  IF Continues(p) THEN Nil
  ELSE IF p.node.type = "leaf" /\ p.node.path \in {<<>>, p.rest} THEN p.node.value
  ELSE IF p.node.type = "full" /\ p.rest = <<>> THEN ZeroHash
  ELSE Missing

Get(database, n, k) == get(Walk(database, n, keyToNibbles(k)))

-----------------------------------------------------------------------------
(* The store, and saving.  A result is a node and the store afterwards.    *)

Result(n, s) == [node |-> n, store |-> s]

Fail(s) == [s EXCEPT !.ok = FALSE]

\* f, a recursive function with one call less to go, called with x.
Call(f, x) ==
  IF x \in DOMAIN f THEN f[x]
  ELSE Result(x.node, [Fail(x.store) EXCEPT !.exceeded = TRUE])

\* The function f with y for x.
Including(f, x, y) == [z \in DOMAIN f \cup {x} |-> IF z = x THEN y ELSE f[z]]

\* Fault: the error of the database is dropped.
Write_unchecked(s, hash, content) ==
  IF s.left = 0 THEN s
  ELSE [s EXCEPT !.db = Including(@, hash, content), !.left = @ - 1]

Write(s, hash, content) ==
  IF s.left = 0 THEN Fail(s)
  ELSE [s EXCEPT !.db = Including(@, hash, content), !.left = @ - 1]

SaveChildren(f, n, s) ==
  LET saved[i \in 0..16] ==
        IF i = 0 THEN Result(n, s)
        ELSE LET r == saved[i - 1]
                 c == Call(f, Result(r.node.children[i - 1], r.store))
             IN  IF i - 1 \notin DOMAIN n.children \/ ~r.store.ok THEN r
                 ELSE Result([r.node EXCEPT !.children[i - 1] = c.node], c.store)
  IN  saved[16]

\* An extension's child is read, and saved under the hash of what was read.
SaveBelow(f, n, s) ==
  LET child == LoadNode(s.db, n.value)
  IN  CASE n.type = "full" -> SaveChildren(f, n, s)
        [] n.type = "leaf" -> Result(n, s)
        [] n.type = "extension" ->
             Result(n, IF child = Nil THEN Fail(s) ELSE Call(f, Result(child, s)).store)

Stored(m, s) == Result(m, Write(s, m.hash, Content(m)))

\* With its hash, unless something failed before.
StoreHashed(r) == IF r.store.ok THEN Stored(GetHash(r.node), r.store) ELSE r

\* Children first.
Saved(f, n, s) == IF s.ok THEN StoreHashed(SaveBelow(f, n, s)) ELSE Result(n, s)

saving[d \in 0..MaxDepth] ==
  IF d = 0 THEN <<>> ELSE [x \in Datum |-> Saved(saving[d - 1], x.node, x.store)]

saveNode(s, n) == Call(saving[MaxDepth], Result(n, s))

SaveResult(r) == saveNode(r.store, r.node)

-----------------------------------------------------------------------------
(* Put.                                                                    *)

\* The children with another one, r, at idx.
WithChild(children, idx, r) == Result(Including(children, idx, r.node), r.store)

\* What is put in place of n, unless something failed.
Settled(n, r) == IF r.store.ok THEN r ELSE Result(n, r.store)

\* The new leaf beside the children that r has.
NewChild(r, path, v) ==
  IF path = <<>> THEN r
  ELSE WithChild(r.node, Head(path), saveNode(r.store, LeafNode(Tail(path), v)))

Branched(r) == saveNode(r.store, FullNode(r.node))

Extended(path, r) ==
  IF path = <<>> THEN r ELSE saveNode(r.store, ExtensionNode(path, r.node.hash))

\* A leaf or an extension whose path leaves the key's: a full node where they
\* part, below an extension for what they share.  A path or a key that ends
\* there gets no child: its value is lost.
Split(s, n, nibbles, v) ==
  LET common == findCommonPrefix(Path(n), nibbles)
      old == SubSeq(Path(n), Len(common) + 1, Len(Path(n)))
      new == SubSeq(nibbles, Len(common) + 1, Len(nibbles))
      one == IF old = <<>> THEN Result(<<>>, s)
             ELSE WithChild(<<>>, Head(old),
                            saveNode(s, [n EXCEPT !.path = Tail(old), !.hash = ZeroHash]))
  IN  Settled(n, Extended(common, Branched(NewChild(one, new, v))))

\* The arguments of insert and delete.
Task(n, nibbles, v, s) == [node |-> n, nibbles |-> nibbles, value |-> v, store |-> s]

\* An extension names the child that a call returned.
Renamed(n, r) ==
  IF r.store.ok THEN saveNode(r.store, [n EXCEPT !.value = GetHash(r.node).hash])
  ELSE Result(n, r.store)

\* A full node takes the child that a call returned; when the leaf of a new
\* child was not saved there is none.
Adopted(n, idx, r) ==
  IF idx \notin DOMAIN n.children /\ ~r.store.ok THEN Result(n, r.store)
  ELSE saveNode(r.store, [n EXCEPT !.children = Including(@, idx, r.node)])

\* The node is what the caller goes on to use: the new node, or after a
\* failure the one it had, as far as that was changed in place.
Inserted(f, n, nibbles, v, s) ==
  LET child == LoadNode(s.db, n.value)
      idx == Head(nibbles)
  IN  CASE n.type = "leaf" ->
             IF n.path = nibbles THEN saveNode(s, [n EXCEPT !.value = v])
             ELSE Split(s, n, nibbles, v)
        [] n.type = "extension" ->
             IF ~IsPrefix(Path(n), nibbles) THEN Split(s, n, nibbles, v)
             ELSE IF child = Nil THEN Result(n, Fail(s))
             ELSE Renamed(n, Call(f, Task(child, After(n, nibbles), v, s)))
        [] n.type = "full" ->
             IF nibbles = <<>> THEN saveNode(s, n)
             ELSE Adopted(n, idx,
                          IF idx \notin DOMAIN n.children
                          THEN saveNode(s, LeafNode(Tail(nibbles), v))
                          ELSE Call(f, Task(n.children[idx], Tail(nibbles), v, s)))

inserting[d \in 0..MaxDepth] ==
  IF d = 0 THEN <<>>
  ELSE [x \in Datum |-> Inserted(inserting[d - 1], x.node, x.nibbles, x.value, x.store)]

insert(s, n, nibbles, v) == Call(inserting[MaxDepth], Task(n, nibbles, v, s))

\* The store of a call that fails after left writes.
Opened(left) == [db |-> db, left |-> left, ok |-> TRUE, exceeded |-> FALSE]

\* A call leaves this root and this store; a failure that was due did come, and
\* no bound was met.
Returns(op, k, v, left, r) ==
  /\ left >= 0 => ~r.store.ok
  /\ ~r.store.exceeded
  /\ root' = r.node
  /\ db' = r.store.db
  /\ answers' = [x \in Key |-> Get(r.store.db, r.node, x)]
  /\ \A x \in Key : answers'[x] # Nil
  /\ call' = [op |-> op, key |-> k, value |-> v, ok |-> r.store.ok]

\* Put(key, value); the new root is set before it is saved.
Put(k, v, left) ==
  LET s == Opened(left)
      nibbles == keyToNibbles(k)
  IN  Returns("put", k, v, left,
              IF root = Nil THEN saveNode(s, LeafNode(nibbles, v))
              ELSE SaveResult(insert(s, root, nibbles, v)))

-----------------------------------------------------------------------------
(* Delete.                                                                 *)

\* Nil is a node that is gone.  An extension goes with its child.
Shrunk(n, r) == IF r.store.ok /\ r.node = Nil THEN r ELSE Renamed(n, r)

\* A full node left with one child is replaced by the child, without the nibble
\* that led to it.
Reduced(n, idx, r) ==
  LET others == Restrict(n.children, DOMAIN n.children \ {idx})
  IN  IF r.node # Nil THEN saveNode(r.store, [n EXCEPT !.children[idx] = r.node])
      ELSE IF others = <<>> THEN r
      ELSE IF Cardinality(DOMAIN others) = 1
      THEN Result(others[Min(DOMAIN others)], r.store)
      ELSE saveNode(r.store, [n EXCEPT !.children = others])

\* hasPrefix knows no empty prefix, so nothing below a full node that was read
\* back is ever deleted.
Deleted(f, n, nibbles, s) ==
  LET child == LoadNode(s.db, n.value)
      idx == Head(nibbles)
  IN  CASE n.type = "leaf" -> Result(IF n.path = nibbles THEN Nil ELSE n, s)
        [] n.type = "extension" ->
             IF ~hasPrefix(nibbles, Path(n)) THEN Result(n, s)
             ELSE IF child = Nil THEN Result(n, Fail(s))
             ELSE Shrunk(n, Call(f, Task(child, After(n, nibbles), Missing, s)))
        [] n.type = "full" ->
             IF nibbles = <<>> THEN saveNode(s, n)
             ELSE IF idx \notin DOMAIN n.children THEN Result(n, s)
             ELSE Reduced(n, idx, Call(f, Task(n.children[idx], Tail(nibbles), Missing, s)))

deleting[d \in 0..MaxDepth] ==
  IF d = 0 THEN <<>>
  ELSE [x \in Datum |-> Deleted(deleting[d - 1], x.node, x.nibbles, x.store)]

delete(s, n, nibbles) == Call(deleting[MaxDepth], Task(n, nibbles, Missing, s))

\* The way down through the nodes in memory, as delete takes it: where it ends,
\* and which other children the full node above has.
Down(n, nibbles) ==
  LET p[i \in 0..MaxDepth] ==
        IF i = 0 THEN [at |-> At(n, nibbles), others |-> Nibble]
        ELSE LET q == p[i - 1]
             IN  IF ~HasChild(q.at) THEN q
                 ELSE [at |-> ToChild(q.at),
                       others |-> DOMAIN q.at.node.children \ {Head(q.at.rest)}]
  IN  p[MaxDepth]

\* Where Delete does what it says: the key ends at a leaf that is the root, or
\* in memory at a full node that keeps two children; or it is not in the trie
\* and no extension is rewritten on the way, or one whose child was saved as it
\* is read back, which a failed call may have left undone.
DeletesCleanly(k) ==
  LET end == Down(root, keyToNibbles(k))
      n == end.at.node
  IN  \/ /\ n.type = "leaf"
         /\ n.path = end.at.rest => Cardinality(end.others) > 1
      \/ /\ n.type = "full"
         /\ end.at.rest # <<>> /\ ~HasChild(end.at)
      \/ /\ n.type = "extension" /\ answers[k] = Missing
         /\ hasPrefix(end.at.rest, Path(n))
              => GetHash(LoadNode(db, n.value)).hash \in DOMAIN db

\* What is left of a trie is saved.
SaveLeft(r) == IF r.node = Nil THEN r ELSE SaveResult(r)

Delete(k, left) ==
  /\ root # Nil
  /\ AnyDelete \/ DeletesCleanly(k)
  /\ Returns("delete", k, Missing, left,
             SaveLeft(delete(Opened(left), root, keyToNibbles(k))))

-----------------------------------------------------------------------------

NoCall == [op |-> "none", key |-> Missing, value |-> Missing, ok |-> TRUE]

\* The program starts again on its database: the new trie's root is nil.
NewMPT ==
  /\ root' = Nil
  /\ answers' = [k \in Key |-> Missing]
  /\ call' = NoCall
  /\ UNCHANGED db

MptInit ==
  /\ root = Nil
  /\ db = <<>>
  /\ answers = [k \in Key |-> Missing]
  /\ call = NoCall

\* Lefts: after how many writes a call may fail, -1 for not at all.
MptNext(Lefts) ==
  \/ \E k \in Key, v \in Value, left \in Lefts : Put(k, v, left)
  \/ \E k \in Key, left \in Lefts : Delete(k, left)
  \/ NewMPT

\* A call may fail at any of its writes.
MptSpec == MptInit /\ [][MptNext(Int)]_mptVars

-----------------------------------------------------------------------------

\* The nodes in memory.
InMemory(n) ==
  LET level[i \in 0..MaxDepth] ==
        IF i = 0 THEN {n}
        ELSE UNION {{m.children[j] : j \in DOMAIN m.children} :
                      m \in {x \in level[i - 1] : x.type = "full"}}
  IN  UNION {level[i] : i \in 0..MaxDepth}

\* The nodes in memory and the contents in the database.
Everywhere == InMemory(root) \cup {db[h] : h \in DOMAIN db}

\* The hashes by which a content names others.
HashesIn(c) ==
  CASE c.type = "leaf" -> {}
    [] c.type = "extension" -> {c.value}
    [] c.type = "full" -> {c.children[i] : i \in DOMAIN c.children}

\* Type invariant.  Under a hash there is a node of the kind that was hashed,
\* though its content may have changed; no key ends at a full node.
TypeOK ==
  /\ \A h \in DOMAIN db : db[h].type = h.type
  /\ answers \in [Key -> Value \cup {Missing}]

\* A hash that a content in the database or an extension in memory names can
\* be loaded, whatever write failed and wherever the program started again:
\* nodes are saved before what names them.
HashesResolve ==
  /\ \A h \in DOMAIN db : HashesIn(db[h]) \subseteq DOMAIN db
  /\ \A n \in InMemory(root) : n.type = "extension" => n.value \in DOMAIN db

\* A full node has two children at least, in memory and in the database, so a
\* path branches only where keys part, also after a delete or a failed call.
FullNodesBranch ==
  \A n \in Everywhere : n.type = "full" => Cardinality(DOMAIN n.children) > 1

\* The trie is a map: Get answers the value last put, for every key, through
\* all splits, nodes read back and nodes saved under old hashes; a call that
\* the database fails concerns its own key only, and takes effect or not; a
\* new trie on the old database knows nothing of it.
Map == INSTANCE KvMap WITH kv <- answers

ImplementsMap == Map!KvSpec

\* A test says of Delete "verify that the value is deleted: expected error when
\* getting deleted key" (mpt_test.go:219-222).
DeletedIsGone == call.op = "delete" /\ call.ok => answers[call.key] = Missing

=============================================================================
