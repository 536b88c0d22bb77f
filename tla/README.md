# A TLA+ model of the blockchain node

`src/` is a small account-based blockchain in Go: users hand signed transactions
to a pool, a miner mints itself a reward, executes pooled transactions on a
virtual machine that keeps its accounts in a Merkle Patricia trie, and adds a
block to a chain. A Merkle mountain range with an arithmetic circuit stands
beside it. This directory specifies that program, checks the specification with
TLC on small instances and proves part of it with TLAPS for every instance.

## 1. The system

| component | source | state | operations |
|---|---|---|---|
| transaction pool | `tx/txpool.go`, `tx/txbox.go` | `pending` (boxes per account), `queue` (by nonce), `Sortedboxes` | `NewTX` (`addQueueTx`, `addPendingTx`, `replacePendingTx`), `Pop`, `execute_one`, `Execute` |
| virtual machine | `vm/vm_basic_tx.go`, `common/account.go` | the accounts in the trie, `mintCount` | `ExecuteTransaction` (`transfer`, `executeVMOperation`), `Mint`, `NewVM` |
| block maker | `maker/block_maker.go` | `nextHeader`, `nextBody`, `receiptions`, `interrupt`, the timer of `Pack` | `MinnerRPC` (`NewBlock`, `Pack`, `Finshlist`), `Interupt` |
| chain | `block/block.go` | `CurrentHeader` | `NewHeader`, `AddBlock`, `Broadcast` (empty) |
| RPC | `RPC/User.go`, `RPC/Minner.go` | none | calls into pool and maker |
| mountain range | `merkle_trees_gnark/mmr.go`, `mmr_circuit.go` | `elements` | `AddLeaf`; proofs, `Verify`, the circuit's `Define` |
| Merkle Patricia trie | `mpt/mpt.go`, `mpt/node.go` | root node, nodes below it in memory, cached hashes, database | `Put`, `Get`, `Delete`, `NewMPT` |
| codec and signatures | `tx/transaction.go` | the transaction object | `NewTransaction`, `Sign`, `Serialize`, `GetHash`, `Deserialize`, `GetSender` |
| compact paths | `tire/Nibble.go` | none | `ToNibbles`, `ToBytes`, prefixes, `CompactEncode`, `CompactDecode`, terminal flag |
| rest | `merkle_tree.go`, `mpt/db.go`, `common/hash.go`, `stateDB/`, `tire/tire.go` | – | a circuit without constraints, LevelDB calls, hashing, unused interfaces |

How they interact: pool, VM and block maker share one state trie by pointer. The
pool reads the sender's nonce from it when a transaction arrives; the VM writes
it when a transaction executes; `Pack` moves a transaction out of the pool
*before* the VM has accepted it, and into the block body *after* the state has
changed. Nothing takes a lock, and nothing but Go's timer runs concurrently with
`Pack` unless a caller of `Interupt` does.

What is hard here is therefore not parallelism but *order*: nonces that arrive in
any order, in two structures (boxes by price, queue by nonce) that must agree
with a third (the index) and with the state; refusals halfway; slices and
pointers that alias; nodes that change under a hash computed before; writes that
fail between two others, with nothing rolled back; limits and wrap-around; and a
loop with a timer and interrupts. `PROJECT.json` lists every such hazard at its line, with the
properties that catch it or the reason why none does yet.

What makes each part correct: the pool hands out each account's nonces in order
and loses none; the VM conserves money and never destroys an account; the block
maker records exactly what was executed and always returns; the mountain range
proves each leaf it holds and no other; the trie is a map, also when a write
fails; a transaction keeps its hash on its way and is nobody's but its signer's.

## 2. Modules

| module | stands for | composed with |
|---|---|---|
| `PoolLanes` | what the pool promises: per account a run of pending nonces and a queue | implemented by `TxPool` |
| `PoolLanes_proof` | theorems about it | |
| `TxPool` | the pool as written, box by box | `INSTANCE PoolLanes` |
| `TxPool_proof` | its invariants without resubmission and whatever is resubmitted, and that it implements `PoolLanes` | `EXTENDS TxPool, FoldLemmas` |
| `Ledger` | the VM over a map of accounts | |
| `Ledger_proof` | theorems about it | `EXTENDS Ledger, FoldLemmas` |
| `KvMap` | what a key-value store promises, with failing calls | implemented by `Mpt`, relied on by `Ledger` |
| `Mpt` | the trie as written, node by node | `EXTENDS Nibbles`, `INSTANCE KvMap` |
| `Mpt_proof` | its invariants, and that it implements `KvMap` | `EXTENDS Mpt, FoldLemmas` |
| `Nibbles` | keys as half bytes, compact paths | |
| `TxCodec` | a transaction signed, encoded, decoded; its sender | |
| `TxCodec_proof` | theorems about transactions, keys and paths | `EXTENDS MCTxCodec, FoldLemmas` |
| `BlockMaker` | the node: block maker, chain, RPC | `EXTENDS Ledger`, `INSTANCE TxPool` |
| `BlockMaker_proof` | theorems about it | `EXTENDS BlockMaker, Ledger_proof`, `INSTANCE TxPool_proof` |
| `FoldLemmas` | sums over finite sets, sequences put one after the other, folds, recursion over the naturals | |
| `Mmr` | the mountain range and both verifiers | |
| `Mmr_proof` | theorems about it | `EXTENDS Mmr, FoldLemmas` |
| `MC...` | bounds, symmetry and inputs for TLC | |

**PoolLanes.** An account's lane is `head..tail`; an empty lane is `1..0`.
`addQueueTx`, `addPendingTx` and `execute_one` are the effects of the functions
of those names; a lane grows at its tail, by a nonce and everything the queue
makes consecutive (`Reaches`), and shrinks at its head. `CreateAccount` is the
VM's first write of an account: the pool refuses senders without one.

**TxPool.** `pending` is, as in the code, a sequence of boxes per account. A box
is a record with an `id`, because the code holds pointers: records with one id
are one box and are written together (`WriteBox`). `Sortedboxes` keeps address
and price of each copy, the only fields ever read. `addPendingTx` is called once
more for each queued nonce it makes consecutive: `Reached` is the last of these,
and `Placed` follows the recursion up to it with a recursive function. `SortIn` is `append` and
`sort.Sort`, which for at most 12 elements is an insertion sort, hence stable
(`MaxIndex <= 12` is assumed). `replacePendingTx` is modelled with its slice
arithmetic: `lastbox := oldtxboxes[:i]` shares its array with what is read
afterwards, so merged boxes and overwritten elements show up in the result;
whether Go's second append still fits the array is a choice (`inPlace`).
Its panics set `crashed`: an emptied box indexed at 0, and the deletion from
`Sortedboxes` while ranging over it. `popped` and `failed` are history.
`Resubmits` names the accounts that submit nonces they have pending, `Refuses`
those of whose transactions the VM may refuse one; both are sets, so that a run
can mix such accounts with others.

**Ledger.** `accounts` maps addresses to accounts or `Missing`: the trie as the
map `KvMap` promises, which `Mpt` implements. Balances wrap at `Word`, costs do not
(`big.Int`), a contract's address keeps `nonce % NonceByte`. All refusals come
before the first write, so a refused transaction is no step of the VM.
A write may fail, with an effect or without: `TransactionCut` is a transaction
that stops after the sender has paid, `MintCut` a mint that is not counted; any
other failure leaves what no call or a successful one leaves. `minted`, `burned`
and `lost` are history; gas is paid to nobody.

**Mpt.** A node is a record; `root` holds the nodes in memory, nested as the
children of full nodes are, `db` maps hashes to contents. The hash of a node is
the content that was hashed, cached in `hash` at the first `GetHash` and kept when
the node changes in place, so `db` may hold a newer content under an older hash.
`Serialize` asks the children for their hashes and so fills their caches. A full
node read back has pathless extensions for children. `insert`, `delete`
and `saveNode` thread a store (`db`, writes left before the database fails, `ok`)
through their calls; after a failure nothing more is done, and the node they
return is what the code has changed in place by then. The three call themselves:
`inserting[d]`, `deleting[d]` and `saving[d]` are the functions when calls may nest
`d` deep, each defined from the one before (`Call`), and `Walk` is the way of `get`,
step by step. `Datum` holds the arguments they are defined for: everything, in the
runs. What would nest deeper than `MaxDepth` sets `exceeded` in the store and is no
step of the specification, so the two bound what is considered and change nothing
else. `Split` is the common text of the leaf's and the extension's case of `insert`.
`NewMPT` is a restart on the old database.

**TxCodec.** `tx` is a transaction object, a signature is who signed what and
which of the two recovery bits came out. `Folded` is the chain identifier's way
into V, in arithmetic modulo `Word`; `Relay` is encoding by one and decoding by
another. `SigToPub` and rlp belong to libraries.

**Nibbles.** Every function of `tire/Nibble.go`. Where the code indexes behind a
slice there is a predicate (`EncodePanics`).

**BlockMaker.** One action per iteration of `Pack`'s loop: `Received` (interrupt
or timer, either if both are ready), `PackNone`, `PackRefused`, `PackExecuted`,
`PackFailed` (the database fails: nothing, a part or all of the transaction is in
the state, and it is in no block), and `PackDone` after the last one; `MinnerRPC`
is `minnerRPC` up to `Pack`, `AddBlock` what follows. Accounts and nonces of the pool are those of the ledger.
`UserRPC_transaction` and `MinnerRPC` happen when no packing is under way: the
program calls them one after the other and has neither lock nor goroutine; calls
from several goroutines would be data races on Go maps, which is not behaviour
to specify. `TimerFires` and `Interupt` interleave freely. The header's parent
hash is represented by the place of the parent; the proof of work accepts the
first nonce, as `validNonce` does.

**Mmr.** A hash is the sequence of what was hashed. The loops over bits are
folds over `Heights`. `Define` is the constraint system of the circuit: its
membership test is a product of comparisons that equals its own negation. The
reference definitions have no loops over bits: `Trees` is the tree of each height
over the leaves up to each one, the j-th leaf completes those whose 2^h divides j
(`SizeOf` counts them), and `Mountains` are the trees at the bits of the number of
leaves. Sizes are numbers without a width: `uint64` holds more elements than a
memory does.

## 3. Runs

| run | bounds | distinct states | shows |
|---|---|---|---|
| `lanes` | 2 accounts, nonces to 4 | 12 thousand | the abstract pool's invariants and `NoncesInOrder` |
| `pool` | 2 accounts, one of which is refused; nonces to 3, 2 prices, 3 boxes each, index 4; fairness | 57 thousand | `TxPool` implements `PoolLanes`; boxes consecutive, sorted by price, and indexed; nil means that the first account is empty; what that account has pending leaves the pool |
| `pool_replace` | 2 accounts, one of which resubmits and is refused; nonces to 2, 2 prices, 6 boxes, index 9 | 126 thousand | nonces in each box in order, and each box indexed, under aliasing |
| `ledger` | 2 users, Word 8, 2 nonce bytes, losses to 2 | 124 thousand | money is conserved but for what is cut off, accounts persist, only senders pay |
| `node` | 2 users, payments at 2 prices, 1 box each, 3 blocks, 3 rounds, 1 failure of the database, fairness | 290 thousand | chain, failures and state agree; nonces in order; mining returns |
| `mpt` | 6 keys of 2 bytes, 2 values, 4 calls, 1 of them failing at any write; calls 10 deep | 132 thousand | `Mpt` implements `KvMap`; every hash resolves; full nodes branch |
| `codec` | 3 bodies, 2 keys, chain ids none, -1, 0, 1, 33; Word 128; beside them a path growing to 5 nibbles | 54 thousand | stable encoding, no wrong sender, the signer found; keys come back from their paths |
| `mmr` | 11 leaves of 2 values | 4 thousand | shape, bitmap, proofs, circuit |
| `pool_starved` | 2 accounts, nonces to 2, 2 prices | violated | `Pop` returns nil while another account has pending transactions |
| `pool_replacement` | 1 account | violated | a replacement of a nonce inside a box is dropped |
| `mpt_delete` | as `mpt`, without failures, `Delete` anywhere | violated | a deleted key is still there |
| `compact` | as `codec` | violated | a path does not come back from its compact encoding |

Why the bounds are enough. Nonces to 3 give a queue with a gap before it, a
promotion of two transactions at once, a box of two and a box behind it; `lanes`
goes to 4, for a gap inside the queue. Two prices separate joining a box from
opening one, and let the second account come before the first in the index: that
is how a front changes in `pool`, and how in `node` both users' transactions get
into blocks. There the account comes with the first reward, so the first block
is empty, and one block takes from one account only: three blocks are the least for two
senders. Creations of contracts are left to `ledger`, whose VM the node calls.
Three boxes per account and an index longer than the boxes show entries
that outlive their box. Six boxes and nine entries let an account replace twice,
pop from the aliases, and replace again: a box that runs empty under an alias,
is enqueued into and then found by its old first nonce needs all of that.
`Word = 8` with rewards of 3 wraps after three mints, and
two nonce bytes let contract addresses collide; transactions lie at every edge
of validation (price 0, limit 0, value -1, more than the balance, to oneself, to
the zero address with and without data, to a contract). Three rounds allow a
packed transaction before and after an interrupt. Eleven leaves (1011 in binary)
reach mountains of height 3 and a gap between mountains. The trie's keys part at
the first, the second and the third nibble: a full node at the root, one inside
it in memory, one behind an extension, and leaves and extensions that are split
again. A `Put` saves the nodes below it several times over, and a failure is tried at
each of its first 24 writes; a few calls make more, most of them of nodes that
were saved before (forty give 480 states more, and no other result). Calls that nest
deeper than ten do not occur: fourteen give no state more. `Word = 128` lets a
chain identifier of 33 overflow V and one of 1 not.

Symmetry is used over the accounts of `lanes`, the users of `ledger` and the values
of the trie, only in runs without liveness properties.
Deadlock is not checked: every component stops at its bounds, and a pool or a VM
without callers rightly does nothing.

The four violated properties are quoted from the repository: the message "the
pool has been executed completely" (`block_maker.go:73`), the comment that a lower
nonce replaces the pending transaction (`txpool.go:69`), the test that a key
that was deleted is gone (`mpt_test.go:219`), and the comment "CompactDecode decodes
bytes back to nibbles" (`Nibble.go:77`). For a path of odd length there is nothing to
decode, for `CompactEncode` writes behind its result and panics (`Nibble.go:70`), which is
the counterexample; for one of even length there is a nibble too many
(`Nibble.go:88`). TLC finds the surviving key in three calls: put `0000`, put `0103`, delete one of them: the root is an extension whose
full node is read back, its children have no path, and `hasPrefix` knows no empty
prefix.

Failures. A database that fails does so at one write of a call, with everything
before it written; the caller gets an error and the program goes on (`mpt`,
`ledger`, `node`). What was changed in memory by then stays changed. A restart is
`NewMPT` on the old database. No component retries or rolls back, so there is
nothing of the kind to model.

## 4. Fairness

`TxPool!FairSpec`: weak fairness of `execute_one`. The scheduler of the pool is
the miner, who calls `Pop` until nothing comes back. `PendingExecutes` speaks of the
account `Pop` looks at, the first of the index: what it has pending is given to the VM, or a
cheaper box of another account comes before it. Of the accounts behind it nothing
can be promised, as `pool_starved` shows, fairness or not; with a single sender there are none.
`BlockMaker!FairSpec`: weak fairness of the steps of `minnerRPC` alone, once it
was called: Go runs a goroutine that can run. Users, miners, the timer and
`Interupt` get none; `MiningReturns` holds because each iteration is counted,
whatever is received.

## 5. Theorems

Every theorem is proved for all values of the constants that satisfy the named
assumptions of the module: any number of accounts, any bounds, any word size. The
parts build on each other: the pool's proofs refine the promise of `PoolLanes`,
the node's use the invariant of the pool and what each write does to the accounts.

**Lanes.** `PoolLanes_proof` proves, from `MaxNonceAssumption`: the types,
`AccountBehind`, `QueueGapped`, `HeadIsNext`, and `NoncesInOrder`. The inductive
invariant is `TypeOK /\ LaneInv`. The three parts of `LaneInv` need each other:
that a drained lane leaves the queue behind a gap (`QueueGapped` after
`execute_one`) holds because the account's nonce was below the lane's head
(`AccountBehind`), and that in turn survives an empty lane because what is
appended is above the account's nonce. `HeadIsNext` is what makes `NoncesInOrder`
follow from one step: an account without a refusal continues at `nonce + 1`.

**Folds.** `FoldLemmas` holds what the other proofs need to know of
`SumFunction` and `FlattenSeq`. The library defines both as recursive functions,
of which nothing is known before one shows that such a function exists and that
there is one only (`SumIsSumsUp`, `FlattenIsFlattens`). The inductions
are arguments by a least counterexample (`LeastNatural`, `MinimalSubset`), because
the library's induction theorems take a predicate as a parameter and these take
a set. The results: a sum changes as one of its terms does (`SumUpdate`) and bounds
its terms if none is negative (`SumBounds`); what is appended to a sequence of
sequences comes last in their concatenation (`FlattenAppend`). For the loops of
the mountain range and of a replacement there is the function behind a `FoldLeft`
(`FoldsExist`, with `LastIndex` for its steps) and the states it passes (`FoldRuns`), and for recursive functions over the naturals, whose
base, step and the place they look back to are given as functions,
`RecursionExists`.

**Pool.** `TxPool_proof` proves the invariant `PoolInv` for a pool in which no
pending nonce is resubmitted (`Resubmits = {}`, which is how `pool` and
`node` run). What has to be inductive is `BoxesInv`: the boxes of an account hold
one run of nonces from the first box to the last, each box's `firstnonce` and
`lastnonce` are those of its transactions, boxes get strictly cheaper, hold
something, and have different ids (`BoxesRun`); `Sortedboxes` is ordered, and each
box has an entry for it (`Covers`). Strictly falling prices are why `Covers`
need not count: no two boxes of an account share a price. A panic of `Enqueue`
is then impossible, since `addPendingTx` compares with the same `lastnonce`.
`addPendingTx` promotes any number of queued transactions in one step; the lemmas
about `Placed` go up its recursive function one nonce at a time, to a bound that
`Reached` has. From `PoolInv` follow
`PendingContiguous`, `BoxesByPrice`, and `NilMeansFrontEmpty`: since each box has its
entry, a nil means that the index is empty and nothing is pending, or that the account of its
first entry has nothing. For one account that is `NilMeansEmpty`
(`PoolNilMeansEmpty`); with two it is false, as `pool_starved` shows.
`PoolImplementsLanes` is the refinement: a lane is read off its boxes
(`Flattened`), a call of `addPendingTx` moves its tail to `Reached` and takes the
same nonces from the queue as `PoolLanes!addPendingTx`, `Pop` moves its head, and
everything else leaves it alone.

**Resubmission.** The second part of `TxPool_proof` drops both hypotheses: any account may
resubmit any pending nonce and the VM may refuse anything. Little of `PoolInv`
survives that: a replacement doubles boxes, leaves aliases and copies, and drops
transactions, so `BoxesRun` and falling prices are gone, and `Covers` has to
count. What is inductive (`FoundInv`) is weaker and of another kind. The boxes of
an account are a *set* (`Boxes`) whose members are each in order and agree on
their price when they have one id (`Sound`); a sequence of members of a sound
set is sound, wherever its elements were copied from (`SoundSeq`), which is why
the overwritten array that `Rebuilt` reads twice does no harm. A write through a
pointer keeps a set sound with any other boxes beside it (`WriteSound`, with the
boxes of the old array beside those of the new one). The index holds an entry of
its own for every element: an injection from the places of the boxes to the
places of the index (`FindsBy`), which `SortIn` extends by one and the deletion
loop of `Without` follows through its skipped entries (`DeleteFinds`). The three
loops of a replacement are folds; each is turned into a run of states
(`FoldRuns`) that keeps its own invariant, `CutState` and `WithoutState`: from
where the code panics nothing is said. From `FoundInv` follow `TypeOK`,
`BoxesInOrder` and `IndexCoversPending`, without a hypothesis.

The proof corrected a property. That a box is one run of nonces, which is what
`Enqueue` checks and a smaller run had not refuted, is false once boxes have
aliases. `Dequeue` leaves `firstnonce` as it is when a box runs empty, the box
stays pending under its other pointer, and the next transaction is enqueued into
it; it then begins behind its `firstnonce`. A resubmission that finds the box by
`firstnonce` overwrites a transaction of another nonce. `BoxesInOrder` therefore
lets the first nonce of a box be any that is not below `firstnonce`, and the run
was enlarged until it reaches that state.

**Ledger.** `Ledger_proof` proves for any set of transactions with the
fields the VM reads (`IsTx`), from `LedgerAssumption`: `LedgerTypeOK`;
`AccountsPersist`, by a relation `Keeps` between two states of the accounts that
every single write has and that is transitive; `Conservation`; and
`OnlySendersPay`. For `Conservation` the sum over all accounts is
followed write by write (`Holdings`): each write changes one term, by a remainder
modulo `Word`, so the sum changes by that much up to a multiple of `Word`. The exact equation needs that nobody's
balance overflows while `minted < Word`: a balance is at most the supply, because
balances are not negative. That a receiver is read after the sender has paid is
what the case of a transfer to oneself rests on.

**Node.** `BlockMaker_proof` proves, from `LedgerAssumption` and
`MakerAssumption` (a mint limit of at least 1 among it) and nothing else, `TypeOK`, `BlocksExplainState`,
`BlocksInNonceOrder` and `ReceiptsFollowBlocks`. Each step is first classified by
its effect on the books (`StepEffect`): nothing (`Quiet`), a reward given or
missed (`Rewarded`, `Unrewarded`), a transaction taken from the pool and lost
(`Loses`), executed and packed (`Runs`), or executed, wholly or partly, and lost
(`Fails`). The inductive invariant `NodeInv` is then kept by each of these six.
Beyond the properties themselves it holds `HeadsNext`, that an account without a
loss waits for the head of its lane, and `FailuresMarked`, that whoever had a
failure is in `refused`. Without the two, `BlocksInNonceOrder` is not inductive:
the next transaction packed has to have as its nonce one more than the number
packed before, which is the account's nonce (`NoncesExplained`) only if nothing
of this user failed. `TypeOK` too needs more than itself: `NodeTypes` adds the
pool's `BoxesInv`, taken over by `INSTANCE` (the lemmas `Same...` identify the two
imported copies of the pool's definitions).

**Codec.** `TxCodec_proof` proves all four invariants of the codec for any bodies,
receivers, chain identifiers and keys and any word size above 64, from
`CodecAssumption`. `SignedInv` is the inductive invariant: the object carries a
signature by `signer` of its own `Digest`, and its V is 27 plus the recovery bit,
folded or not (`Holds`); without a signer it carries none. Relaying keeps the
digest, since a chain identifier of nil is encoded as 0, and folds V at most once
(`FoldedOnce`): a folded V is at least 35, so it is neither folded again nor taken
for a recovery bit. That fails when V wraps, and so `SenderOrNobody` and
`WireStable` speak of chain identifiers that fit.

**Paths.** `TxCodec_proof` proves for keys and paths of every length that a key
comes back from its nibbles (`KeysKept`) and a path of even length from its bytes
(`PathsKept`), that the common prefix of two paths ends where they differ
(`PartWhereTheyDiffer`, on which the trie's splitting relies), and that the terminal
flag can be taken off again (`TerminalFlagKept`). `KeysRoundTrip`, which `codec` checks on
short paths, follows for all behaviours. `CompactNeverExact` is the other half of
what `compact` finds: no path whatever comes back from its compact encoding.

**Trie.** `Mpt_proof` proves, for keys of any one length, any values, any number of
calls, a failure at any write of any of them, and restarts at any time: `TypeOK`,
`HashesResolve` and `FullNodesBranch` (`MptTyped`, `MptHashesResolve`,
`MptFullNodesBranch`), and that the trie is a map (`MptImplementsMap`). All four
assume `~AnyDelete`: deletions where `DeletesCleanly`, since elsewhere the last one is
false, as `mpt_delete` shows. `MptImplementsMap` assumes `KeysPart(first)` too, for some number
`first` of nibbles: without it the five puts of section 6 refute it.

The difficulty is that a node is saved under the hash of what it once was. So the
invariant gives each hash a *place* in the trie (`R`), and says that a hash of a
place, and whatever content is under it, fit that place (`Fits`, `Sound`): what they
name is where their paths lead. Overwriting a content then changes what keys find
but not where they look. What a place is depends on the theorem, so the proof is
about any `Frame`, of which there are two. In `Rank` a place is how much of a key is
left there; it suffices for the invariants, whatever the keys are. In `Position`
it is the beginning of the keys that come there, of at most `first` nibbles; no
node is further down, because any two keys have parted by then. There the content of
a leaf determines its place, for the nibbles behind the first ones tell the
key (`KeysPart`), and so no key is saved over another.

- *Nodes.* `Good` says of a node in memory and all below it that each stands at its
  place (`Own`): its cached hash is one of this place, perhaps not of what it now is.
  Children that were read back are told apart (`"any"`, `"kept"`, `Wrapping`): their
  hashes are exactly their contents, and nodes kept as the root have none of them.
- *Answers.* `Within` says which answers keys may find from a node on: a set `B` of
  answers per place and rest of the key. `Good` and `Within` are about a set of nodes
  closed under going down, not about a recursion, so they need no induction.
- *Writing.* A write of a node whose keys find allowed answers keeps every other node
  within the answers it had (`WriteKeeps`), provided children are saved before what
  names them. For a call this is `Later`, and it is transitive (`LaterFurther`), also
  across a failure.
- *Calls.* `NodeSaved`, `NodeInserted` and `NodeDeleted` say what `saveNode`, `insert`
  and `delete` do at any depth. They rest on a least counterexample over the depth
  (`SavingSaves`, `InsertingInserts`, `DeletingDeletes`), with one lemma for each kind
  of node below. `SplitChanged` is the longest: three nodes are saved, any of which
  may be the last.
- *One key.* During a call the key concerned may find its old or its new answer, the
  others only theirs (`Differ`, `Agree`). `ChangedHolds` turns that into the state
  after the call. `Get` then gives the key one of the two, and `Narrowed` makes what it gives
  the only one allowed (`HoldsExactly`): that is a step of `KvMap`, whether the
  call failed or not.

`Standing` (with `Rank`) and `Mapped` (with `Position`) are the inductive invariants;
both start from an empty trie over any sound database, which is what `NewMPT`
leaves.

**Mountain range.** `Mmr_proof` proves all four properties
of the range for any leaves and any number of them: `BitmapAlwaysCounts`,
`ElementsAlwaysMountains`, `ProofsAlwaysVerify`, `CircuitAlwaysAgrees`. The
invariant is `RangeOK`, inductive by itself: there are `SizeOf(n)` elements over n
leaves, and each whole block of 2^h leaves, numbered c from 0, has its tree at
`TopAt(h, c)` (`TreesInPlace`). The argument has five parts.

- *Numbers.* The leaf after n others completes one tree for each of the ones that n
  ends with in binary (`Ones`), and one more: `SizeStep`. Therefore 2^h leaves make
  one tree of height h (`SizeOfTree`), and the size of a sum splits where the higher
  part is a multiple of 2^h (`SizeSplit`, `SizeAdds`).
- *Bitmap.* The greedy loop of `HeightBitmapForMMRSize`, started anywhere from
  `SizeOf(n)` to the last element that the next leaf brings, finds the bits of n
  and how far it started behind (`Seen`, `BitmapIs`).
- *Joins.* So `AddLeaf` joins as many peaks as n ends with ones, and the peak it takes
  for height h stands where the block before the new one has its tree
  (`BlocksSideBySide`, `NewTreesInPlace`). Trees of leaves that stay, stay
  (`TreesStay`).
- *Peaks.* Below height h the loop of `GetPeaks` has passed the leaves up to the last
  multiple of 2^h and collected the mountains over them (`Peaked`);
  `MountainTops` says which trees these are.
- *Climb.* The loop of `GetSubtreeProofElm` is always at the top of the block that
  holds the leaf (`OnTheWay`). Whether the block is odd or even is what the bitmap of
  the elements before its sibling tells (`HeightsAt`), and whether an even one has a
  sibling is what the length tells (`TopInRange`); without one the block is a mountain
  (`AtPeak`). The path then leads from any leaf to the top that the mountain would
  have with this leaf in place of its own. A tree tells its height (`HeightsDiffer`)
  and its leaves (`TreesTell`), so only the range's own leaf reaches a peak.

For the circuit, a product of comparisons is 0 exactly if one of them is, and then
equals its negation (`DefineIsVerify`); the lemma holds for any proof with a peak and
any root.

**Model-checked only.**

- Liveness (`PendingExecutes`, `MiningReturns`), which the prover cannot do.
- That calls of the trie end: the theorems are about the calls that `MaxDepth` and
  `Datum` admit, any number and any set; on the keys of `mpt` no call needs more than
  ten levels.

## 6. What the model does not promise

Some things one might expect are false of this code, and no property says them.
After a refusal the account's nonce lags behind what was executed, and since the
VM never looks at the nonce, `NewTX` accepts executed nonces again; so
`NoncesInOrder` and `BlocksInNonceOrder` speak of accounts without a refusal.
With resubmission, transactions may be doubled or lost among the boxes
(`replacePendingTx`), a queued nonce may wait behind no gap, and the pool may
panic; `pool_replace` checks what survives and
`TxPool_proof` proves it. A second transaction for a queued
nonce replaces the first whatever it pays, where `tx/txpool.md:12`, text about
another program's pool, keeps the dearer one. The mint limit is per VM, and the
miner makes a new one each time, so nothing bounds what a miner is given. `Interupt` waits for ever without a `Pack`. When
the packing time is over the loop goes on: the break leaves the `select` only, and
where the comment at `block_maker.go:62` wants it to stop, and what is checked is only
that mining returns. Every block has height 0 and no
parent hash, for a parent of height 0 counts as none.

The trie is a map for keys of one length, which addresses are. Beyond that:

- `Delete` works where the key ends at a leaf in memory whose full node keeps two
  children, or is the root (`DeletesCleanly`); elsewhere it does nothing, or merges
  a branch into its last child and so moves the keys below (`mpt.go:414`), of which no
  property speaks. `mpt` calls it where it works, `mpt_delete` everywhere. Nothing in the node
  calls it.
- Keys that are prefixes of other keys lose their value.
- Two keys whose leaves have equal content, that is, the same remaining path and
  the same value, share a database entry; when one changes in place it is saved
  under the old hash and the other key reads its value. It takes five puts
  (`0000`, `0010`, `0100`, `1000`, `1100`). `KeysPart` rules it
  out; for addresses, which are hashes, it is improbable, not impossible.
- A `Put` that fails while an extension and what is below it are saved may leave the
  extension's child not yet saved the way it is read back, with pathless children. A
  `Delete` of an absent key below it then computes the hash of the child as read,
  makes the extension name it (`mpt.go:377`) and saves nothing under it: every key
  below is lost. The proof of the trie found this; `DeletesCleanly` excludes it in its
  last condition.

The codec recovers no sender from a transaction that was relayed with a chain
identifier above 0, for V is folded and never unfolded; a contract creation
without a receiver is encoded and not decoded; a chain identifier near 2^63 makes
V overflow. The VM takes a failing read for a missing account (`GetAccount`), so
the promises about failures are about writes.

## 7. Not modelled, and the plan

The model of the VM takes the trie as a map and senders as recovered, which is
what `Mpt` and `TxCodec` show under the conditions named above; hashes are free of
collisions throughout, also where the code reduces what it hashes into a field first
(`common/hash.go:18-19`). `AddLeaf` panics when the hash function refuses a leaf
(`mmr.go:91-93`); the leaves of the model are those it takes. The order of the work ahead:

1. The nonces accepted twice after a refusal, and failing reads, as far as the
   code promises anything there.
2. `Delete` beyond `DeletesCleanly`, should the code repair it: `mpt_delete` would
   then pass and the theorems about the trie lose a hypothesis.

Left out for good: `merkle_tree.go`, whose circuit asserts nothing (its
assertions are commented out); LevelDB itself, of which the trie uses `Put` and
`Get`; the bodies of the hash functions and the text forms of addresses and
hashes; `stateDB/` and `tire/tire.go`, interfaces nobody implements or uses;
`Broadcast` (empty); the contract call of `vm_basic_tx.go:167-192` (unreachable:
`ExecuteTransaction` calls it for creations only); and printing.
