----------------------------- MODULE BlockMaker -----------------------------
(***************************************************************************)
(* A node: the block maker (src/maker/block_maker.go) between the pool and *)
(* the virtual machine, the chain it writes (src/block/block.go) and the   *)
(* calls of users and miners (src/RPC).                                    *)
(*                                                                         *)
(* Users and miners call one after the other: nothing in the code starts a *)
(* goroutine or takes a lock.  What does run beside Pack is the timer it   *)
(* starts and the callers of Interupt, who wait until Pack receives.       *)
(***************************************************************************)
EXTENDS Ledger, SequencesExt

CONSTANTS
  Payload,      \* [limit, value, to, data] of the transactions users send
  NoTx,         \* the nil *Transaction
  MaxNonce,     \* bound: the largest nonce a user uses
  MaxPrice,     \* bound: the largest gas price
  MaxBoxes,     \* bound: the boxes of an account
  MaxIndex,     \* bound: the length of Sortedboxes
  Rounds,       \* iterations of the loop in Pack, 100 in the code
  MaxBlocks,    \* bound: blocks mined
  MaxWaiting,   \* bound: callers of Interupt at a time
  MaxFailures   \* bound: calls of the VM the database has failed in

ASSUME MakerAssumption ==
  /\ Rounds \in Nat \ {0} /\ MaxBlocks \in Nat /\ MaxWaiting \in Nat
  /\ MaxFailures \in Nat
  /\ MintLimit > 0
  /\ MaxNonce \in Nat \ {0} /\ MaxPrice \in Nat \ {0}
  /\ MaxBoxes \in Nat \ {0} /\ MaxIndex \in Nat \ {0} /\ MaxIndex <= 12
  /\ Payload \subseteq [limit : Nat, value : Int, to : Address \cup {Nil},
                        data : BOOLEAN]
  /\ NoTx \notin [nonce : 1..MaxNonce, price : 1..MaxPrice, pay : Payload]

VARIABLES
  pending, queue, Sortedboxes, crashed,   \* maker.Txpool
  pc,            \* "idle", "packing" or "sealing": how far minnerRPC is
  round,         \* i of the loop in Pack
  timer,         \* end: "armed", "fired", or "off" once received
  waiting,       \* callers blocked in Interupt
  CurrentHeader, \* chain.CurrentHeader
  nextHeader,
  nextBody,
  receiptions,
  blocks,        \* history: the bodies of the blocks added to the chain
  refused,       \* history: users one of whose transactions the VM refused
  failed         \* history: what the VM did although the database failed

poolVars == <<pending, queue, Sortedboxes, crashed>>
packVars == <<pc, round, timer>>
chainVars == <<CurrentHeader, blocks>>
blockVars == <<nextHeader, nextBody, receiptions>>
vars == <<ledgerVars, poolVars, packVars, waiting, chainVars, blockVars,
          refused, failed>>

\* The pool reads the accounts from the state trie the VM writes.
Pool == INSTANCE TxPool WITH
  Addr      <- User,
  exists    <- {u \in User : accounts[u] # Missing},
  nonce     <- [u \in User |-> GetAccount(accounts, u).nonce],
  popped    <- [u \in User |-> 0],
  failed    <- {},
  Resubmits <- {},
  Refuses   <- User

\* A transaction of the pool as the VM reads it.
VmTx(t) == [nonce |-> t.nonce, price |-> t.price, limit |-> t.pay.limit,
            value |-> t.pay.value, to |-> t.pay.to, data |-> t.pay.data]

\* The hash of a block's header stands for the block: its place in the chain.
NoHash == 0

Init ==
  /\ LedgerInit
  /\ pending = [u \in User |-> <<>>]
  /\ queue = [u \in User |-> {}]
  /\ Sortedboxes = <<>>
  /\ crashed = FALSE
  /\ pc = "idle"
  /\ round = 0
  /\ timer = "off"
  /\ waiting = 0
  /\ CurrentHeader = [height |-> 0, parent |-> NoHash, coinbase |-> Zero]
  /\ nextHeader = CurrentHeader
  /\ nextBody = <<>>
  /\ receiptions = <<>>
  /\ blocks = <<>>
  /\ refused = {}
  /\ failed = <<>>

-----------------------------------------------------------------------------

\* A user sends a transaction to the pool; an error is only printed.
UserRPC_transaction(u, t) ==
  /\ pc = "idle"
  /\ UNCHANGED ledgerVars
  /\ Pool!NewTX(u, t)
  /\ UNCHANGED <<packVars, waiting, chainVars, blockVars, refused, failed>>

\* A parent of height 0 counts as no parent.  The root is never filled in.
NewHeader(parent, miner) ==
  IF parent.height = 0
  THEN [height |-> 0, parent |-> NoHash, coinbase |-> miner]
  ELSE [height |-> parent.height + 1, parent |-> Len(blocks), coinbase |-> miner]

\* minnerRPC up to Pack: a new VM mints the reward, the next block is empty.
\* If the database fails there may be no reward; the error is dropped.
MinnerRPC(m) ==
  /\ pc = "idle"
  /\ Len(blocks) < MaxBlocks
  /\ \/ /\ accounts' = [accounts EXCEPT ![m] = Minted(m)]
        /\ mintCount' = [x \in Address |-> IF x = m THEN 1 ELSE 0]
        /\ minted' = minted + MintAmount
        /\ UNCHANGED failed
     \/ /\ Len(failed) < MaxFailures
        /\ mintCount' = [x \in Address |-> 0]
        /\ failed' = Append(failed, [from |-> m, tx |-> NoTx])
        /\ UNCHANGED <<accounts, minted>>
  /\ nextHeader' = NewHeader(CurrentHeader, m)
  /\ nextBody' = <<>>
  /\ pc' = "packing"
  /\ round' = 0
  /\ timer' = "armed"
  /\ UNCHANGED <<burned, lost, poolVars, waiting, chainVars, receiptions, refused>>

\* time.After delivers once.
TimerFires ==
  /\ timer = "armed"
  /\ timer' = "fired"
  /\ UNCHANGED <<ledgerVars, poolVars, pc, round, waiting, chainVars, blockVars,
                 refused, failed>>

\* A caller of Interupt waits: the channel has no buffer.
Interupt ==
  /\ waiting < MaxWaiting
  /\ waiting' = waiting + 1
  /\ UNCHANGED <<ledgerVars, poolVars, packVars, chainVars, blockVars, refused, failed>>

\* Fault: the loop is left one iteration too late.
Received_late ==
  /\ pc = "packing" /\ round <= Rounds
  /\ \/ /\ waiting > 0
        /\ waiting' = waiting - 1
        /\ UNCHANGED timer
     \/ /\ timer = "fired"
        /\ timer' = "off"
        /\ UNCHANGED waiting
  /\ round' = round + 1
  /\ UNCHANGED <<ledgerVars, poolVars, pc, chainVars, blockVars, refused, failed>>

\* Fault: an iteration that received something is not counted.
Received_uncounted ==
  /\ pc = "packing" /\ round < Rounds
  /\ \/ /\ waiting > 0
        /\ waiting' = waiting - 1
        /\ UNCHANGED timer
     \/ /\ timer = "fired"
        /\ timer' = "off"
        /\ UNCHANGED waiting
  /\ UNCHANGED <<ledgerVars, poolVars, pc, round, chainVars, blockVars, refused, failed>>

\* Pack receives an interrupt or the end of the time.  The break leaves the
\* select; all it costs is one iteration of the loop.
Received ==
  /\ pc = "packing" /\ round < Rounds
  /\ \/ /\ waiting > 0
        /\ waiting' = waiting - 1
        /\ UNCHANGED timer
     \/ /\ timer = "fired"
        /\ timer' = "off"
        /\ UNCHANGED waiting
  /\ round' = round + 1
  /\ UNCHANGED <<ledgerVars, poolVars, pc, chainVars, blockVars, refused, failed>>

\* The default case of the select: neither of the two is ready.  Each call of
\* pack makes a new VM and pops one transaction.
Packs ==
  /\ pc = "packing" /\ round < Rounds
  /\ waiting = 0 /\ timer # "fired"
  /\ mintCount' = [x \in Address |-> 0]
  /\ UNCHANGED <<minted, timer, waiting, chainVars, nextHeader>>

\* Pop has nothing: "no transaction to pack" ends the block.
PackNone ==
  /\ Packs
  /\ Pool!Popped = NoTx
  /\ Pool!Pop \/ (~Pool!CanPop /\ UNCHANGED poolVars)
  /\ pc' = "sealing"
  /\ UNCHANGED <<accounts, burned, lost, round, nextBody, receiptions, refused,
                 failed>>

\* Fault: a refused transaction goes into the block.
PackRefused_kept ==
  /\ Packs
  /\ Pool!Popped # NoTx
  /\ LET from == Pool!PopAddr
     IN  /\ Refused(from, VmTx(Pool!Popped))
         /\ nextBody' = Append(nextBody, [from |-> from, tx |-> Pool!Popped])
         /\ refused' = refused \cup {from}
  /\ Pool!Pop
  /\ pc' = "sealing"
  /\ UNCHANGED <<accounts, burned, lost, round, receiptions, failed>>

\* The VM refuses the transaction: it is lost, and the block is closed.
PackRefused ==
  /\ Packs
  /\ Pool!Popped # NoTx
  /\ LET from == Pool!PopAddr
     IN  /\ Refused(from, VmTx(Pool!Popped))
         /\ refused' = refused \cup {from}
  /\ Pool!Pop
  /\ pc' = "sealing"
  /\ UNCHANGED <<accounts, burned, lost, round, nextBody, receiptions, failed>>

\* The VM accepts it: it goes into the block.
PackExecuted ==
  /\ Packs
  /\ Pool!Popped # NoTx
  /\ LET from == Pool!PopAddr
         item == [from |-> from, tx |-> Pool!Popped]
     IN  /\ ExecuteTransaction(from, VmTx(Pool!Popped))
         /\ nextBody' = Append(nextBody, item)
         /\ receiptions' = Append(receiptions, item)
  /\ Pool!Pop
  /\ round' = round + 1
  /\ UNCHANGED <<pc, refused, failed>>

\* The database fails: the VM returns an error after nothing, a part or all of
\* the transaction.  The block does not get it, and is closed.
PackFailed ==
  /\ Packs
  /\ Pool!Popped # NoTx
  /\ Len(failed) < MaxFailures
  /\ LET from == Pool!PopAddr
         t    == Pool!Popped
     IN  /\ ~Refused(from, VmTx(t))
         /\ refused' = refused \cup {from}
         /\ \/ /\ TransactionCut(from, VmTx(t)) \/ ExecuteTransaction(from, VmTx(t))
               /\ failed' = Append(failed, [from |-> from, tx |-> t])
            \/ UNCHANGED <<accounts, minted, burned, lost, failed>>
  /\ Pool!Pop
  /\ pc' = "sealing"
  /\ UNCHANGED <<round, nextBody, receiptions>>

\* The loop of Pack has run its course.
PackDone ==
  /\ pc = "packing" /\ round = Rounds
  /\ pc' = "sealing"
  /\ UNCHANGED <<ledgerVars, poolVars, round, timer, waiting, chainVars,
                 blockVars, refused, failed>>

\* Finshlist accepts the first proof of work and AddBlock moves the chain on.
AddBlock ==
  /\ pc = "sealing"
  /\ CurrentHeader' = nextHeader
  /\ blocks' = Append(blocks, nextBody)
  /\ nextBody' = <<>>
  /\ pc' = "idle"
  /\ round' = 0
  /\ timer' = "off"
  /\ UNCHANGED <<ledgerVars, poolVars, waiting, nextHeader, receiptions, refused,
                 failed>>

minnerRPC ==
  \/ Received
  \/ PackNone \/ PackRefused \/ PackExecuted \/ PackFailed \/ PackDone
  \/ AddBlock

Next ==
  \/ \E u \in User, t \in Pool!Tx : UserRPC_transaction(u, t)
  \/ \E m \in User : MinnerRPC(m)
  \/ TimerFires
  \/ Interupt
  \/ minnerRPC

Spec == Init /\ [][Next]_vars

\* Go runs the goroutine that packs until it returns.
FairSpec == Spec /\ WF_vars(minnerRPC)

-----------------------------------------------------------------------------

\* Everything packed so far, the block being packed included.
Packed == FlattenSeq(blocks) \o nextBody

\* The places of a user's transactions in a sequence.
PlacesOf(u, s) == {i \in DOMAIN s : s[i].from = u}

\* What the transactions in a sequence pay for gas.
Gas(s) ==
  SumFunction([i \in DOMAIN s |->
                 IF s[i].tx = NoTx THEN 0 ELSE s[i].tx.price * s[i].tx.pay.limit])

\* Type invariant.
TypeOK ==
  /\ LedgerTypeOK
  /\ ~crashed
  /\ pc \in {"idle", "packing", "sealing"}
  /\ round \in 0..Rounds
  /\ timer \in {"armed", "fired", "off"}
  /\ waiting \in 0..MaxWaiting
  /\ CurrentHeader.height \in Nat /\ nextHeader.height \in Nat
  /\ refused \subseteq User

\* The chain and the failures of the database explain the state: each user's
\* nonce is the number of the user's transactions in the blocks and of those
\* that failed, and the money in the accounts is one reward a block less the
\* gas and the losses.  So what the VM executed is in exactly one block unless
\* the database failed, and what it refused is in none.
BlocksExplainState ==
  /\ \A u \in User :
       GetAccount(accounts, u).nonce =
         Cardinality(PlacesOf(u, Packed))
           + Cardinality({i \in PlacesOf(u, failed) : failed[i].tx # NoTx})
  /\ minted = MintAmount * (Len(blocks) + (IF pc = "idle" THEN 0 ELSE 1)
                              - Cardinality({i \in DOMAIN failed : failed[i].tx = NoTx}))
  /\ burned = Gas(Packed) + Gas(failed)
  /\ (Supply - (minted - burned - lost)) % Word = 0

\* The blocks hold the transactions of a user in the order of their nonces,
\* from 1 on, with none missing or twice, as long as the VM has not refused
\* one of them.
BlocksInNonceOrder ==
  \A u \in User \ refused : \A i \in PlacesOf(u, Packed) :
    Packed[i].tx.nonce = Cardinality({j \in PlacesOf(u, Packed) : j <= i})

\* receiptions holds one entry for each transaction of the chain, in order; it
\* is never started anew for a block.
ReceiptsFollowBlocks == receiptions = Packed

\* A call of MinnerRPC returns, whatever users, timer and Interupt do.
MiningReturns == pc = "packing" ~> pc = "idle"

=============================================================================
