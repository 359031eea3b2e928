------------------------------- MODULE StakeDB -------------------------------
(***************************************************************************)
(* stakedb.StakeDatabase and stakedb.ChainMonitor: the stake node (in      *)
(* memory and in ffldb), the ticket pool diffs (in memory and in badger),  *)
(* the live ticket cache and the cache of recent blocks, as blocks are     *)
(* connected, reorganised away and connected again, with RPC and disk      *)
(* failures and crashes at any point, and the next start: the recovery of  *)
(* the two databases, main.go's comparison of ChainDB with dcrd, the purge *)
(* and the rewind that follow from it, and SyncChainDB.                    *)
(*                                                                         *)
(* The notifier is represented by what it promises its handlers: blocks    *)
(* are delivered at the height after the last recorded block, and every    *)
(* reorganisation of dcrd is delivered after the fact, in order.  ChainDB  *)
(* is its best main chain row, with the chain of that block below it, and  *)
(* the best block in its meta table (Notifier models the rows).            *)
(***************************************************************************)
EXTENDS BlockTree, FiniteSets

CONSTANTS
    TicketsIn,      \* the tickets bought in each block
    Winners,        \* the tickets that leave the live pool in a child of each block
    TicketMaturity, \* params.TicketMaturity
    RecoverDepth,   \* main.go rewinds this many blocks when recovery is needed
    Reach,          \* the blocks dcrd comes to, for each set of {"rpc", "undo", "stakeWrite",
                    \*   "poolWrite", "crash"} that is to go wrong in a behaviour
    MaxCrashes,     \* bound on the number of crashes
    NoBlock,        \* no block cached at a height
    NoDiff          \* no diff stored at a height

(***************************************************************************)
(* Forks are shallower than TicketMaturity (256 blocks on mainnet, where   *)
(* dcrd soft-limits reorganisations to 6): the block whose tickets mature  *)
(* is the same one on every branch.  The code relies on it when it looks   *)
(* up the maturing block by its height.                                    *)
(***************************************************************************)
ASSUME ShallowForksAssumption ==
    \A a, b \in Block :
        LET h == Height(a) - TicketMaturity
        IN  h \in 0 .. Height(b) => BlockAt(a, h) = BlockAt(b, h)

ASSUME BoundsAssumption ==
    TicketMaturity \in Nat /\ RecoverDepth \in Nat /\ MaxCrashes \in Nat /\ NoBlock \notin Block

\* dcrd has a highest block.
ASSUME HeightsAssumption == \E h \in Heights : \A k \in Heights : k <= h

MaxHeight == CHOOSE h \in Heights : \A k \in Heights : k <= h

VARIABLES
    bestNode,        \* BestNode with its undo data: one [blk, live] per height
    stakeDisk,       \* the stake node as written by StakeDB.Update
    diffs,           \* PoolDB.diffs
    diffDB,          \* PoolDB.diffDB
    liveTicketCache, \* liveTicketCache (poolValue is the sum of its values)
    blockCache,      \* blockCache, by height
    lostTickets,     \* history: the tickets undoDiff could not fetch since the cache was filled
    job,             \* the call of the stake database in progress: blocks to undo, then to connect
    connected,       \* ConnectBlock between connectBlock and PoolDB.Append
    status,          \* "up", "down", "loading", "recovering", "starting" or "panicked"
    recoverTo,       \* the height LoadAndRecover or main.go is to rewind to
    stage,           \* main.go: "check", "purge", "rewind", "import", "failed", "listen", "live"
    storing,         \* what ChainDB is to do once the stake database is done
    chainDB,         \* the best main chain block of ChainDB's blocks table
    chainMeta,       \* the best block in ChainDB's meta table
    previous,        \* notifier.previous
    missed,          \* history: dcrd moved between SyncChainDB and Listen of this start
    best,            \* dcrd's best block
    announced,       \* the blocks dcrd has announced as connected
    reorgQ,          \* reorganisations not yet handled
    crashes,         \* number of crashes so far
    faults           \* what may go wrong in this behaviour, a member of DOMAIN Reach

cache  == <<liveTicketCache, lostTickets>>
memory == <<bestNode, diffs, cache, blockCache, job, connected>>
disk   == <<stakeDisk, diffDB>>
node   == <<best, announced, reorgQ, missed>>
tables == <<chainDB, chainMeta>>
main   == <<stage, storing, tables, previous>>
vars   == <<memory, disk, status, recoverTo, main, node, crashes, faults>>

-----------------------------------------------------------------------------
(* Tickets.                                                                *)

Tickets == UNION {TicketsIn[b] : b \in Block}

ApplyDiff(p, d) == (p \cup d.In) \ d.Out
UndoDiff(p, d)  == (p \cup d.Out) \ d.In

EmptyDiff == [In |-> {}, Out |-> {}]

PoolDiff == [In : SUBSET Tickets, Out : SUBSET Tickets]

\* PoolDB.Pool(h), as TicketPool computes it from the diffs.
PoolAt(ds, h) ==
    LET pool[i \in 0 .. h] == IF i = 0 THEN {} ELSE ApplyDiff(pool[i - 1], ds[i])
    IN  pool[h]

\* The true live set at each block, from the chain it is on.
LiveAt[b \in Block] ==
    IF b = Genesis THEN {}
    ELSE LET m == Height(b) - TicketMaturity
         IN  (LiveAt[Parent[b]] \cup (IF m >= 0 THEN TicketsIn[BlockAt(b, m)] ELSE {}))
                \ Winners[Parent[b]]

\* The winners at a block are drawn by dcrd from the tickets that are live there.
ASSUME WinnersAssumption == \A b \in Block : Winners[b] \subseteq LiveAt[b]

ASSUME NoDiffAssumption == NoDiff \notin PoolDiff

-----------------------------------------------------------------------------
(* The stake database.                                                     *)

Tip(n) == n[Len(n)].blk
NodeHeight(n) == Len(n) - 1

\* Fault f may strike.
May(f) == f \in faults

NoJob == [undo |-> 0, blocks |-> <<>>]
NoStore == [kind |-> "none", root |-> NoBlock, blocks |-> <<>>, head |-> NoBlock]
NotConnected == [blk |-> NoBlock, diff |-> EmptyDiff]

Serving == status = "up" /\ connected = NotConnected

\* The notifier is registered with dcrd, and superQueue is between two messages.
Listening == status = "up" /\ stage = "live"
SuperQueueFree == Serving /\ stage = "live" /\ job = NoJob /\ storing = NoStore

GenesisNode == <<[blk |-> Genesis, live |-> {}]>>

NoBlocksCached == [h \in 0 .. MaxHeight |-> NoBlock]

Init ==
    /\ bestNode = GenesisNode
    /\ stakeDisk = GenesisNode
    /\ diffs = <<>>
    /\ diffDB = [h \in 1 .. MaxHeight |-> NoDiff]
    /\ liveTicketCache = {}
    /\ lostTickets = {}
    /\ blockCache = NoBlocksCached
    /\ job = NoJob
    /\ connected = NotConnected
    /\ status = "up"
    /\ recoverTo = 0
    /\ stage = "live"
    /\ storing = NoStore
    /\ chainDB = Genesis
    /\ chainMeta = Genesis
    /\ previous = Genesis
    /\ missed = FALSE
    /\ best = Genesis
    /\ announced = {Genesis}
    /\ reorgQ = <<>>
    /\ crashes = 0
    /\ faults \in DOMAIN Reach

\* The stake database returns an error: a block is not stored, SyncChainDB ends,
\* and the other handlers of a reorganisation run all the same.
Fail ==
    /\ job' = NoJob
    /\ connected' = NotConnected
    /\ storing' = IF storing.kind = "reorg" THEN storing ELSE NoStore
    /\ stage' = IF storing.kind = "sync" THEN "failed" ELSE stage

\* One block of the job is connected; after the last one it is ChainDB's turn.
Progress ==
    /\ connected' = NotConnected
    /\ job' = IF Len(job.blocks) = 1 THEN NoJob ELSE [job EXCEPT !.blocks = Tail(@)]
    /\ UNCHANGED <<stage, storing>>

-----------------------------------------------------------------------------
(* ConnectBlock.                                                           *)

\* Faulty variant: tickets mature one block early.
MaturingHeightEarly(b) == Height(b) - TicketMaturity + 1

Matures(b) == Height(b) >= TicketMaturity
MaturingHeight(b) == Height(b) - TicketMaturity

\* block(maturingHeight): from the cache, else dcrd's block at that height.
MaturingBlock(b) ==
    LET h == MaturingHeight(b)
    IN  IF blockCache[h] # NoBlock THEN blockCache[h] ELSE BlockAt(best, h)

MaturingTickets(b) == IF Matures(b) THEN TicketsIn[MaturingBlock(b)] ELSE {}

\* The maturing block is forgotten and b is cached, before any check of b.
CacheBlock(b) ==
    blockCache' = [h \in 0 .. MaxHeight |->
                      IF h = Height(b) THEN b
                      ELSE IF Matures(b) /\ h = MaturingHeight(b) THEN NoBlock
                      ELSE blockCache[h]]

(***************************************************************************)
(* stake.Node.ConnectNode (dcrd): the votes in b must be votes of the      *)
(* winners of the node b is connected to, which only a child of that block *)
(* has, and a maturing ticket must not be live already.                    *)
(***************************************************************************)
ConnectNodeOK(b) ==
    /\ Parent[b] = Tip(bestNode)
    /\ MaturingTickets(b) \cap bestNode[Len(bestNode)].live = {}

NewDiff(b) == [In |-> MaturingTickets(b), Out |-> Winners[Tip(bestNode)]]

GrownNode(b) ==
    Append(bestNode, [blk |-> b, live |-> ApplyDiff(bestNode[Len(bestNode)].live, NewDiff(b))])

ConnectReady == Serving /\ job # NoJob /\ job.undo = 0

\* GetBlock(hash) fails: nothing is touched.
ConnectRPCFails ==
    /\ ConnectReady
    /\ May("rpc")
    /\ Fail
    /\ UNCHANGED <<bestNode, diffs, cache, blockCache, disk, status, tables, previous, node,
                   crashes, recoverTo, faults>>

\* The maturing block is neither cached nor served: TicketsInBlock(nil) panics.
ConnectPanics ==
    /\ ConnectReady
    /\ May("rpc")
    /\ LET b == Head(job.blocks)
       IN  Matures(b) /\ blockCache[MaturingHeight(b)] = NoBlock
    /\ status' = "down"
    /\ UNCHANGED <<memory, disk, main, node, crashes, recoverTo, faults>>

\* height <= bestNodeHeight: only the block that is the tip on disk is accepted.
ConnectOld ==
    /\ ConnectReady
    /\ LET b == Head(job.blocks)
       IN  /\ Height(b) <= NodeHeight(bestNode)
           /\ CacheBlock(b)
           /\ IF Height(b) = NodeHeight(bestNode) /\ Tip(stakeDisk) = b
              THEN Progress
              ELSE Fail
    /\ UNCHANGED <<bestNode, diffs, cache, disk, status, tables, previous, node, crashes,
                   recoverTo, faults>>

ConnectNodeFails ==
    /\ ConnectReady
    /\ LET b == Head(job.blocks)
       IN  /\ Height(b) > NodeHeight(bestNode)
           /\ ~ConnectNodeOK(b)
           /\ CacheBlock(b)
    /\ Fail
    /\ UNCHANGED <<bestNode, diffs, cache, disk, status, tables, previous, node, crashes,
                   recoverTo, faults>>

\* connectBlock: BestNode is replaced, then written to ffldb in one transaction.
connectBlock ==
    /\ ConnectReady
    /\ LET b == Head(job.blocks)
       IN  /\ Height(b) > NodeHeight(bestNode)
           /\ ConnectNodeOK(b)
           /\ CacheBlock(b)
           /\ bestNode' = GrownNode(b)
           /\ \/ /\ stakeDisk' = GrownNode(b)
                 /\ connected' = [blk |-> b, diff |-> NewDiff(b)]
                 /\ UNCHANGED <<job, stage, storing>>
              \/ /\ May("stakeWrite")
                 /\ UNCHANGED stakeDisk
                 /\ Fail
    /\ UNCHANGED <<diffs, diffDB, cache, status, tables, previous, node, crashes, recoverTo,
                   faults>>

\* Faulty variant: the record is stored under the height after the new one.
PoolAppendHighKey ==
    /\ status = "up"
    /\ connected # NotConnected
    /\ liveTicketCache' = ApplyDiff(liveTicketCache, connected.diff)
    /\ diffs' = Append(diffs, connected.diff)
    /\ diffDB' = [diffDB EXCEPT ![Len(diffs) + 2] = connected.diff]
    /\ Progress
    /\ UNCHANGED <<bestNode, lostTickets, blockCache, stakeDisk, status, tables, previous,
                   node, crashes, recoverTo, faults>>

\* The rest of ConnectBlock: the ticket cache, then the diff, in memory and on disk.
PoolAppend ==
    /\ status = "up"
    /\ connected # NotConnected
    /\ liveTicketCache' = ApplyDiff(liveTicketCache, connected.diff)
    /\ LET h == NodeHeight(bestNode)
       IN  \/ /\ h # Len(diffs) + 1
              /\ Fail
              /\ UNCHANGED <<diffs, diffDB>>
           \/ /\ h = Len(diffs) + 1
              /\ diffs' = Append(diffs, connected.diff)
              /\ \/ diffDB' = [diffDB EXCEPT ![h] = connected.diff] /\ Progress
                 \/ May("poolWrite") /\ UNCHANGED diffDB /\ Fail
    /\ UNCHANGED <<bestNode, lostTickets, blockCache, stakeDisk, status, tables, previous,
                   node, crashes, recoverTo, faults>>

-----------------------------------------------------------------------------
(* DisconnectBlock.                                                        *)

\* The tickets that come back when the diffs above height h are undone.
ReAdded(h) == UNION {diffs[i].Out : i \in h + 1 .. Len(diffs)}

\* Faulty variant: the winners of the undone blocks are not put back.
UndoneInOnly(p, h, lost) == p \ UNION {diffs[i].In : i \in h + 1 .. Len(diffs)}

\* The diffs above height h, last one first, undone on p; putting a ticket back
\* needs its transaction, and when that call to dcrd fails it is left out.
Undone(p, h, lost) ==
    LET undo[i \in Nat] ==
            IF i >= Len(diffs) THEN p
            ELSE UndoDiff(undo[i + 1], diffs[i + 1]) \ (diffs[i + 1].Out \cap lost)
    IN  undo[h]

\* Faulty variant: nothing is trimmed.
TrimNothing(h) == diffs

TrimTo(h) == IF h < Len(diffs) THEN SubSeq(diffs, 1, h) ELSE diffs

Front(n) == SubSeq(n, 1, Len(n) - 1)

\* undoDiff of DisconnectBlock(false).
UndoCache ==
    \E lost \in IF May("undo") THEN SUBSET ReAdded(NodeHeight(bestNode) - 1) ELSE {{}} :
        /\ liveTicketCache' = Undone(liveTicketCache, NodeHeight(bestNode) - 1, lost)
        /\ lostTickets' = lostTickets \cup lost

\* Faulty variant: the disconnected node is never written.
DisconnectUnwritten(written) ==
    /\ diffs' = TrimTo(NodeHeight(bestNode) - 1)
    /\ bestNode' = Front(bestNode)
    /\ UNCHANGED stakeDisk

(***************************************************************************)
(* disconnectBlock: the parent of the tip on disk is fetched, the pool is  *)
(* trimmed to the parent's height (in memory only), the ticket cache is    *)
(* undone, BestNode is replaced by its parent and written to disk.         *)
(***************************************************************************)
Disconnect(written) ==
    LET h == NodeHeight(bestNode) - 1
    IN  /\ diffs' = TrimTo(h)
        /\ bestNode' = Front(bestNode)
        /\ stakeDisk' = IF written THEN Front(bestNode) ELSE stakeDisk

DisconnectReady == Serving /\ job.undo > 0

DisconnectRPCFails ==
    /\ DisconnectReady
    /\ May("rpc")
    /\ Fail
    /\ UNCHANGED <<bestNode, diffs, cache, blockCache, disk, status, tables, previous, node,
                   crashes, recoverTo, faults>>

\* "BestNode and stake DB are inconsistent"
DisconnectPanics ==
    /\ DisconnectReady
    /\ NodeHeight(stakeDisk) # NodeHeight(bestNode)
    /\ status' = "down"
    /\ UNCHANGED <<memory, disk, main, node, crashes, recoverTo, faults>>

disconnectBlock ==
    /\ DisconnectReady
    /\ NodeHeight(stakeDisk) = NodeHeight(bestNode)
    /\ UndoCache
    /\ \/ /\ Disconnect(TRUE)
          /\ job' = [job EXCEPT !.undo = @ - 1]
          /\ UNCHANGED <<connected, stage, storing>>
       \/ /\ May("stakeWrite")
          /\ Disconnect(FALSE)
          /\ Fail
    /\ UNCHANGED <<blockCache, diffDB, status, tables, previous, node, crashes, recoverTo,
                   faults>>

-----------------------------------------------------------------------------
(* The calls of the notifier.                                              *)

\* The block notifications ahead of the first reorganisation in the queue.
Ahead(b) == reorgQ # <<>> => OnChain(b, Head(reorgQ).old) \/ OnChain(b, Head(reorgQ).new)

\* catchUpMissedBlocks ahead of it: dcrd's blocks, by height, below such a block.
ReplayedAhead(b) == OnChain(b, best) /\ (reorgQ # <<>> => Height(b) < Height(Head(reorgQ).new))

\* The next block: by notification, or by height when blocks were missed.
BlockHandler(b) ==
    /\ SuperQueueFree
    /\ b \in announced
    /\ Height(b) = Height(previous) + 1
    /\ (Parent[b] = previous /\ Ahead(b)) \/ ReplayedAhead(b)
    /\ job' = [undo |-> 0, blocks |-> <<b>>]
    /\ storing' = [kind |-> "block", root |-> NoBlock, blocks |-> <<b>>, head |-> b]
    /\ UNCHANGED <<bestNode, diffs, cache, blockCache, connected, disk, status, stage, tables,
                   previous, node, crashes, recoverTo, faults>>

\* Faulty variant: the tip is taken to be above the common ancestor.
ReorgHandlerUnclamped ==
    /\ SuperQueueFree
    /\ reorgQ # <<>>
    /\ LET r == Head(reorgQ)
           h == CommonHeight(r.new, r.old)
       IN  /\ job' = [undo |-> NodeHeight(bestNode) - h, blocks |-> BlocksAbove(r.new, h)]
           /\ storing' = [kind |-> "reorg", root |-> BlockAt(r.new, h), blocks |-> <<>>, head |-> r.new]
    /\ reorgQ' = Tail(reorgQ)
    /\ UNCHANGED <<bestNode, diffs, cache, blockCache, connected, disk, status, stage, tables,
                   previous, best, announced, missed, crashes, recoverTo, faults>>

(***************************************************************************)
(* ReorgHandler and switchToSideChain: disconnect down to the height of    *)
(* the common ancestor, or connect dcrd's blocks up to it when the stake   *)
(* database never got there, then connect the new chain.                   *)
(***************************************************************************)
ReorgHandler ==
    /\ SuperQueueFree
    /\ reorgQ # <<>>
    /\ LET r   == Head(reorgQ)
           h   == CommonHeight(r.new, r.old)
           tip == NodeHeight(bestNode)
       IN  /\ job' = [undo   |-> IF tip > h THEN tip - h ELSE 0,
                      blocks |-> SubSeq(Chain[best], tip + 2, h + 1) \o BlocksAbove(r.new, h)]
           /\ storing' = [kind |-> "reorg", root |-> BlockAt(r.new, h), blocks |-> <<>>, head |-> r.new]
    /\ reorgQ' = Tail(reorgQ)
    /\ UNCHANGED <<bestNode, diffs, cache, blockCache, connected, disk, status, stage, tables,
                   previous, best, announced, missed, crashes, recoverTo, faults>>

\* signalReorg cannot determine the common ancestor: the reorganisation is dropped.
ReorgAborted ==
    /\ SuperQueueFree
    /\ reorgQ # <<>>
    /\ May("rpc")
    /\ reorgQ' = Tail(reorgQ)
    /\ UNCHANGED <<memory, disk, status, main, best, announced, missed, crashes, recoverTo, faults>>

-----------------------------------------------------------------------------
(* ChainDB, after the stake database.                                      *)

ChainDBReady == Serving /\ job = NoJob /\ storing # NoStore

\* TipToSideChain: the best row is flagged, and the meta table keeps its block.
\* A walk that comes to the height of the root beside it does not end.
TipToSideChain ==
    /\ ChainDBReady
    /\ storing.root # NoBlock
    /\ Height(chainDB) > Height(storing.root)
    /\ chainDB' = Parent[chainDB]
    /\ UNCHANGED <<memory, disk, status, stage, storing, chainMeta, previous, node, crashes,
                   recoverTo, faults>>

\* At the root, or below it from the start: the blocks that are to be stored.
switchToSideChain ==
    /\ ChainDBReady
    /\ storing.root # NoBlock
    /\ chainDB = storing.root \/ Height(chainDB) < Height(storing.root)
    /\ LET h == Height(storing.root)
       IN  storing' = [storing EXCEPT
                          !.root   = NoBlock,
                          !.blocks = SubSeq(Chain[best], Height(chainDB) + 2, h + 1)
                                         \o BlocksAbove(storing.head, h)]
    /\ UNCHANGED <<memory, disk, status, stage, tables, previous, node, crashes, recoverTo, faults>>

\* StoreBlock, first half: the row is in the blocks table.
StoreBlock ==
    /\ ChainDBReady
    /\ storing.root = NoBlock
    /\ chainDB # Head(storing.blocks)
    /\ chainDB' = Head(storing.blocks)
    /\ UNCHANGED <<memory, disk, status, stage, storing, chainMeta, previous, node, crashes,
                   recoverTo, faults>>

\* Second half: the meta table.  After the last block the notifier records the head.
SetDBBestBlock ==
    /\ ChainDBReady
    /\ storing.root = NoBlock
    /\ chainDB = Head(storing.blocks)
    /\ chainMeta' = chainDB
    /\ storing' = IF Len(storing.blocks) = 1 THEN NoStore ELSE [storing EXCEPT !.blocks = Tail(@)]
    /\ previous' = IF Len(storing.blocks) = 1 /\ storing.kind # "sync" THEN storing.head ELSE previous
    /\ UNCHANGED <<memory, disk, status, stage, chainDB, node, crashes, recoverTo, faults>>

(***************************************************************************)
(* ChainDB's part fails: dcrd does not answer, or the stake database does  *)
(* not have the block and no pool info is cached for it.  Nothing is       *)
(* recorded, except the head of a reorganisation.                          *)
(***************************************************************************)
StoreFails ==
    /\ ChainDBReady
    /\ storing.root = NoBlock
    /\ May("rpc") \/ ~OnChain(Head(storing.blocks), Tip(bestNode))
    /\ storing' = NoStore
    /\ stage' = IF storing.kind = "sync" THEN "failed" ELSE stage
    /\ previous' = IF storing.kind = "reorg" THEN storing.head ELSE previous
    /\ UNCHANGED <<memory, disk, status, tables, node, crashes, recoverTo, faults>>

-----------------------------------------------------------------------------
(* dcrd: its best chain grows, or moves to a longer branch.  A process     *)
(* that is not listening does not get the notification; one that has just  *)
(* caught up and is about to listen misses it.                             *)

Announce(b) ==
    /\ best' = b
    /\ announced' = IF Listening THEN announced \cup BlocksOf(b) ELSE announced
    /\ missed' = (missed \/ (status = "up" /\ stage = "listen"))

NodeExtends(b) ==
    /\ b \in Reach[faults] \ {Genesis}
    /\ Parent[b] = best
    /\ Announce(b)
    /\ UNCHANGED <<memory, disk, status, main, reorgQ, crashes, recoverTo, faults>>

NodeReorganizes(b) ==
    /\ b \in Reach[faults]
    /\ Height(b) > Height(best)
    /\ ~OnChain(best, b)
    /\ Announce(b)
    /\ reorgQ' = IF Listening THEN Append(reorgQ, [old |-> best, new |-> b]) ELSE reorgQ
    /\ UNCHANGED <<memory, disk, status, main, crashes, recoverTo, faults>>

-----------------------------------------------------------------------------
(* Crash and restart: NewStakeDatabase and LoadAndRecover.                 *)

Crash ==
    /\ May("crash")
    /\ crashes < MaxCrashes
    /\ status \notin {"down", "panicked"}
    /\ crashes' = crashes + 1
    /\ status' = "down"
    /\ UNCHANGED <<memory, disk, main, node, recoverTo, faults>>

\* The keys of badger must be 1, 2, ..., n: LoadAllPoolDiffs panics on a gap.
StoredHeights == {h \in 1 .. MaxHeight : diffDB[h] # NoDiff}
Contiguous == \A h \in StoredHeights : \A k \in 1 .. h : k \in StoredHeights

AllDiffs == [h \in 1 .. Cardinality(StoredHeights) |-> diffDB[h]]

(***************************************************************************)
(* NewTicketPool and Open.  When dcrd does not answer with the block of    *)
(* the stake node, Open initialises the stake database anew, or fails to   *)
(* and the process does not come to this step.  Notifications sent while   *)
(* the process is down are lost.                                           *)
(***************************************************************************)
Load ==
    /\ status = "down"
    /\ IF Contiguous
       THEN status' = "loading" /\ diffs' = AllDiffs
       ELSE status' = "panicked" /\ diffs' = <<>>
    /\ \/ bestNode' = stakeDisk /\ UNCHANGED stakeDisk
       \/ May("rpc") /\ bestNode' = GenesisNode /\ stakeDisk' = GenesisNode
    /\ liveTicketCache' = {}
    /\ lostTickets' = {}
    /\ blockCache' = NoBlocksCached
    /\ job' = NoJob
    /\ connected' = NotConnected
    /\ stage' = "check"
    /\ storing' = NoStore
    /\ announced' = {Genesis}
    /\ reorgQ' = <<>>
    /\ missed' = FALSE
    /\ UNCHANGED <<diffDB, tables, previous, best, crashes, recoverTo, faults>>

\* DisconnectBlock(true): without updating the ticket cache.
LoadDisconnects ==
    /\ Disconnect(TRUE)
    /\ UNCHANGED <<diffDB, cache, blockCache, job, connected, status, main, node, crashes,
                   recoverTo, faults>>

LoadRollsBackNode ==
    /\ status \in {"loading", "recovering"}
    /\ NodeHeight(bestNode) > Len(diffs)
    /\ LoadDisconnects

LoadTrimsPool ==
    /\ status \in {"loading", "recovering"}
    /\ Len(diffs) > NodeHeight(bestNode)
    /\ diffs' = TrimTo(NodeHeight(bestNode))
    /\ UNCHANGED <<bestNode, cache, blockCache, job, connected, disk, status, main, node,
                   crashes, recoverTo, faults>>

\* AdvanceToTip stops after the first diff that does not change the size as expected.
Misfits ==
    {h \in 1 .. Len(diffs) :
        Cardinality(PoolAt(diffs, h)) # Cardinality(PoolAt(diffs, h - 1))
            + Cardinality(diffs[h].In) - Cardinality(diffs[h].Out)}

FirstMisfit == CHOOSE h \in Misfits : \A k \in Misfits : h <= k

\* Faulty variant: the two heights are not compared.
AlignedUnchecked == TRUE

Aligned == Len(diffs) = NodeHeight(bestNode)

\* NewStakeDatabase fails at the misfit, and main.go calls LoadAndRecover, which
\* loads both databases again and rewinds them to a height before the misfit.
LoadFails ==
    /\ status = "loading"
    /\ Aligned
    /\ Misfits # {}
    /\ status' = "recovering"
    /\ recoverTo' = IF FirstMisfit > RecoverDepth THEN FirstMisfit - RecoverDepth ELSE 0
    /\ diffs' = AllDiffs
    /\ UNCHANGED <<bestNode, cache, blockCache, job, connected, disk, main, node, crashes,
                   faults>>

\* A block cannot be disconnected: LoadAndRecover again, from the pool's tip.
LoadRPCFails ==
    /\ status = "loading"
    /\ NodeHeight(bestNode) > Len(diffs)
    /\ May("rpc")
    /\ status' = "recovering"
    /\ recoverTo' = IF Len(diffs) > RecoverDepth THEN Len(diffs) - RecoverDepth ELSE 0
    /\ diffs' = AllDiffs
    /\ UNCHANGED <<bestNode, cache, blockCache, job, connected, disk, main, node, crashes,
                   faults>>

\* The tickets cannot be fetched, or recovery or the rest of main.go fails: the
\* process ends, by an error or by the nil stakeDB of a failed LoadAndRecover.
StartupFails ==
    /\ May("rpc")
    /\ \/ status = "loading" /\ Aligned /\ Misfits = {}
       \/ status \in {"recovering", "starting"}
    /\ status' = "down"
    /\ UNCHANGED <<memory, disk, recoverTo, main, node, crashes, faults>>

\* To toHeight, then to stopHeight - 1 if the pool still does not advance.
RecoverRewinds ==
    /\ status = "recovering"
    /\ Aligned
    /\ NodeHeight(bestNode) > recoverTo \/ Misfits # {}
    /\ LoadDisconnects

PopulateLiveTicketCache ==
    /\ status = "loading" \/ (status = "recovering" /\ NodeHeight(bestNode) <= recoverTo)
    /\ Aligned
    /\ Misfits = {}
    /\ liveTicketCache' = bestNode[Len(bestNode)].live
    /\ lostTickets' = {}
    /\ status' = "starting"
    /\ UNCHANGED <<bestNode, diffs, blockCache, job, connected, disk, main, node, crashes,
                   recoverTo, faults>>

-----------------------------------------------------------------------------
(* The rest of the start: NewChainDB, main.go and SyncChainDB.             *)

AtStage(s) == status = "starting" /\ stage = s

(***************************************************************************)
(* NewChainDB: when the meta table is above the blocks table, or has       *)
(* another block, the best block is deleted, and the next ones down to the *)
(* height of the meta table, which follows.                                *)
(***************************************************************************)
RepairedHeight ==
    CASE chainDB = Genesis -> 0
      [] Height(chainMeta) < Height(chainDB) -> Height(chainMeta)
      [] OTHER -> Height(chainDB) - 1

NewChainDB ==
    /\ AtStage("check")
    /\ chainMeta # chainDB
    /\ chainDB' = BlockAt(chainDB, RepairedHeight)
    /\ chainMeta' = BlockAt(chainDB, RepairedHeight)
    /\ UNCHANGED <<memory, disk, status, stage, storing, previous, node, crashes, recoverTo, faults>>

\* The heights at which ChainDB and dcrd have the same block.
SharedHeights ==
    {h \in 0 .. Height(chainDB) : h <= Height(best) /\ BlockAt(chainDB, h) = BlockAt(best, h)}

SharedHeight == CHOOSE h \in SharedHeights : \A k \in SharedHeights : k <= h

\* The last block of ChainDB that is on dcrd's chain.
SharedBlock == BlockAt(chainDB, SharedHeight)

\* OrphanedTipLength: ChainDB's tip, and never the stake database's, is compared.
OrphanedTipLength ==
    /\ AtStage("check")
    /\ chainMeta = chainDB
    /\ Height(chainDB) <= Height(best)
    /\ recoverTo' = SharedHeight
    /\ stage' = IF SharedHeight < Height(chainDB) THEN "purge" ELSE "rewind"
    /\ UNCHANGED <<memory, disk, status, storing, tables, previous, node, crashes, faults>>

\* PurgeBestBlocks, first half: DeleteBlocks, one block at a time.
DeleteBestBlock ==
    /\ AtStage("purge")
    /\ Height(chainDB) > recoverTo
    /\ chainDB' = Parent[chainDB]
    /\ chainMeta' = Parent[chainDB]
    /\ UNCHANGED <<memory, disk, status, stage, storing, previous, node, crashes, recoverTo, faults>>

Purged == status = "starting" /\ stage \in {"purge", "rewind"} /\ Height(chainDB) = recoverTo

\* RewindStakeDB, of PurgeBestBlocks or of main.go: down to ChainDB's height.
RewindStakeDB ==
    /\ Purged
    /\ NodeHeight(bestNode) > Height(chainDB)
    /\ UndoCache
    /\ Disconnect(TRUE)
    /\ UNCHANGED <<diffDB, blockCache, job, connected, status, main, node, crashes, recoverTo,
                   faults>>

\* "rewind of StakeDatabase to height %d failed": it is below, and main returns.
PurgeFails ==
    /\ Purged
    /\ stage = "purge"
    /\ NodeHeight(bestNode) < Height(chainDB)
    /\ status' = "down"
    /\ UNCHANGED <<memory, disk, main, node, crashes, recoverTo, faults>>

\* Faulty variant: the stake database is not compared with ChainDB.
StartSyncAnyway ==
    /\ Purged
    /\ status' = "up"
    /\ stage' = "import"
    /\ UNCHANGED <<memory, disk, storing, tables, previous, node, crashes, recoverTo, faults>>

\* On to SyncChainDB, with a stake database that is not above ChainDB.
StartSync ==
    /\ Purged
    /\ \/ NodeHeight(bestNode) = Height(chainDB)
       \/ NodeHeight(bestNode) < Height(chainDB) /\ stage = "rewind"
    /\ status' = "up"
    /\ stage' = "import"
    /\ UNCHANGED <<memory, disk, storing, tables, previous, node, crashes, recoverTo, faults>>

Importing == Serving /\ stage = "import" /\ job = NoJob /\ storing = NoStore

\* importBlocks: dcrd's block at the height after ChainDB's.
importBlock ==
    /\ Importing
    /\ Height(chainDB) < Height(best)
    /\ NodeHeight(bestNode) = Height(chainDB)
    /\ LET b == BlockAt(best, Height(chainDB) + 1)
       IN  /\ job' = [undo |-> 0, blocks |-> <<b>>]
           /\ storing' = [kind |-> "sync", root |-> NoBlock, blocks |-> <<b>>, head |-> b]
    /\ UNCHANGED <<bestNode, diffs, cache, blockCache, connected, disk, status, stage, tables,
                   previous, node, crashes, recoverTo, faults>>

\* "About to connect the wrong block": a panic.
importPanics ==
    /\ Importing
    /\ Height(chainDB) < Height(best)
    /\ NodeHeight(bestNode) # Height(chainDB)
    /\ status' = "down"
    /\ UNCHANGED <<memory, disk, main, node, crashes, recoverTo, faults>>

\* SyncChainDB returns an error, and main with it.
SyncFails ==
    /\ Serving
    /\ stage = "failed"
    /\ status' = "down"
    /\ UNCHANGED <<memory, disk, main, node, crashes, recoverTo, faults>>

\* ChainDB is at dcrd's height.
SyncDone ==
    /\ Importing
    /\ Height(chainDB) >= Height(best)
    /\ stage' = "listen"
    /\ UNCHANGED <<memory, disk, status, storing, tables, previous, node, crashes, recoverTo, faults>>

\* Faulty variant: notifier.previous is not set to ChainDB's best block.
ListenUnset ==
    /\ Serving
    /\ stage = "listen"
    /\ stage' = "live"
    /\ UNCHANGED <<memory, disk, status, storing, tables, previous, node, crashes, recoverTo, faults>>

\* SetPreviousBlock and Listen.
Listen ==
    /\ Serving
    /\ stage = "listen"
    /\ previous' = chainDB
    /\ stage' = "live"
    /\ UNCHANGED <<memory, disk, status, storing, tables, node, crashes, recoverTo, faults>>

-----------------------------------------------------------------------------
Handler ==
    \/ ConnectOld \/ ConnectNodeFails \/ connectBlock \/ PoolAppend
    \/ DisconnectPanics \/ disconnectBlock
    \/ TipToSideChain \/ switchToSideChain \/ StoreBlock \/ SetDBBestBlock
    \/ ReorgHandler
    \/ \E b \in Block : BlockHandler(b)

Startup ==
    \/ Load \/ LoadRollsBackNode \/ LoadTrimsPool \/ LoadFails \/ RecoverRewinds
    \/ PopulateLiveTicketCache
    \/ NewChainDB \/ OrphanedTipLength \/ DeleteBestBlock \/ RewindStakeDB \/ PurgeFails
    \/ StartSync \/ importBlock \/ importPanics \/ SyncFails \/ SyncDone \/ Listen

RPCFaults ==
    \/ ConnectRPCFails \/ ConnectPanics \/ DisconnectRPCFails \/ ReorgAborted
    \/ LoadRPCFails \/ StartupFails \/ StoreFails

Next ==
    \/ Handler
    \/ Startup
    \/ RPCFaults
    \/ Crash
    \/ \E b \in Block : NodeExtends(b) \/ NodeReorganizes(b)

Spec == Init /\ [][Next]_vars

\* Goroutines are scheduled, a process that went down is started again, and a
\* reorganisation is taken from the notifier's FIFO queue however many block
\* notifications are handled before it.  Faults, crashes and dcrd's own moves
\* are never forced.
FairSpec == Spec /\ WF_vars(Handler) /\ SF_vars(ReorgHandler) /\ WF_vars(Startup)

-----------------------------------------------------------------------------
NodeEntry == [blk : Block, live : SUBSET Tickets]

TypeOK ==
    /\ bestNode \in Seq(NodeEntry) /\ bestNode # <<>>
    /\ stakeDisk \in Seq(NodeEntry) /\ stakeDisk # <<>>
    /\ diffs \in Seq(PoolDiff)
    /\ diffDB \in [1 .. MaxHeight -> PoolDiff \cup {NoDiff}]
    /\ liveTicketCache \subseteq Tickets /\ lostTickets \subseteq Tickets
    /\ blockCache \in [0 .. MaxHeight -> Block \cup {NoBlock}]
    /\ job \in [undo : 0 .. MaxHeight, blocks : Seq(Block)]
    /\ connected \in [blk : Block \cup {NoBlock}, diff : PoolDiff]
    /\ status \in {"up", "down", "loading", "recovering", "starting", "panicked"}
    /\ recoverTo \in 0 .. MaxHeight
    /\ stage \in {"check", "purge", "rewind", "import", "failed", "listen", "live"}
    /\ storing \in [kind : {"none", "block", "reorg", "sync"}, root : Block \cup {NoBlock},
                    blocks : Seq(Block), head : Block \cup {NoBlock}]
    /\ chainDB \in Block /\ chainMeta \in Block
    /\ previous \in Block /\ best \in Block /\ announced \subseteq Block /\ missed \in BOOLEAN
    /\ reorgQ \in Seq([old : Block, new : Block])
    /\ crashes \in 0 .. MaxCrashes

\* No handler is running.
Idle == Serving /\ job = NoJob

(***************************************************************************)
(* The stake node is the true one: its blocks form a chain of dcrd's tree  *)
(* and the live tickets at every height are those of that chain.  It needs *)
(* the maturing block of every ConnectBlock to be the ancestor of the      *)
(* block, although it is looked up by height, in a cache that also takes   *)
(* blocks that are then refused, or from a node that has moved on.         *)
(***************************************************************************)
StakeNodeIsTrue ==
    status = "up" =>
        /\ \A i \in 1 .. Len(bestNode) : bestNode[i].live = LiveAt[bestNode[i].blk]
        /\ Chain[Tip(bestNode)] = [i \in 1 .. Len(bestNode) |-> bestNode[i].blk]

(***************************************************************************)
(* Between handler calls the ticket pool has one diff for every block, and *)
(* Pool(h) is the live set of the stake node at h, for every height.       *)
(***************************************************************************)
PoolMatchesStakeNode ==
    Idle => /\ Len(diffs) = NodeHeight(bestNode)
            /\ \A h \in 0 .. Len(diffs) : PoolAt(diffs, h) = bestNode[h + 1].live

\* Calls to dcrd may fail, those of undoDiff included; every write succeeds and
\* nothing crashes.
OnlyRPCFails == faults \subseteq {"rpc", "undo"}

\* As long as only calls to dcrd fail, restarts after a panic or an error
\* included, the pool of every height is that of the stake node.
PoolTracksStakeNode == OnlyRPCFails => PoolMatchesStakeNode

(***************************************************************************)
(* Between handler calls the ticket cache, and with it the pool value, is  *)
(* that of the live tickets of the stake node, short of tickets that       *)
(* undoDiff could not fetch since the cache was filled; nothing else is    *)
(* ever missing, and no ticket that is not live is in it.                  *)
(***************************************************************************)
TicketCacheIsAccurate ==
    OnlyRPCFails /\ Idle =>
        /\ liveTicketCache \subseteq bestNode[Len(bestNode)].live
        /\ bestNode[Len(bestNode)].live \ lostTickets \subseteq liveTicketCache

\* Between handler calls, what is in memory is what is on disk, when no write
\* fails and nothing crashes.
DiskIsCurrent ==
    OnlyRPCFails /\ Idle =>
        /\ stakeDisk = bestNode
        /\ \A h \in 1 .. Len(diffs) : diffDB[h] = diffs[h]

\* The process may crash, and every call and every write succeeds.
OnlyCrashes == faults \subseteq {"crash"}

(***************************************************************************)
(* Between handler calls the two databases are at the same height, so that *)
(* the next block's diff is accepted by Append: after any crash, and after *)
(* RPC failures.                                                           *)
(***************************************************************************)
HeightsAgree == OnlyCrashes \/ OnlyRPCFails => (Idle => Len(diffs) = NodeHeight(bestNode))

(***************************************************************************)
(* The ticket pool can be loaded at every start: "panic(height,            *)
(* lastheight)" of LoadAllPoolDiffs is for a database that cannot occur,   *)
(* wherever a crash cut Append or Trim off.  A write of badger that fails  *)
(* and is not repeated does leave such a database behind.                  *)
(***************************************************************************)
PoolDBLoads == (OnlyCrashes \/ OnlyRPCFails) => status # "panicked"

(***************************************************************************)
(* After any crash, once the process listens again, the pool of every      *)
(* height is that of the stake node: the diff of an orphaned block, which  *)
(* badger may still have where a crash kept the new one from being stored, *)
(* has been rewound and replaced on the way.                               *)
(***************************************************************************)
PoolRecovers == OnlyCrashes /\ stage = "live" => PoolMatchesStakeNode

(***************************************************************************)
(* The stake database is not on the last block that ChainDB shares with    *)
(* dcrd: below it, as after a recovery by LoadAndRecover, or on another    *)
(* branch.  No rewind of main.go repairs that.                             *)
(***************************************************************************)
Stranded == ~OnChain(SharedBlock, Tip(stakeDisk))

(***************************************************************************)
(* After every crash the process listens to dcrd again, whatever the crash *)
(* cut off: unless it left the stake database stranded.                    *)
(***************************************************************************)
RestartsUnlessStranded == OnlyCrashes => (status = "down" ~> (Listening \/ Stranded))

(***************************************************************************)
(* When dcrd's best block no longer changes, the stake database and        *)
(* ChainDB get there and stay, crashes or not: unless the stake database   *)
(* is stranded, or dcrd's last move came just before Listen.               *)
(***************************************************************************)
FollowsNode ==
    OnlyCrashes =>
        \/ <>[](Listening /\ Tip(bestNode) = best /\ chainDB = best)
        \/ <>[]Stranded
        \/ <>[]missed
=============================================================================
