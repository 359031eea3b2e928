------------------------------ MODULE Notifier ------------------------------
(***************************************************************************)
(* The block pipeline of cmd/dcrdata: notification.Notifier and the        *)
(* handlers main.go registers with it.  dcrd's notifications are queued in *)
(* anyQ and handled one at a time by superQueue: a block is connected to   *)
(* the stake database, then stored in ChainDB; a reorganisation is carried *)
(* out in the stake database, then in ChainDB.  Handlers fail, run past    *)
(* their deadline and go on, notifications get lost, and dcrd moves while  *)
(* a handler asks it for blocks by height.                                 *)
(*                                                                         *)
(* The stake database is seen through its tip here (StakeDB models it).    *)
(***************************************************************************)
EXTENDS BlockTree, FiniteSets

CONSTANTS
    MaxCatchUp,   \* maxBlockCatchUp
    MaxOverdue,   \* bound on the block handlers that are past their deadline
    Scenarios,    \* what may happen: [faults, reach], where faults is a set of {"lost",
                  \*   "lostReorg", "rpc", "stake", "disk", "collect", "store", "late",
                  \*   "deadline", "ancestor", "reorg", "reorgCollect", "reorgDeadline",
                  \*   "moves"} and reach is the set of the blocks that dcrd comes to
    DeepBranch,   \* the blocks that fork off below an earlier fork
    NoBlock       \* bestBlock after TipToSideChain has lost its way

\* dcrd would leave o for n: a higher block of another branch.
Fork(o, n) == Height(o) < Height(n) /\ ~OnChain(o, n)

(***************************************************************************)
(* Outside DeepBranch a chain that has the ancestor of a fork is not left  *)
(* below that ancestor, once it is as high as the fork's new head.         *)
(***************************************************************************)
ASSUME NestedForksAssumption ==
    /\ Genesis \notin DeepBranch
    /\ \A o, n, a, b \in Block \ DeepBranch :
          /\ Fork(o, n) /\ Fork(a, b) /\ Height(n) <= Height(a)
          /\ OnChain(CommonAncestor(n, o), a)
          => OnChain(CommonAncestor(n, o), b)

VARIABLES
    best,       \* dcrd's best block
    anyQ,       \* notifier.anyQ: the notifications not yet handled
    previous,   \* notifier.previous
    task,       \* what superQueue is doing
    late,       \* the reorg handler that goes on after its deadline
    stakeTip,   \* the tip of the stake database (BestNode)
    stakeSaved, \* the stake database has it on disk, too
    poolInfo,   \* the blocks that have an entry in the pool info cache
    rows,       \* the blocks table: "absent", "main" or "side" (is_mainchain)
    bestBlock,  \* ChainDB.bestBlock
    misdated,   \* the blocks stored with the data (chain work...) of another block
    overdue,    \* the handlers of blocks that go on after their deadline
    clean,      \* history: no fault since superQueue took its last message
    told,       \* history: dcrd's last move was notified
    panicked,   \* a handler goroutine panicked, and the process with it
    scenario    \* one of Scenarios

node    == <<best, anyQ>>
stakeDB == <<stakeTip, stakeSaved, poolInfo>>
chainDB == <<rows, bestBlock, misdated>>
vars    == <<node, previous, task, late, stakeDB, chainDB, overdue, clean, told, panicked,
             scenario>>

-----------------------------------------------------------------------------
May(f) == f \in scenario.faults

\* dcrd comes to block b, in scenario "moves" also between the two calls by which
\* a handler collects the data of a block.
MayReach(b) ==
    /\ b \in scenario.reach
    /\ task.kind = "run" /\ task.group \in {"hash", "best"} => May("moves")

NewBlock(b)        == [type |-> "block", block |-> b]
BranchTips(o, n)   == [type |-> "reorg", old |-> o, new |-> n]

Idle               == [kind |-> "idle"]
CatchUp(bh)        == [kind |-> "catchup", bh |-> bh]
Run(bh, b, group)  == [kind |-> "run", bh |-> bh, blk |-> b, group |-> group]
Reorg(r, step, todo) == [kind |-> "reorg", tips |-> r, step |-> step, todo |-> todo]

\* TipToSideChain goes round for ever, and resets bestBlock each time.
Hung == \E t \in {task, late} : t.kind = "reorg" /\ t.step = "hung"

\* The process runs.  What it does beside a handler that hangs is not modelled.
Alive == ~panicked /\ ~Hung

MainRows == {b \in Block : rows[b] = "main"}

Init ==
    /\ best = Genesis
    /\ anyQ = <<>>
    /\ previous = Genesis
    /\ task = Idle
    /\ late = Idle
    /\ stakeTip = Genesis
    /\ stakeSaved = TRUE
    /\ poolInfo = {Genesis}
    /\ rows = [b \in Block |-> IF b = Genesis THEN "main" ELSE "absent"]
    /\ bestBlock = Genesis
    /\ misdated = {}
    /\ overdue = {}
    /\ clean = TRUE
    /\ told = TRUE
    /\ panicked = FALSE
    /\ scenario \in Scenarios

-----------------------------------------------------------------------------
(* dcrd: its chain grows, or moves to a longer branch, and it notifies     *)
(* every connected block and then the reorganisation.  The notifications   *)
(* are lost while the websocket is down.                                   *)

Notify(msgs, loss) ==
    \/ anyQ' = anyQ \o msgs /\ told' = TRUE
    \/ May(loss) /\ UNCHANGED anyQ /\ told' = FALSE

NodeExtends(b) ==
    /\ b # Genesis
    /\ MayReach(b)
    /\ Parent[b] = best
    /\ best' = b
    /\ Notify(<<NewBlock(b)>>, "lost")
    /\ UNCHANGED <<previous, task, stakeDB, chainDB, overdue, clean, panicked, late, scenario>>

NodeReorganizes(b) ==
    /\ MayReach(b)
    /\ Height(b) > Height(best)
    /\ ~OnChain(best, b)
    /\ best' = b
    /\ LET connected == BlocksAbove(b, CommonHeight(b, best))
       IN  Notify([i \in DOMAIN connected |-> NewBlock(connected[i])]
                      \o <<BranchTips(best, b)>>, "lostReorg")
    /\ UNCHANGED <<previous, task, stakeDB, chainDB, overdue, clean, panicked, late, scenario>>

-----------------------------------------------------------------------------
(* processBlock and catchUpMissedBlocks.                                   *)

Receive(type) ==
    /\ Alive
    /\ task = Idle
    /\ anyQ # <<>>
    /\ Head(anyQ).type = type
    /\ anyQ' = Tail(anyQ)

Connects(bh) == Parent[bh] = previous

\* "Too many to replay automatically - restart dcrdata to resync."
TooManyMissed(bh) == Height(bh) - Height(previous) - 1 > MaxCatchUp

\* Faulty variant: missed blocks are never replayed.
CanCatchUpNever(bh) == FALSE

\* The gap can be replayed: not too wide, and previous is still on dcrd's chain.
CanCatchUp(bh) ==
    /\ Height(bh) > Height(previous) + 1
    /\ ~TooManyMissed(bh)
    /\ BlockAt(best, Height(previous)) = previous

processBlock ==
    /\ Receive("block")
    /\ LET bh == Head(anyQ).block
       IN  /\ bh # Genesis
           /\ \/ /\ task' = IF Connects(bh) THEN Run(bh, bh, "stake")
                            ELSE IF CanCatchUp(bh) THEN CatchUp(bh)
                            ELSE Idle
                 /\ clean' = ~TooManyMissed(bh)
              \/ \* dcrd does not answer where previous is to be found
                 /\ May("rpc")
                 /\ CanCatchUp(bh)
                 /\ clean' = FALSE
                 /\ UNCHANGED task
    /\ UNCHANGED <<best, previous, stakeDB, chainDB, overdue, told, panicked, late, scenario>>

\* One iteration: dcrd's block at the next height, whatever its parent is.
catchUpMissedBlocks ==
    /\ Alive
    /\ task.kind = "catchup"
    /\ LET h == Height(previous) + 1
       IN  \/ /\ task' = IF h < Height(task.bh) THEN Run(task.bh, BlockAt(best, h), "stake")
                         ELSE IF Connects(task.bh) THEN Run(task.bh, task.bh, "stake")
                         ELSE Idle
              /\ UNCHANGED clean
           \/ \* dcrd does not answer with the block
              /\ May("rpc")
              /\ h < Height(task.bh)
              /\ task' = Idle
              /\ clean' = FALSE
    /\ UNCHANGED <<node, previous, stakeDB, chainDB, overdue, told, panicked, late, scenario>>

-----------------------------------------------------------------------------
(* runBlockHandlers: one group after the other; the first failure ends it. *)

\* Faulty variant: a block whose handlers failed is recorded.
HandlersFailRecorded ==
    /\ task' = Idle
    /\ clean' = FALSE
    /\ previous' = task.blk

HandlersFail ==
    /\ task' = Idle
    /\ clean' = FALSE
    /\ UNCHANGED previous

\* Faulty variant: a replayed block is not recorded.
HandlersDoneUnrecorded ==
    /\ previous' = IF task.blk = task.bh THEN task.blk ELSE previous
    /\ task' = IF task.blk = task.bh THEN Idle ELSE CatchUp(task.bh)
    /\ UNCHANGED clean

\* The last group is done: the block is recorded.
HandlersDone ==
    /\ previous' = task.blk
    /\ task' = IF task.blk = task.bh THEN Idle ELSE CatchUp(task.bh)
    /\ UNCHANGED clean

Running(group) == Alive /\ task.kind = "run" /\ task.group = group

\* Faulty variant: any block is accepted.
StakeAcceptsAny(b) == b # Genesis

\* StakeDatabase.ConnectBlock: a child of the tip, or the tip itself again if it
\* is the tip on disk.
StakeAccepts(b) == (b = stakeTip /\ stakeSaved) \/ (b # Genesis /\ Parent[b] = stakeTip)

StakeConnect(b) == stakeTip' = b /\ stakeSaved' = TRUE /\ poolInfo' = poolInfo \cup {b}

\* BestNode is replaced, then the write to ffldb fails.
StakeConnectUnsaved(b) ==
    /\ May("disk")
    /\ StakeAccepts(b) /\ b # stakeTip
    /\ stakeTip' = b
    /\ stakeSaved' = FALSE
    /\ UNCHANGED poolInfo

\* stakedb.ChainMonitor's mtx: a reorg handler past its deadline may hold it.
stakeMtxFree == ~(late.kind = "reorg" /\ late.step \in {"stakeRewind", "stakeConnect"})

stakeConnectBlock ==
    /\ Running("stake")
    /\ stakeMtxFree
    /\ \/ /\ StakeAccepts(task.blk)
          /\ StakeConnect(task.blk)
          /\ task' = [task EXCEPT !.group = "collect"]
          /\ UNCHANGED <<previous, clean>>
       \/ \* connected, but its ticket pool diff could not be appended
          /\ May("stake")
          /\ StakeAccepts(task.blk)
          /\ StakeConnect(task.blk)
          /\ HandlersFail
       \/ StakeConnectUnsaved(task.blk) /\ HandlersFail
       \/ /\ ~StakeAccepts(task.blk) \/ May("stake")
          /\ HandlersFail
          /\ UNCHANGED stakeDB
    /\ UNCHANGED <<node, chainDB, overdue, told, panicked, late, scenario>>

(***************************************************************************)
(* ChainDB.StoreBlock of block b with the data of block d: the pool info   *)
(* of b and of its parent must be there.  First the row is inserted as     *)
(* main chain: one that exists gets its flag but keeps its data, and the   *)
(* rows of other blocks keep their flag.  UpdateLastBlock is next, and     *)
(* then bestBlock is set.                                                  *)
(***************************************************************************)
CanStore(b) == {b, Parent[b]} \subseteq poolInfo

InsertBlock(b, d) ==
    /\ rows' = [rows EXCEPT ![b] = "main"]
    /\ misdated' = IF rows[b] = "absent" /\ d # b THEN misdated \cup {b} ELSE misdated
    /\ UNCHANGED bestBlock

\* Faulty variant: bestBlock is left where it was.
SetBestBlockNever(b) == UNCHANGED <<rows, bestBlock, misdated>>

SetBestBlock(b) == bestBlock' = b /\ UNCHANGED <<rows, misdated>>

(***************************************************************************)
(* blockdata's ConnectBlock takes reorgLock, asks dcrd for its height,     *)
(* collects the data of the block, by its hash if dcrd is higher, of       *)
(* dcrd's best block if not, and has it stored.                            *)
(***************************************************************************)
Collecting == {"hash", "best"}
Holding    == Collecting \cup {"stored"}

reorgLockFree == \A o \in overdue : o.group \notin Holding

CollectBy(b) == IF Height(b) = Height(best) THEN "best" ELSE "hash"

Data(run) == IF run.group = "best" THEN best ELSE run.blk

collectOnce ==
    /\ Running("collect")
    /\ reorgLockFree
    /\ task' = [task EXCEPT !.group = CollectBy(task.blk)]
    /\ UNCHANGED <<node, previous, stakeDB, chainDB, overdue, clean, told, panicked, late, scenario>>

blockdataConnectBlock ==
    /\ \E g \in Collecting : Running(g)
    /\ \/ \* its row is inserted
          /\ CanStore(task.blk)
          /\ InsertBlock(task.blk, Data(task))
          /\ task' = [task EXCEPT !.group = "stored"]
          /\ UNCHANGED <<previous, clean>>
       \/ \* the block data cannot be collected, or has no pool info
          /\ May("collect") \/ ~CanStore(task.blk)
          /\ HandlersFail
          /\ UNCHANGED chainDB
    /\ UNCHANGED <<node, stakeDB, overdue, told, panicked, late, scenario>>

blockdataBlockStored ==
    /\ Running("stored")
    /\ \/ \* every other saver and the last group succeed
          /\ SetBestBlock(task.blk)
          /\ HandlersDone
       \/ \* another saver or a handler of the last group fails
          /\ May("late")
          /\ SetBestBlock(task.blk)
          /\ HandlersFail
       \/ \* UpdateLastBlock fails
          /\ May("store")
          /\ HandlersFail
          /\ UNCHANGED chainDB
    /\ UNCHANGED <<node, stakeDB, overdue, told, panicked, late, scenario>>

-----------------------------------------------------------------------------
(* SyncHandlerDeadline passes: superQueue moves on, the handlers of the    *)
(* group that is running do not stop.                                      *)

HandlerOverdue ==
    /\ \E g \in Holding \cup {"stake", "collect"} : Running(g)
    /\ May("deadline")
    /\ Cardinality(overdue) < MaxOverdue
    /\ overdue' = overdue \cup {[blk |-> task.blk, group |-> task.group]}
    /\ HandlersFail
    /\ UNCHANGED <<node, stakeDB, chainDB, told, panicked, late, scenario>>

OverdueConnects(o) ==
    /\ Alive
    /\ o.group = "stake"
    /\ stakeMtxFree
    /\ overdue' = overdue \ {o}
    /\ IF StakeAccepts(o.blk) THEN StakeConnect(o.blk) ELSE UNCHANGED stakeDB
    /\ UNCHANGED <<node, previous, task, chainDB, clean, told, panicked, late, scenario>>

\* It gets reorgLock at last.
OverdueCollects(o) ==
    /\ Alive
    /\ o.group = "collect"
    /\ reorgLockFree
    /\ ~(task.kind = "run" /\ task.group \in Holding)
    /\ overdue' = (overdue \ {o}) \cup {[o EXCEPT !.group = CollectBy(o.blk)]}
    /\ UNCHANGED <<node, previous, task, stakeDB, chainDB, clean, told, panicked, late, scenario>>

OverdueInserts(o) ==
    /\ Alive
    /\ o.group \in Collecting
    /\ IF CanStore(o.blk)
       THEN /\ overdue' = (overdue \ {o}) \cup {[o EXCEPT !.group = "stored"]}
            /\ InsertBlock(o.blk, Data(o))
       ELSE overdue' = overdue \ {o} /\ UNCHANGED chainDB
    /\ UNCHANGED <<node, previous, task, stakeDB, clean, told, panicked, late, scenario>>

OverdueStored(o) ==
    /\ Alive
    /\ o.group = "stored"
    /\ overdue' = overdue \ {o}
    /\ SetBestBlock(o.blk)
    /\ UNCHANGED <<node, previous, task, stakeDB, clean, told, panicked, late, scenario>>

-----------------------------------------------------------------------------
(* signalReorg.                                                            *)

AncestorHeight(r) == CommonHeight(r.new, r.old)

signalReorg ==
    /\ Receive("reorg")
    /\ \/ task' = Reorg(Head(anyQ), "stakeRewind", <<>>) /\ clean' = TRUE
       \/ May("ancestor") /\ clean' = FALSE /\ UNCHANGED task
    /\ UNCHANGED <<best, previous, stakeDB, chainDB, overdue, told, panicked, late, scenario>>

(***************************************************************************)
(* A reorg handler runs for superQueue ("main"), or on its own once its    *)
(* deadline has passed ("late").  At the end of its group superQueue comes *)
(* to the next group, and a handler on its own just ends.                  *)
(***************************************************************************)
Doing(w) == IF w = "main" THEN task ELSE late

Becomes(w, t) ==
    \/ w = "main" /\ task' = t /\ UNCHANGED late
    \/ w = "late" /\ late' = t /\ UNCHANGED task

ReorgSteps == {"stakeRewind", "stakeConnect", "chainRewind", "toSideChain", "flagged",
               "chainConnect", "chainStored", "record", "hung"}

At(w, step) == Alive /\ Doing(w).kind = "reorg" /\ Doing(w).step = step

GoTo(w, step, todo) == Becomes(w, [Doing(w) EXCEPT !.step = step, !.todo = todo])

GroupEnds(w, next) ==
    Becomes(w, IF w = "main" THEN Reorg(task.tips, next, <<>>) ELSE Idle)

\* A failed reorg handler is logged; the next group runs all the same.
ReorgStepFails(w, next) ==
    /\ GroupEnds(w, next)
    /\ clean' = FALSE

\* disconnectBlock panics where the tip on disk is not BestNode.
Disconnects(h) == stakeSaved \/ Height(stakeTip) <= h

\* stakedb.switchToSideChain, first half: to the height of the ancestor, down
\* by disconnecting, or up by connecting dcrd's blocks one height at a time.
stakeRewind(w) ==
    /\ At(w, "stakeRewind")
    /\ w = "main" => stakeMtxFree
    /\ LET h == AncestorHeight(Doing(w).tips)
       IN  \/ /\ Height(stakeTip) >= h
              /\ Disconnects(h)
              /\ stakeTip' = BlockAt(stakeTip, h)
              /\ GoTo(w, "stakeConnect", BlocksAbove(Doing(w).tips.new, h))
              /\ UNCHANGED <<stakeSaved, poolInfo, clean, panicked>>
           \/ /\ Height(stakeTip) < h
              /\ LET b == BlockAt(best, Height(stakeTip) + 1)
                 IN  IF StakeAccepts(b)
                     THEN StakeConnect(b) /\ UNCHANGED <<task, late, clean>>
                     ELSE ReorgStepFails(w, "chainRewind") /\ UNCHANGED stakeDB
              /\ UNCHANGED panicked
           \/ /\ May("reorg")
              /\ Disconnects(h)
              /\ \E k \in 0 .. Height(stakeTip) :
                    /\ k >= h \/ k = Height(stakeTip)
                    /\ stakeTip' = BlockAt(stakeTip, k)
              /\ ReorgStepFails(w, "chainRewind")
              /\ UNCHANGED <<stakeSaved, poolInfo, panicked>>
           \/ \* "BestNode and stake DB are inconsistent"
              /\ ~Disconnects(h)
              /\ panicked' = TRUE
              /\ UNCHANGED <<task, late, stakeDB, clean>>
    /\ UNCHANGED <<node, previous, chainDB, overdue, told, scenario>>

\* Second half: the new chain is connected.
stakeConnect(w) ==
    /\ At(w, "stakeConnect")
    /\ LET todo == Doing(w).todo
       IN  \/ /\ todo = <<>>
              /\ GroupEnds(w, "chainRewind")
              /\ UNCHANGED <<stakeDB, clean>>
           \/ /\ todo # <<>>
              /\ StakeAccepts(Head(todo))
              /\ StakeConnect(Head(todo))
              /\ GoTo(w, "stakeConnect", Tail(todo))
              /\ UNCHANGED clean
           \/ /\ todo # <<>>
              /\ StakeConnectUnsaved(Head(todo))
              /\ ReorgStepFails(w, "chainRewind")
           \/ /\ todo # <<>>
              /\ ~StakeAccepts(Head(todo)) \/ May("reorg")
              /\ ReorgStepFails(w, "chainRewind")
              /\ UNCHANGED stakeDB
    /\ UNCHANGED <<node, previous, chainDB, overdue, told, panicked, scenario>>

(***************************************************************************)
(* dcrpg.switchToSideChain, first half: nothing to move if the tip is      *)
(* below the ancestor, or else TipToSideChain(mainRoot): from bestBlock    *)
(* down, a row is flagged as side chain and gives the previous hash, which *)
(* becomes bestBlock, until that is mainRoot.  Where there is no row there *)
(* is no previous hash, and the loop goes round for ever.                  *)
(***************************************************************************)
\* Faulty variants: no row is updated; no other row is kept.
FlagNothing(b) == rows' = rows
FlagOnly(b) == rows' = [c \in {b} |-> "side"]

FlagAsSideChain(b) == rows' = [rows EXCEPT ![b] = IF @ = "absent" THEN @ ELSE "side"]

previousHash(b) == IF b = Genesis \/ rows[b] = "absent" THEN <<>> ELSE <<Parent[b]>>

chainRewind(w) ==
    /\ At(w, "chainRewind")
    /\ LET r == Doing(w).tips
           h == AncestorHeight(r)
       IN  IF Height(bestBlock) < h
           THEN GoTo(w, "chainConnect",
                     SubSeq(Chain[best], Height(bestBlock) + 2, h + 1) \o BlocksAbove(r.new, h))
           ELSE GoTo(w, "toSideChain", <<bestBlock>>)
    /\ UNCHANGED <<node, previous, stakeDB, chainDB, overdue, clean, told, panicked, scenario>>

TipToSideChain(w) ==
    /\ At(w, "toSideChain")
    /\ LET r       == Doing(w).tips
           tipHash == Head(Doing(w).todo)
           done    == tipHash = CommonAncestor(r.new, r.old)
       IN  \/ /\ done
              /\ IF Height(bestBlock) = AncestorHeight(r)
                 THEN GoTo(w, "chainConnect", BlocksAbove(r.new, AncestorHeight(r))) /\ UNCHANGED clean
                 ELSE ReorgStepFails(w, "record")
              /\ UNCHANGED rows
           \/ /\ ~done
              /\ FlagAsSideChain(tipHash)
              /\ GoTo(w, "flagged", previousHash(tipHash))
              /\ UNCHANGED clean
           \/ \* the statement fails
              /\ May("store")
              /\ ~done
              /\ GoTo(w, "flagged", <<>>)
              /\ UNCHANGED <<rows, clean>>
    /\ UNCHANGED <<node, previous, stakeDB, bestBlock, misdated, overdue, told, panicked, scenario>>

TipMoved(w) ==
    /\ At(w, "flagged")
    /\ LET todo == Doing(w).todo
       IN  IF todo = <<>>
           THEN SetBestBlock(NoBlock) /\ GoTo(w, "hung", <<>>)
           ELSE SetBestBlock(Head(todo)) /\ GoTo(w, "toSideChain", todo)
    /\ UNCHANGED <<node, previous, stakeDB, overdue, clean, told, panicked, scenario>>

\* Second half: the blocks are stored; charts are snipped.
chainConnect(w) ==
    /\ At(w, "chainConnect")
    /\ LET todo == Doing(w).todo
           b    == Head(todo)
       IN  \/ /\ todo = <<>>
              /\ GroupEnds(w, "record")
              /\ UNCHANGED <<chainDB, clean>>
           \/ /\ todo # <<>>
              /\ CanStore(b)
              /\ InsertBlock(b, b)
              /\ GoTo(w, "chainStored", todo)
              /\ UNCHANGED clean
           \/ /\ todo # <<>>
              /\ ~CanStore(b) \/ May("reorg")
              /\ ReorgStepFails(w, "record")
              /\ UNCHANGED chainDB
    /\ UNCHANGED <<node, previous, stakeDB, overdue, told, panicked, scenario>>

chainStored(w) ==
    /\ At(w, "chainStored")
    /\ LET todo == Doing(w).todo
       IN  \/ /\ SetBestBlock(Head(todo))
              /\ GoTo(w, "chainConnect", Tail(todo))
              /\ UNCHANGED clean
           \/ \* StoreBlock fails after it has set bestBlock
              /\ May("reorg")
              /\ SetBestBlock(Head(todo))
              /\ ReorgStepFails(w, "record")
           \/ \* UpdateLastBlock fails
              /\ May("store")
              /\ ReorgStepFails(w, "record")
              /\ UNCHANGED chainDB
    /\ UNCHANGED <<node, previous, stakeDB, overdue, told, panicked, scenario>>

\* blockdata's ReorgHandler, in the same group, cannot collect the new head:
\* it calls Done on a WaitGroup that is nil.
blockdataReorgFails ==
    /\ At("main", "chainConnect")
    /\ May("reorgCollect")
    /\ reorgLockFree
    /\ panicked' = TRUE
    /\ UNCHANGED <<node, previous, task, late, stakeDB, chainDB, overdue, clean, told, scenario>>

\* Faulty variant: the new head is not recorded.
recordReorgNothing ==
    /\ At("main", "record")
    /\ reorgLockFree
    /\ task' = Idle
    /\ UNCHANGED <<node, previous, stakeDB, chainDB, overdue, clean, told, panicked, late, scenario>>

\* The group of blockdata's ReorgHandler ends once it has had reorgLock.
recordReorg ==
    /\ At("main", "record")
    /\ reorgLockFree
    /\ previous' = task.tips.new
    /\ task' = Idle
    /\ UNCHANGED <<node, stakeDB, chainDB, overdue, clean, told, panicked, late, scenario>>

\* SyncHandlerDeadline passes: the head is not recorded, the later groups do
\* not run, and the handler goes on.  At most one such handler is followed.
ReorgOverdue ==
    /\ \E s \in ReorgSteps \ {"hung"} : At("main", s)
    /\ May("reorgDeadline")
    /\ late = Idle
    /\ late' = IF task.step = "record" THEN Idle ELSE task
    /\ task' = Idle
    /\ clean' = FALSE
    /\ UNCHANGED <<node, previous, stakeDB, chainDB, overdue, told, panicked, scenario>>

reorgHandler(w) ==
    \/ stakeRewind(w) \/ stakeConnect(w)
    \/ chainRewind(w) \/ TipToSideChain(w) \/ TipMoved(w) \/ chainConnect(w) \/ chainStored(w)

-----------------------------------------------------------------------------
superQueue ==
    \/ processBlock \/ catchUpMissedBlocks
    \/ stakeConnectBlock \/ collectOnce \/ blockdataConnectBlock \/ blockdataBlockStored
    \/ signalReorg \/ reorgHandler("main") \/ recordReorg

overdueHandler ==
    \/ \E o \in overdue :
          OverdueConnects(o) \/ OverdueCollects(o) \/ OverdueInserts(o) \/ OverdueStored(o)
    \/ reorgHandler("late")

Next ==
    \/ superQueue
    \/ overdueHandler
    \/ HandlerOverdue \/ ReorgOverdue
    \/ blockdataReorgFails
    \/ \E b \in Block : NodeExtends(b) \/ NodeReorganizes(b)

Spec == Init /\ [][Next]_vars

\* superQueue and its handlers are goroutines that keep being scheduled.
FairSpec == Spec /\ WF_vars(superQueue) /\ WF_vars(overdueHandler)

-----------------------------------------------------------------------------
BlockMessages == [type : {"block"}, block : Block]
ReorgMessages == [type : {"reorg"}, old : Block, new : Block]

CatchUpTasks == [kind : {"catchup"}, bh : Block]
RunTasks     == [kind : {"run"}, bh : Block, blk : Block, group : Holding \cup {"stake", "collect"}]
ReorgTasks   == [kind : {"reorg"}, tips : ReorgMessages, todo : Seq(Block), step : ReorgSteps]

TypeOK ==
    /\ best \in Block /\ previous \in Block /\ stakeTip \in Block
    /\ anyQ \in Seq(BlockMessages \cup ReorgMessages)
    /\ task \in {Idle} \cup CatchUpTasks \cup RunTasks \cup ReorgTasks
    /\ late \in {Idle} \cup ReorgTasks
    /\ poolInfo \subseteq Block
    /\ rows \in [Block -> {"absent", "main", "side"}]
    /\ bestBlock \in Block \cup {NoBlock}
    /\ misdated \subseteq Block
    /\ overdue \subseteq [blk : Block, group : Holding \cup {"stake", "collect"}]
    /\ stakeSaved \in BOOLEAN /\ clean \in BOOLEAN /\ told \in BOOLEAN /\ panicked \in BOOLEAN
    /\ scenario \in Scenarios

(***************************************************************************)
(* Which properties are promised depends on what goes wrong.               *)
(***************************************************************************)
NestedForks == scenario.reach \cap DeepBranch = {}

\* Failures the replay makes good: a block's handlers fail, or its notification
\* is lost, and no reorganisation is overtaken by a deeper one.
Replayable ==
    /\ scenario.faults \subseteq {"rpc", "stake", "collect", "late", "lost", "reorgCollect"}
    /\ scenario.faults = {} \/ NestedForks

\* No handler goes on beside superQueue, and every write that begins is done.
OneAtATime ==
    /\ scenario.faults \cap {"deadline", "reorgDeadline", "store", "disk"} = {}
    /\ NestedForks

(***************************************************************************)
(* The block that the rows lead to while superQueue's handler is between   *)
(* the statement that writes a row and the assignment of bestBlock.        *)
(***************************************************************************)
RowsTip ==
    IF task.kind = "run" /\ task.group = "stored" THEN task.blk
    ELSE IF task.kind = "reorg" /\ task.step \in {"flagged", "chainStored"} /\ task.todo # <<>>
    THEN Head(task.todo)
    ELSE bestBlock

(***************************************************************************)
(* The rows flagged is_mainchain are always exactly one chain - no hole,   *)
(* no second block at a height - in the middle of a reorganisation, after  *)
(* a failed handler, and when a block is replayed.  It ends at bestBlock,  *)
(* but for the moments when StoreBlock has inserted the row of a child and *)
(* not yet set bestBlock, or TipToSideChain has flagged the row of         *)
(* bestBlock and not yet gone back to its parent.                          *)
(***************************************************************************)
MainChainIsBestChain ==
    Replayable =>
        /\ MainRows = BlocksOf(RowsTip)
        /\ \/ RowsTip = bestBlock
           \/ RowsTip # Genesis /\ Parent[RowsTip] = bestBlock
           \/ bestBlock # Genesis /\ Parent[bestBlock] = RowsTip

(***************************************************************************)
(* The readers of ChainDB see one row come or go at a time, at the end of  *)
(* the chain, and bestBlock follow before the next one does: as long as    *)
(* only what the replay makes good fails, the pipeline with all its steps  *)
(* implements FollowedChain.                                               *)
(***************************************************************************)
Followed == INSTANCE FollowedChain
                WITH main <- IF Replayable THEN MainRows ELSE {Genesis},
                     tip  <- IF Replayable THEN bestBlock ELSE Genesis

ImplementsFollowedChain == Followed!Spec

(***************************************************************************)
(* "Recording a block whose handlers failed would leave a permanent hole   *)
(* in the DB" (notifier.go:324): every stored main chain block has its     *)
(* parent stored as a main chain block.                                    *)
(***************************************************************************)
NoHoleInDB == \A b \in MainRows \ {Genesis} : Parent[b] \in MainRows

(***************************************************************************)
(* "Do not handle reorg and block connects simultaneously"                 *)
(* (blockdata/chainmonitor.go:171), so that whatever is reorganised away   *)
(* is off the main chain and no height has two main chain blocks.          *)
(***************************************************************************)
OneMainRow == \A a, b \in MainRows : Height(a) = Height(b) => a = b

(***************************************************************************)
(* Where no handler goes on beside superQueue this is so, also when        *)
(* reorganisations fail half way, are aborted or never notified.           *)
(***************************************************************************)
OneMainBlockPerHeight == OneAtATime => OneMainRow

(***************************************************************************)
(* "ConnectBlock ... collects and stores data for a block"                 *)
(* (blockdata/chainmonitor.go:166): the row of a block has the data of     *)
(* that block, not of another that became dcrd's best block meanwhile.     *)
(***************************************************************************)
DataIsOfTheBlock == misdated = {}

\* superQueue is between two messages and no reorganisation is in the queue.
Settled == task = Idle /\ \A i \in DOMAIN anyQ : anyQ[i].type # "reorg"

(***************************************************************************)
(* What notifier.previous records has been through every handler: it is on *)
(* the chain of the stake database and on the one in ChainDB, and neither  *)
(* is more than the one block ahead whose later handlers failed.           *)
(***************************************************************************)
RecordedIsProcessed ==
    Replayable /\ Settled =>
        /\ OnChain(previous, bestBlock) /\ OnChain(bestBlock, stakeTip)
        /\ Height(stakeTip) <= Height(previous) + 1

\* The ancestor of tip and any block: the highest block below both, if there is one.
FindsLastShared(tip) ==
    \A b \in Block :
        LET shared == (BlocksOf(b) \cap BlocksOf(tip)) \ {b, tip}
        IN  IF shared = {} THEN CommonAncestor(b, tip) = "none"
            ELSE /\ CommonAncestor(b, tip) \in shared
                 /\ \A c \in shared : Height(c) <= Height(CommonAncestor(b, tip))

(***************************************************************************)
(* "The common ancestor will never by one of the chain tips"               *)
(* (rpcutils/rpcclient.go:369): whenever dcrd has a new best block, the    *)
(* loop that looks at one parent at a time finds, for it and any other     *)
(* block, the highest block both chains share below their tips, also when  *)
(* one tip is on the chain of the other, and none only from genesis.       *)
(***************************************************************************)
AncestorIsLastShared == [][best' # best => FindsLastShared(best')]_vars

(***************************************************************************)
(* TipToSideChain always meets the common ancestor, and its loop ends,     *)
(* where it would otherwise "walk past the ancestor flagging valid main    *)
(* chain blocks" (db/dcrpg/chainmonitor.go:63).                            *)
(***************************************************************************)
TipToSideChainEnds == ~Hung

(***************************************************************************)
(* "A handler timing out leaves notifier.previous behind the actual chain  *)
(* tip, and without a replay every subsequent block would be discarded     *)
(* forever" (notifier.go:283): whatever failed or got lost before, once    *)
(* the last notification has been handled without a fault, ChainDB is at   *)
(* dcrd's best block, and no reorganisation on the way kept TipToSideChain *)
(* in its loop.                                                            *)
(***************************************************************************)
ReplayCatchesUp ==
    Replayable =>
        /\ TipToSideChainEnds
        /\ (task = Idle /\ anyQ = <<>> /\ clean /\ told) => bestBlock = best

(***************************************************************************)
(* superQueue gets to the next message whatever fails: no block, replay or *)
(* reorganisation keeps it for ever, also while it waits for reorgLock or  *)
(* for the stake monitor's mutex, which a handler past its deadline still  *)
(* holds - unless TipToSideChain goes round for ever or a handler has      *)
(* taken the process down.                                                 *)
(***************************************************************************)
SuperQueueReturns == task # Idle ~> (task = Idle \/ ~Alive)

(***************************************************************************)
(* When nothing fails, ChainDB and the stake database get to dcrd's best   *)
(* block and stay there once it no longer changes.                         *)
(***************************************************************************)
FollowsNode ==
    scenario.faults = {} => <>[](bestBlock = best /\ stakeTip = best /\ previous = best)
=============================================================================
