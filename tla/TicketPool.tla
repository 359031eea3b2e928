----------------------------- MODULE TicketPool -----------------------------
(***************************************************************************)
(* stakedb.TicketPool (stakedb/ticketpool.go): the live ticket pool kept   *)
(* as a list of per-block diffs, with a cursor that is moved forwards and  *)
(* backwards over the diffs to materialise the pool at any height.         *)
(*                                                                         *)
(* One writer (the holder of StakeDatabase.nodeMtx) appends and trims      *)
(* diffs; any number of readers ask Pool(height).  All of them share tip,  *)
(* cursor, diffs and pool under TicketPool.mtx, but the loops that move    *)
(* the cursor are modelled one iteration per step, and Append reads tip    *)
(* before it takes the lock.                                               *)
(***************************************************************************)
EXTENDS Integers, Sequences, FiniteSets

CONSTANTS
    Tickets,      \* the ticket hashes that occur
    MaxHeight,    \* bound: the highest block that is appended
    StoreOK,      \* the outcomes of badger's Update: TRUE stored, FALSE an error
    NoDiff,       \* absence of a record in the badger database
    NoAnswer      \* no call of Pool returned in the last step

ASSUME MaxHeightAssumption == MaxHeight \in Nat
ASSUME StoreOKAssumption   == StoreOK \subseteq BOOLEAN
ASSUME TicketsAssumption   == IsFiniteSet(Tickets)
ASSUME NoDiffAssumption    == NoDiff \notin [In : SUBSET Tickets, Out : SUBSET Tickets]
ASSUME NoAnswerAssumption  ==
    NoAnswer \notin [height : Int, ok : BOOLEAN, tickets : SUBSET Tickets]

VARIABLES
    tip,        \* TicketPool.tip
    cursor,     \* TicketPool.cursor, the index of the next unapplied diff
    diffs,      \* TicketPool.diffs; diffs[i] leads from height i - 1 to i
    pool,       \* TicketPool.pool, the materialised ticket set
    diffDB,     \* TicketPool.diffDB, the badger records by height
    op,         \* the holder of TicketPool.mtx and the height it moves to
    writer,     \* what the writer goroutine is in the middle of
    pending,    \* the diff argument of the Append in progress
    answer,     \* what Pool returned to its caller in the last step
    live,       \* history: live[h + 1] is the live set of the chain at height h
    unstored    \* history: heights whose storeDiff returned an error

poolVars == <<cursor, pool>>
listVars == <<tip, diffs, diffDB, live, unstored>>
vars == <<tip, cursor, diffs, pool, diffDB, op, writer, pending, answer, live, unstored>>

-----------------------------------------------------------------------------
PoolDiff == [In : SUBSET Tickets, Out : SUBSET Tickets]

EmptyDiff == [In |-> {}, Out |-> {}]

Unlocked == [kind |-> "free", height |-> 0]

\* A request for a height below genesis or above the tip is one a caller can make.
Requests == -1 .. MaxHeight + 1

\* applyDiff: insert all of in, then delete all of out.
applyDiff(p, in, out) == (p \cup in) \ out

\* maxCursor: the largest valid index into diffs, 0 when there is none.
maxCursor(t) == IF t = 0 THEN 0 ELSE t - 1

(***************************************************************************)
(* The diffs ConnectBlock computes: maturing tickets come in, winners and  *)
(* expired tickets, drawn from the tickets live before the block, go out.  *)
(***************************************************************************)
BuildsOn(d, l) == d.In \cap l = {} /\ d.Out \subseteq l

Init ==
    /\ tip = 0
    /\ cursor = 0
    /\ diffs = <<>>
    /\ pool = {}
    /\ diffDB = [h \in 1 .. MaxHeight |-> NoDiff]
    /\ op = Unlocked
    /\ writer = "idle"
    /\ pending = EmptyDiff
    /\ answer = NoAnswer
    /\ live = <<{}>>
    /\ unstored = {}

-----------------------------------------------------------------------------
(* The writer: Append, Trim and AdvanceToTip.                              *)

WriterIdle == writer = "idle" /\ op.kind \notin {"trim", "tip"}

\* Append, before the lock: height # tp.tip + 1 is refused, so height = tip + 1.
AppendCheck(d) ==
    /\ WriterIdle
    /\ tip < MaxHeight
    /\ BuildsOn(d, live[Len(live)])
    /\ writer' = "append"
    /\ pending' = d
    /\ answer' = NoAnswer
    /\ UNCHANGED <<tip, cursor, diffs, pool, diffDB, op, live, unstored>>

\* Faulty variant: the record is stored under the height before the new one.
AppendCommitLowKey(stored) ==
    /\ writer = "append"
    /\ op = Unlocked
    /\ tip' = tip + 1
    /\ diffs' = Append(diffs, pending)
    /\ live' = Append(live, applyDiff(live[Len(live)], pending.In, pending.Out))
    /\ diffDB' = [diffDB EXCEPT ![tip] = IF stored THEN pending ELSE @]
    /\ unstored' = IF stored THEN unstored ELSE unstored \cup {tip + 1}
    /\ writer' = "idle"
    /\ pending' = EmptyDiff
    /\ answer' = NoAnswer
    /\ UNCHANGED <<cursor, pool, op>>

\* Append, under the lock: the slice grows first, then the record is stored.
AppendCommit(stored) ==
    /\ writer = "append"
    /\ op = Unlocked
    /\ tip' = tip + 1
    /\ diffs' = Append(diffs, pending)
    /\ live' = Append(live, applyDiff(live[Len(live)], pending.In, pending.Out))
    /\ IF stored
       THEN diffDB' = [diffDB EXCEPT ![tip + 1] = pending] /\ unstored' = unstored
       ELSE diffDB' = diffDB /\ unstored' = unstored \cup {tip + 1}
    /\ writer' = "idle"
    /\ pending' = EmptyDiff
    /\ answer' = NoAnswer
    /\ UNCHANGED <<cursor, pool, op>>

\* Faulty variant: an empty pool is trimmed too.
TrimBeginAtGenesis ==
    /\ writer = "idle"
    /\ op = Unlocked
    /\ tip' = tip - 1
    /\ op' = [kind |-> "trim", height |-> maxCursor(tip - 1)]
    /\ answer' = NoAnswer
    /\ UNCHANGED <<cursor, diffs, pool, diffDB, writer, pending, live, unstored>>

\* trim: the tip is lowered, then the cursor is to retreat to the new maxCursor.
TrimBegin ==
    /\ writer = "idle"
    /\ op = Unlocked
    /\ tip > 0
    /\ tip' = tip - 1
    /\ op' = [kind |-> "trim", height |-> maxCursor(tip - 1)]
    /\ answer' = NoAnswer
    /\ UNCHANGED <<cursor, diffs, pool, diffDB, writer, pending, live, unstored>>

\* Faulty variant: the diff is dropped without waiting for the cursor.
TrimEndEarly ==
    /\ op.kind = "trim"
    /\ diffs' = SubSeq(diffs, 1, Len(diffs) - 1)
    /\ live' = SubSeq(live, 1, Len(live) - 1)
    /\ unstored' = unstored \ {Len(diffs)}
    /\ op' = Unlocked
    /\ answer' = NoAnswer
    /\ UNCHANGED <<tip, cursor, pool, diffDB, writer, pending>>

\* trim, after retreating: the last diff is dropped.  The record on disk stays.
TrimEnd ==
    /\ op.kind = "trim"
    /\ cursor <= op.height
    /\ diffs' = SubSeq(diffs, 1, Len(diffs) - 1)
    /\ live' = SubSeq(live, 1, Len(live) - 1)
    /\ unstored' = unstored \ {Len(diffs)}
    /\ op' = Unlocked
    /\ answer' = NoAnswer
    /\ UNCHANGED <<tip, cursor, pool, diffDB, writer, pending>>

AdvanceToTipBegin ==
    /\ writer = "idle"
    /\ op = Unlocked
    /\ op' = [kind |-> "tip", height |-> tip]
    /\ answer' = NoAnswer
    /\ UNCHANGED <<tip, cursor, diffs, pool, diffDB, writer, pending, live, unstored>>

AdvanceToTipEnd ==
    /\ op.kind = "tip"
    /\ cursor >= op.height
    /\ op' = Unlocked
    /\ answer' = NoAnswer
    /\ UNCHANGED <<tip, cursor, diffs, pool, diffDB, writer, pending, live, unstored>>

-----------------------------------------------------------------------------
(* A reader: Pool(height).                                                 *)

PoolFails(h) == answer' = [height |-> h, ok |-> FALSE, tickets |-> {}]

PoolReject(h) ==
    /\ op = Unlocked
    /\ h > tip
    /\ PoolFails(h)
    /\ UNCHANGED <<tip, cursor, diffs, pool, diffDB, op, writer, pending, live, unstored>>

PoolBegin(h) ==
    /\ op = Unlocked
    /\ h <= tip
    /\ op' = [kind |-> "pool", height |-> h]
    /\ answer' = NoAnswer
    /\ UNCHANGED <<tip, cursor, diffs, pool, diffDB, writer, pending, live, unstored>>

\* Faulty variant: the cursor need not have arrived.
PoolEndEarly ==
    /\ op.kind = "pool"
    /\ answer' = [height |-> op.height, ok |-> TRUE, tickets |-> pool]
    /\ op' = Unlocked
    /\ UNCHANGED <<tip, cursor, diffs, pool, diffDB, writer, pending, live, unstored>>

PoolEnd ==
    /\ op.kind = "pool"
    /\ cursor = op.height
    /\ answer' = [height |-> op.height, ok |-> TRUE, tickets |-> pool]
    /\ op' = Unlocked
    /\ UNCHANGED <<tip, cursor, diffs, pool, diffDB, writer, pending, live, unstored>>

-----------------------------------------------------------------------------
(* The cursor: one iteration of the advance and retreat loops.             *)

\* Faulty variant: the loop goes on after an error.
LoopFailsIgnored(at) == UNCHANGED op /\ answer' = NoAnswer

\* The error of a loop is returned by its caller: Pool gives it to the reader,
\* AdvanceToTip to the writer, and trim only logs it and stops retreating.
LoopFails(at) ==
    \/ /\ op.kind = "pool"
       /\ op' = Unlocked
       /\ PoolFails(op.height)
    \/ /\ op.kind = "tip"
       /\ op' = Unlocked
       /\ answer' = NoAnswer
    \/ /\ op.kind = "trim"
       /\ op' = [op EXCEPT !.height = at]
       /\ answer' = NoAnswer

\* Move the pool over a diff; fail when its size is not the expected one.
MovePool(in, out, newCursor) ==
    /\ pool' = applyDiff(pool, in, out)
    /\ cursor' = newCursor
    /\ IF Cardinality(pool') = Cardinality(pool) + Cardinality(in) - Cardinality(out)
       THEN answer' = NoAnswer /\ UNCHANGED op
       ELSE LoopFails(newCursor)

advance ==
    /\ op.kind \in {"pool", "tip"}
    /\ op.height > cursor
    /\ IF cursor > maxCursor(tip)
       THEN LoopFails(cursor) /\ UNCHANGED poolVars
       ELSE MovePool(diffs[cursor + 1].In, diffs[cursor + 1].Out, cursor + 1)
    /\ UNCHANGED <<listVars, writer, pending>>

\* Faulty variant: the diff is applied again instead of undone.
retreatApplies ==
    /\ op.kind \in {"pool", "trim"}
    /\ cursor > op.height
    /\ IF cursor = 0
       THEN LoopFails(cursor) /\ UNCHANGED poolVars
       ELSE MovePool(diffs[cursor].In, diffs[cursor].Out, cursor - 1)
    /\ UNCHANGED <<listVars, writer, pending>>

retreat ==
    /\ op.kind \in {"pool", "trim"}
    /\ cursor > op.height
    /\ IF cursor = 0
       THEN LoopFails(cursor) /\ UNCHANGED poolVars
       ELSE MovePool(diffs[cursor].Out, diffs[cursor].In, cursor - 1)
    /\ UNCHANGED <<listVars, writer, pending>>

-----------------------------------------------------------------------------
\* The steps of whoever holds the lock.
Holder == advance \/ retreat \/ PoolEnd \/ TrimEnd \/ AdvanceToTipEnd

Next ==
    \/ \E d \in PoolDiff : AppendCheck(d)
    \/ \E stored \in StoreOK : AppendCommit(stored)
    \/ TrimBegin
    \/ AdvanceToTipBegin
    \/ \E h \in Requests : PoolReject(h) \/ PoolBegin(h)
    \/ Holder

\* The goroutine that holds the mutex is never blocked and keeps being scheduled.
Spec == Init /\ [][Next]_vars /\ WF_vars(Holder)

-----------------------------------------------------------------------------
TypeOK ==
    /\ tip \in 0 .. MaxHeight
    /\ cursor \in 0 .. MaxHeight
    /\ diffs \in Seq(PoolDiff)
    /\ pool \in SUBSET Tickets
    /\ diffDB \in [1 .. MaxHeight -> PoolDiff \cup {NoDiff}]
    /\ op \in [kind : {"free", "pool", "tip", "trim"}, height : Int]
    /\ writer \in {"idle", "append"}
    /\ pending \in PoolDiff
    /\ answer \in [height : Int, ok : BOOLEAN, tickets : SUBSET Tickets] \cup {NoAnswer}
    /\ live \in Seq(SUBSET Tickets)
    /\ unstored \in SUBSET (1 .. MaxHeight)

(***************************************************************************)
(* The cursor never points past the diffs that exist, even in the middle   *)
(* of trim, where tip is already lowered and the last diff is still there: *)
(* the slice accesses of advance and retreat are always in bounds.         *)
(***************************************************************************)
CursorInBounds ==
    /\ cursor <= Len(diffs)
    /\ op.kind \in {"pool", "tip"} /\ op.height > cursor => cursor + 1 <= Len(diffs)

(***************************************************************************)
(* Whatever sequence of appends, trims and lookups moved the cursor, the   *)
(* materialised pool is the live set of the current chain at the cursor.   *)
(***************************************************************************)
PoolIsLiveAtCursor == cursor + 1 <= Len(live) /\ pool = live[cursor + 1]

(***************************************************************************)
(* "Pool attempts to get the tickets in the live pool at the specified     *)
(* height" (ticketpool.go:704): what Pool returns is the live set of that  *)
(* height on the chain as it is when the call returns, and a height        *)
(* between genesis and the tip is never answered with an error.            *)
(***************************************************************************)
PoolAnswersLiveSet ==
    [][answer' # NoAnswer =>
          IF answer'.ok
          THEN answer'.height \in 0 .. tip /\ answer'.tickets = live[answer'.height + 1]
          ELSE answer'.height \notin 0 .. tip]_vars

(***************************************************************************)
(* An Append that returned nil is durable: its record is the one on disk   *)
(* for that height as long as the diff is part of the chain, also when the *)
(* height was occupied before by a block that was trimmed.                 *)
(***************************************************************************)
StoredDiffsAreCurrent ==
    \A h \in 1 .. Len(diffs) : h \notin unstored => diffDB[h] = diffs[h]

(***************************************************************************)
(* Every lookup and every trim ends: the loops of Pool, AdvanceToTip and   *)
(* trim terminate and release the mutex.                                   *)
(***************************************************************************)
LockIsReleased == op.kind # "free" ~> op.kind = "free"
=============================================================================
