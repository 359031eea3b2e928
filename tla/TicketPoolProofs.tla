-------------------------- MODULE TicketPoolProofs --------------------------
(***************************************************************************)
(* Proofs about TicketPool, for any finite set of tickets, any bound on    *)
(* the height and any interleaving of the writer with the readers.         *)
(***************************************************************************)
EXTENDS TicketPool, FiniteSetTheorems, TLAPS

(***************************************************************************)
(* The inductive invariant.  The list of diffs and the history of live     *)
(* sets are linked position by position; while trim runs, tip is one lower *)
(* than the number of diffs, and the target of the holder of the lock is   *)
(* within the diffs that will remain.                                      *)
(***************************************************************************)
Linked ==
    /\ Len(live) = Len(diffs) + 1
    /\ \A i \in 1 .. Len(diffs) :
          /\ BuildsOn(diffs[i], live[i])
          /\ live[i + 1] = applyDiff(live[i], diffs[i].In, diffs[i].Out)

TipMatches ==
    /\ op.kind = "trim" => Len(diffs) = tip + 1
    /\ op.kind # "trim" => Len(diffs) = tip

HolderInRange ==
    /\ op.kind = "free" => op = Unlocked
    /\ op.kind \in {"pool", "tip", "trim"} => op.height <= tip
    /\ cursor <= Len(diffs)

WriterReady ==
    writer = "append" =>
        /\ op.kind \notin {"trim", "tip"}
        /\ tip < MaxHeight
        /\ BuildsOn(pending, live[Len(live)])

PoolAtCursor == pool = live[cursor + 1]

TicketPoolInv ==
    TypeOK /\ Linked /\ TipMatches /\ HolderInRange /\ WriterReady
           /\ PoolAtCursor /\ StoredDiffsAreCurrent

-----------------------------------------------------------------------------
\* Applying a diff to the set it builds on, and undoing it, in closed form.
LEMMA ApplyUndo ==
    ASSUME NEW l, NEW d, BuildsOn(d, l)
    PROVE  applyDiff(applyDiff(l, d.In, d.Out), d.Out, d.In) = l
BY DEF BuildsOn, applyDiff

\* The diffs of every position, in both directions, at the cursor.
LEMMA CursorDiff ==
    ASSUME TicketPoolInv
    PROVE  /\ cursor < Len(diffs) =>
                /\ diffs[cursor + 1] \in PoolDiff
                /\ BuildsOn(diffs[cursor + 1], pool)
                /\ applyDiff(pool, diffs[cursor + 1].In, diffs[cursor + 1].Out)
                     = live[cursor + 2]
           /\ cursor > 0 =>
                /\ diffs[cursor] \in PoolDiff
                /\ BuildsOn(diffs[cursor], live[cursor])
                /\ pool = applyDiff(live[cursor], diffs[cursor].In, diffs[cursor].Out)
                /\ applyDiff(pool, diffs[cursor].Out, diffs[cursor].In) = live[cursor]
<1> USE DEF TicketPoolInv, TypeOK, Linked, PoolAtCursor, HolderInRange
<1>1. ASSUME cursor < Len(diffs)
      PROVE  /\ diffs[cursor + 1] \in PoolDiff
             /\ BuildsOn(diffs[cursor + 1], pool)
             /\ applyDiff(pool, diffs[cursor + 1].In, diffs[cursor + 1].Out)
                  = live[cursor + 2]
  <2>1. cursor + 1 \in 1 .. Len(diffs) /\ (cursor + 1) + 1 = cursor + 2
    BY <1>1
  <2> QED BY <2>1
<1>2. ASSUME cursor > 0
      PROVE  /\ diffs[cursor] \in PoolDiff
             /\ BuildsOn(diffs[cursor], live[cursor])
             /\ pool = applyDiff(live[cursor], diffs[cursor].In, diffs[cursor].Out)
             /\ applyDiff(pool, diffs[cursor].Out, diffs[cursor].In) = live[cursor]
  <2>1. cursor \in 1 .. Len(diffs)
    BY <1>2
  <2>2. /\ BuildsOn(diffs[cursor], live[cursor])
        /\ pool = applyDiff(live[cursor], diffs[cursor].In, diffs[cursor].Out)
    BY <2>1
  <2>3. diffs[cursor] \in PoolDiff
    BY <2>1
  <2> QED BY <2>2, <2>3, ApplyUndo
<1> QED BY <1>1, <1>2

-----------------------------------------------------------------------------
\* A pool without diffs.
LEMMA InitInv == Init => TicketPoolInv
<1> SUFFICES ASSUME Init PROVE TicketPoolInv
  OBVIOUS
<1> USE DEF Init
<1>1. TypeOK
  <2>1. EmptyDiff \in PoolDiff
    BY DEF EmptyDiff, PoolDiff
  <2>2. <<{}>> \in Seq(SUBSET Tickets) /\ <<>> \in Seq(PoolDiff)
    OBVIOUS
  <2>3. diffDB \in [1 .. MaxHeight -> PoolDiff \cup {NoDiff}]
    OBVIOUS
  <2>4. op \in [kind : {"free", "pool", "tip", "trim"}, height : Int]
    BY DEF Unlocked
  <2> QED BY <2>1, <2>2, <2>3, <2>4, MaxHeightAssumption DEF TypeOK
<1>2. Linked /\ TipMatches /\ HolderInRange /\ WriterReady /\ PoolAtCursor
      /\ StoredDiffsAreCurrent
  BY DEF Linked, TipMatches, HolderInRange, WriterReady, PoolAtCursor, Unlocked,
         StoredDiffsAreCurrent
<1> QED BY <1>1, <1>2 DEF TicketPoolInv

-----------------------------------------------------------------------------
(* Each action preserves the invariant.                                    *)

\* The check of Append that is made without the lock.
LEMMA AppendCheckInv ==
    ASSUME TicketPoolInv, NEW d \in PoolDiff, AppendCheck(d)
    PROVE  TicketPoolInv'
BY DEF TicketPoolInv, TypeOK, Linked, TipMatches, HolderInRange, WriterReady, PoolAtCursor,
       StoredDiffsAreCurrent, AppendCheck, WriterIdle

\* The locked part of Append.
LEMMA AppendCommitInv ==
    ASSUME TicketPoolInv, NEW stored \in StoreOK, AppendCommit(stored)
    PROVE  TicketPoolInv'
<1> USE DEF AppendCommit
<1> DEFINE next == applyDiff(live[Len(live)], pending.In, pending.Out)
<1>1. /\ Len(diffs) = tip /\ Len(live) = tip + 1 /\ tip + 1 \in 1 .. MaxHeight
      /\ pending \in PoolDiff /\ op.kind = "free" /\ cursor <= tip
      /\ cursor \in Nat /\ tip \in Nat
  BY MaxHeightAssumption
     DEF TicketPoolInv, TypeOK, Linked, TipMatches, HolderInRange, WriterReady, Unlocked
<1>2. live[Len(live)] \in SUBSET Tickets /\ next \in SUBSET Tickets
  <2>1. live[Len(live)] \in SUBSET Tickets
    BY <1>1 DEF TicketPoolInv, TypeOK
  <2> QED BY <2>1, <1>1 DEF applyDiff, PoolDiff
<1>3. /\ diffs' \in Seq(PoolDiff) /\ Len(diffs') = tip + 1
      /\ \A i \in 1 .. tip : diffs'[i] = diffs[i]
      /\ diffs'[tip + 1] = pending
  BY <1>1 DEF TicketPoolInv, TypeOK
<1>4. /\ live' \in Seq(SUBSET Tickets) /\ Len(live') = tip + 2
      /\ \A i \in 1 .. tip + 1 : live'[i] = live[i]
      /\ live'[tip + 2] = next
  BY <1>1, <1>2 DEF TicketPoolInv, TypeOK
<1>5. TypeOK'
  <2>1. diffDB' \in [1 .. MaxHeight -> PoolDiff \cup {NoDiff}]
    BY <1>1 DEF TicketPoolInv, TypeOK
  <2>2. unstored' \in SUBSET (1 .. MaxHeight)
    BY <1>1 DEF TicketPoolInv, TypeOK
  <2>3. pending' \in PoolDiff
    BY DEF EmptyDiff, PoolDiff
  <2>4. tip' \in 0 .. MaxHeight
    BY <1>1
  <2> QED BY <1>3, <1>4, <2>1, <2>2, <2>3, <2>4 DEF TicketPoolInv, TypeOK
<1>6. Linked'
  <2> SUFFICES ASSUME NEW i \in 1 .. tip + 1
               PROVE  /\ BuildsOn(diffs'[i], live'[i])
                      /\ live'[i + 1] = applyDiff(live'[i], diffs'[i].In, diffs'[i].Out)
    BY <1>1, <1>3, <1>4 DEF Linked
  <2>1. CASE i \in 1 .. tip
    BY <2>1, <1>1, <1>3, <1>4 DEF TicketPoolInv, Linked
  <2>2. CASE i = tip + 1
    BY <2>2, <1>1, <1>3, <1>4 DEF TicketPoolInv, WriterReady
  <2> QED BY <2>1, <2>2, <1>1
<1>7. TipMatches' /\ HolderInRange' /\ WriterReady'
  BY <1>1, <1>3 DEF TicketPoolInv, TipMatches, HolderInRange, WriterReady, Unlocked
<1>8. PoolAtCursor'
  BY <1>1, <1>4 DEF TicketPoolInv, PoolAtCursor
<1>9. StoredDiffsAreCurrent'
  <2> SUFFICES ASSUME NEW i \in 1 .. tip + 1, i \notin unstored'
               PROVE  diffDB'[i] = diffs'[i]
    BY <1>3 DEF StoredDiffsAreCurrent
  <2>1. CASE i \in 1 .. tip
    <3>1. i # tip + 1 /\ i \in 1 .. MaxHeight /\ i \in 1 .. Len(diffs)
      BY <2>1, <1>1, MaxHeightAssumption
    <3>2. diffDB'[i] = diffDB[i] /\ i \notin unstored
      <4>1. CASE stored
        BY <4>1, <3>1 DEF TicketPoolInv, TypeOK
      <4>2. CASE ~stored
        BY <4>2, <3>1
      <4> QED BY <4>1, <4>2
    <3> QED BY <3>1, <3>2, <2>1, <1>3 DEF TicketPoolInv, StoredDiffsAreCurrent
  <2>2. CASE i = tip + 1
    BY <2>2, <1>1, <1>3 DEF TicketPoolInv, TypeOK
  <2> QED BY <2>1, <2>2, <1>1
<1> QED BY <1>5, <1>6, <1>7, <1>8, <1>9 DEF TicketPoolInv

\* Trim has lowered the tip, and the last diff is still there.
LEMMA TrimBeginInv ==
    ASSUME TicketPoolInv, TrimBegin
    PROVE  TicketPoolInv'
<1>1. maxCursor(tip - 1) \in Int /\ maxCursor(tip - 1) <= tip - 1
  BY DEF TicketPoolInv, TypeOK, maxCursor, TrimBegin
<1>2. TypeOK'
  <2>1. op' \in [kind : {"free", "pool", "tip", "trim"}, height : Int]
    BY <1>1 DEF TrimBegin
  <2>2. tip' \in 0 .. MaxHeight
    BY MaxHeightAssumption DEF TicketPoolInv, TypeOK, TrimBegin
  <2> QED BY <2>1, <2>2 DEF TicketPoolInv, TypeOK, TrimBegin
<1>3. Linked' /\ TipMatches' /\ HolderInRange' /\ WriterReady' /\ PoolAtCursor'
      /\ StoredDiffsAreCurrent'
  BY <1>1 DEF TicketPoolInv, TypeOK, Linked, TipMatches, HolderInRange, WriterReady,
              PoolAtCursor, StoredDiffsAreCurrent, TrimBegin, Unlocked
<1> QED BY <1>2, <1>3 DEF TicketPoolInv

\* Trim removes the last diff.
LEMMA TrimEndInv ==
    ASSUME TicketPoolInv, TrimEnd
    PROVE  TicketPoolInv'
<1> USE DEF TrimEnd
<1>1. /\ Len(diffs) = tip + 1 /\ Len(live) = tip + 2 /\ cursor <= tip
      /\ tip \in Nat /\ cursor \in Nat
      /\ diffs \in Seq(PoolDiff) /\ live \in Seq(SUBSET Tickets)
  BY DEF TicketPoolInv, TypeOK, Linked, TipMatches, HolderInRange
<1>2. /\ diffs' \in Seq(PoolDiff) /\ Len(diffs') = tip
      /\ \A i \in 1 .. tip : diffs'[i] = diffs[i]
  BY <1>1
<1>3. /\ live' \in Seq(SUBSET Tickets) /\ Len(live') = tip + 1
      /\ \A i \in 1 .. tip + 1 : live'[i] = live[i]
  BY <1>1
<1>4. TypeOK'
  <2>1. op' \in [kind : {"free", "pool", "tip", "trim"}, height : Int]
    BY DEF Unlocked
  <2> QED BY <2>1, <1>2, <1>3 DEF TicketPoolInv, TypeOK
<1>5. Linked'
  BY <1>1, <1>2, <1>3 DEF TicketPoolInv, Linked
<1>6. TipMatches' /\ HolderInRange'
  BY <1>1, <1>2 DEF TipMatches, HolderInRange, Unlocked
<1>7. WriterReady'
  BY DEF TicketPoolInv, WriterReady
<1>8. PoolAtCursor'
  BY <1>1, <1>3 DEF TicketPoolInv, PoolAtCursor
<1>9. StoredDiffsAreCurrent'
  BY <1>1, <1>2 DEF TicketPoolInv, StoredDiffsAreCurrent
<1> QED BY <1>4, <1>5, <1>6, <1>7, <1>8, <1>9 DEF TicketPoolInv

\* Taking or releasing the lock without touching the list or the cursor.
LEMMA LockInv ==
    ASSUME TicketPoolInv,
           \/ AdvanceToTipBegin \/ AdvanceToTipEnd \/ PoolEnd
           \/ \E h \in Requests : PoolReject(h) \/ PoolBegin(h)
    PROVE  TicketPoolInv'
<1>1. Requests \subseteq Int
  BY MaxHeightAssumption DEF Requests
<1>2. TypeOK'
  <2>1. op' \in [kind : {"free", "pool", "tip", "trim"}, height : Int]
    BY <1>1 DEF TicketPoolInv, TypeOK, AdvanceToTipBegin, AdvanceToTipEnd, PoolEnd, PoolReject,
                PoolBegin, Unlocked
  <2>2. answer' \in [height : Int, ok : BOOLEAN, tickets : SUBSET Tickets] \cup {NoAnswer}
    <3>1. CASE AdvanceToTipBegin \/ AdvanceToTipEnd
      BY <3>1 DEF AdvanceToTipBegin, AdvanceToTipEnd
    <3>2. CASE PoolEnd
      <4>1. op.height \in Int /\ pool \in SUBSET Tickets
        BY DEF TicketPoolInv, TypeOK
      <4> QED BY <4>1, <3>2 DEF PoolEnd
    <3>3. CASE \E h \in Requests : PoolReject(h) \/ PoolBegin(h)
      <4>1. PICK h \in Requests : PoolReject(h) \/ PoolBegin(h)
        BY <3>3
      <4>2. h \in Int
        BY <1>1
      <4>3. [height |-> h, ok |-> FALSE, tickets |-> {}]
              \in [height : Int, ok : BOOLEAN, tickets : SUBSET Tickets]
        BY <4>2
      <4> QED BY <4>1, <4>3 DEF PoolReject, PoolBegin, PoolFails
    <3> QED BY <3>1, <3>2, <3>3
  <2> QED BY <2>1, <2>2 DEF TicketPoolInv, TypeOK, AdvanceToTipBegin, AdvanceToTipEnd, PoolEnd,
                            PoolReject, PoolBegin
<1>3. Linked' /\ PoolAtCursor' /\ StoredDiffsAreCurrent'
  BY DEF TicketPoolInv, Linked, PoolAtCursor, StoredDiffsAreCurrent, AdvanceToTipBegin,
         AdvanceToTipEnd, PoolEnd, PoolReject, PoolBegin
<1>4. TipMatches' /\ HolderInRange' /\ WriterReady'
  BY <1>1 DEF TicketPoolInv, TypeOK, TipMatches, HolderInRange, WriterReady, AdvanceToTipBegin,
         AdvanceToTipEnd, PoolEnd, PoolReject, PoolBegin, Unlocked
<1> QED BY <1>2, <1>3, <1>4 DEF TicketPoolInv

\* A failing loop only releases the lock, answers with an error, or stops trim.
LEMMA LoopFailsInv ==
    ASSUME TicketPoolInv, NEW at \in Int, at <= tip \/ op.kind # "trim", LoopFails(at)
    PROVE  /\ op' \in [kind : {"free", "pool", "tip", "trim"}, height : Int]
           /\ answer' \in [height : Int, ok : BOOLEAN, tickets : SUBSET Tickets] \cup {NoAnswer}
           /\ op.kind = "trim" <=> op'.kind = "trim"
           /\ op'.kind = "free" => op' = Unlocked
           /\ op'.kind # "free" => op'.kind = "trim" /\ op'.height <= tip
<1>1. op \in [kind : {"free", "pool", "tip", "trim"}, height : Int]
  BY DEF TicketPoolInv, TypeOK
<1>2. CASE op.kind = "pool" /\ op' = Unlocked /\ PoolFails(op.height)
  <2>1. [height |-> op.height, ok |-> FALSE, tickets |-> {}]
          \in [height : Int, ok : BOOLEAN, tickets : SUBSET Tickets]
    BY <1>1
  <2> QED BY <2>1, <1>2 DEF PoolFails, Unlocked
<1>3. CASE op.kind = "tip" /\ op' = Unlocked /\ answer' = NoAnswer
  BY <1>3 DEF Unlocked
<1>4. CASE op.kind = "trim" /\ op' = [op EXCEPT !.height = at] /\ answer' = NoAnswer
  BY <1>1, <1>4
<1> QED BY <1>2, <1>3, <1>4 DEF LoopFails

\* The last part of both loops: the pool moves from one live set to the next.
LEMMA MovePoolInv ==
    ASSUME TicketPoolInv, NEW in, NEW out, NEW c \in Nat,
           c + 1 <= Len(live), c <= tip \/ op.kind # "trim",
           applyDiff(pool, in, out) = live[c + 1],
           MovePool(in, out, c),
           UNCHANGED <<listVars, writer, pending>>
    PROVE  TicketPoolInv'
<1>1. /\ op' \in [kind : {"free", "pool", "tip", "trim"}, height : Int]
      /\ answer' \in [height : Int, ok : BOOLEAN, tickets : SUBSET Tickets] \cup {NoAnswer}
      /\ op.kind = "trim" <=> op'.kind = "trim"
      /\ op'.kind = "free" => op' = Unlocked
      /\ op'.kind # "free" => op'.height <= tip
      /\ op'.kind # op.kind => op'.kind = "free"
  <2>1. CASE answer' = NoAnswer /\ UNCHANGED op
    BY <2>1 DEF TicketPoolInv, TypeOK, HolderInRange
  <2>2. CASE LoopFails(c)
    BY <2>2, LoopFailsInv
  <2> QED BY <2>1, <2>2 DEF MovePool
<1>2. live[c + 1] \in SUBSET Tickets /\ c <= Len(diffs)
  BY DEF TicketPoolInv, TypeOK, Linked
<1>3. c \in 0 .. MaxHeight
  <2>1. Len(diffs) <= tip \/ op.kind = "trim"
    BY DEF TicketPoolInv, TipMatches, TypeOK
  <2> QED BY <2>1, <1>2, MaxHeightAssumption DEF TicketPoolInv, TypeOK
<1>4. pool' = live[c + 1] /\ cursor' = c
  BY DEF MovePool
<1>5. TypeOK'
  BY <1>1, <1>2, <1>3, <1>4 DEF TicketPoolInv, TypeOK, listVars
<1>6. Linked' /\ StoredDiffsAreCurrent' /\ PoolAtCursor'
  BY <1>4 DEF TicketPoolInv, Linked, StoredDiffsAreCurrent, PoolAtCursor, listVars
<1>7. TipMatches' /\ HolderInRange' /\ WriterReady'
  BY <1>1, <1>2, <1>4 DEF TicketPoolInv, TipMatches, HolderInRange, WriterReady, listVars
<1> QED BY <1>5, <1>6, <1>7 DEF TicketPoolInv

\* One iteration of advance.
LEMMA AdvanceInv ==
    ASSUME TicketPoolInv, advance
    PROVE  TicketPoolInv'
<1>1. /\ op.kind # "trim" /\ cursor < tip /\ Len(diffs) = tip /\ Len(live) = tip + 1
      /\ cursor \in Nat /\ tip \in Nat
  BY DEF TicketPoolInv, TypeOK, Linked, TipMatches, HolderInRange, advance
<1>2. cursor <= maxCursor(tip)
  BY <1>1 DEF maxCursor
<1>3. MovePool(diffs[cursor + 1].In, diffs[cursor + 1].Out, cursor + 1)
  BY <1>1, <1>2 DEF advance, maxCursor
<1>4. applyDiff(pool, diffs[cursor + 1].In, diffs[cursor + 1].Out) = live[(cursor + 1) + 1]
  BY <1>1, CursorDiff
<1> QED BY <1>1, <1>3, <1>4, MovePoolInv DEF advance

\* One iteration of retreat.
LEMMA RetreatInv ==
    ASSUME TicketPoolInv, retreat
    PROVE  TicketPoolInv'
<1>1. /\ cursor \in Nat /\ tip \in Nat /\ cursor <= Len(diffs) /\ Len(live) = Len(diffs) + 1
      /\ op.kind = "trim" => Len(diffs) = tip + 1
  BY DEF TicketPoolInv, TypeOK, Linked, TipMatches, HolderInRange
<1>2. CASE cursor = 0
  <2>1. LoopFails(cursor) /\ UNCHANGED poolVars /\ UNCHANGED <<listVars, writer, pending>>
    BY <1>2 DEF retreat
  <2>2. /\ op' \in [kind : {"free", "pool", "tip", "trim"}, height : Int]
        /\ answer' \in [height : Int, ok : BOOLEAN, tickets : SUBSET Tickets] \cup {NoAnswer}
        /\ op.kind = "trim" <=> op'.kind = "trim"
        /\ op'.kind = "free" => op' = Unlocked
        /\ op'.kind # "free" => op'.kind = "trim" /\ op'.height <= tip
    BY <2>1, <1>1, <1>2, LoopFailsInv
  <2>3. TypeOK'
    BY <2>1, <2>2 DEF TicketPoolInv, TypeOK, listVars, poolVars
  <2>4. Linked' /\ StoredDiffsAreCurrent' /\ PoolAtCursor'
    BY <2>1 DEF TicketPoolInv, Linked, StoredDiffsAreCurrent, PoolAtCursor, listVars, poolVars
  <2>5. TipMatches' /\ HolderInRange' /\ WriterReady'
    BY <2>1, <2>2 DEF TicketPoolInv, TipMatches, HolderInRange, WriterReady, listVars, poolVars
  <2> QED BY <2>3, <2>4, <2>5 DEF TicketPoolInv
<1>3. CASE cursor > 0
  <2>1. MovePool(diffs[cursor].Out, diffs[cursor].In, cursor - 1)
    BY <1>1, <1>3 DEF retreat
  <2>2. applyDiff(pool, diffs[cursor].Out, diffs[cursor].In) = live[(cursor - 1) + 1]
    BY <1>1, <1>3, CursorDiff
  <2>3. cursor - 1 \in Nat /\ (cursor - 1) + 1 <= Len(live)
        /\ (cursor - 1 <= tip \/ op.kind # "trim")
    BY <1>1, <1>3
  <2> QED BY <2>1, <2>2, <2>3, MovePoolInv DEF retreat
<1> QED BY <1>1, <1>2, <1>3

\* Every step preserves the invariant.
LEMMA NextInv == TicketPoolInv /\ [Next]_vars => TicketPoolInv'
<1> SUFFICES ASSUME TicketPoolInv, [Next]_vars PROVE TicketPoolInv'
  OBVIOUS
<1>1. CASE \E d \in PoolDiff : AppendCheck(d)
  BY <1>1, AppendCheckInv
<1>2. CASE \E stored \in StoreOK : AppendCommit(stored)
  BY <1>2, AppendCommitInv
<1>3. CASE TrimBegin
  BY <1>3, TrimBeginInv
<1>4. CASE TrimEnd
  BY <1>4, TrimEndInv
<1>5. CASE \/ AdvanceToTipBegin \/ AdvanceToTipEnd \/ PoolEnd
           \/ \E h \in Requests : PoolReject(h) \/ PoolBegin(h)
  BY <1>5, LockInv
<1>6. CASE advance
  BY <1>6, AdvanceInv
<1>7. CASE retreat
  BY <1>7, RetreatInv
<1>8. CASE UNCHANGED vars
  BY <1>8 DEF vars, TicketPoolInv, TypeOK, Linked, TipMatches, HolderInRange, WriterReady,
              PoolAtCursor, StoredDiffsAreCurrent
<1> QED BY <1>1, <1>2, <1>3, <1>4, <1>5, <1>6, <1>7, <1>8 DEF Next, Holder

-----------------------------------------------------------------------------
(***************************************************************************)
(* The invariant holds of every reachable state.                           *)
(***************************************************************************)
THEOREM TicketPoolInvariant == Spec => []TicketPoolInv
BY InitInv, NextInv, PTL DEF Spec

(***************************************************************************)
(* The variables of TicketPool always have their types.                    *)
(***************************************************************************)
THEOREM TypeCorrect == Spec => []TypeOK
<1>1. TicketPoolInv => TypeOK
  BY DEF TicketPoolInv
<1> QED BY <1>1, TicketPoolInvariant, PTL

(***************************************************************************)
(* The slice accesses of advance and retreat never panic: the cursor stays *)
(* within the diffs, also while trim has lowered tip but not the slice.    *)
(***************************************************************************)
THEOREM CursorSafe == Spec => []CursorInBounds
<1>1. TicketPoolInv => CursorInBounds
  BY DEF TicketPoolInv, TypeOK, TipMatches, HolderInRange, CursorInBounds
<1> QED BY <1>1, TicketPoolInvariant, PTL

(***************************************************************************)
(* The materialised pool is the live set at the cursor, whatever appends,  *)
(* trims and lookups moved it there.                                       *)
(***************************************************************************)
THEOREM PoolCorrect == Spec => []PoolIsLiveAtCursor
<1>1. TicketPoolInv => PoolIsLiveAtCursor
  BY DEF TicketPoolInv, TypeOK, Linked, HolderInRange, PoolAtCursor, PoolIsLiveAtCursor
<1> QED BY <1>1, TicketPoolInvariant, PTL

(***************************************************************************)
(* The records of successful appends are the current ones on disk.         *)
(***************************************************************************)
THEOREM AppendDurable == Spec => []StoredDiffsAreCurrent
<1>1. TicketPoolInv => StoredDiffsAreCurrent
  BY DEF TicketPoolInv
<1> QED BY <1>1, TicketPoolInvariant, PTL

-----------------------------------------------------------------------------
(* What Pool answers.                                                      *)

\* The size check of advance and retreat succeeds on a diff that fits.
LEMMA SizeAsExpected ==
    ASSUME NEW p \in SUBSET Tickets, NEW in \in SUBSET Tickets, NEW out \in SUBSET Tickets,
           in \cap p = {}, out \subseteq p
    PROVE  Cardinality(applyDiff(p, in, out))
             = Cardinality(p) + Cardinality(in) - Cardinality(out)
<1>1. IsFiniteSet(p) /\ IsFiniteSet(in) /\ IsFiniteSet(out)
  BY TicketsAssumption, FS_Subset
<1>2. /\ Cardinality(p) \in Nat /\ Cardinality(in) \in Nat /\ Cardinality(out) \in Nat
      /\ Cardinality({}) = 0
  BY <1>1, FS_CardinalityType, FS_EmptySet
<1>3. /\ IsFiniteSet(p \cup in)
      /\ Cardinality(p \cup in) = Cardinality(p) + Cardinality(in) - Cardinality(p \cap in)
  BY <1>1, FS_Union
<1>4. Cardinality((p \cup in) \ out) = Cardinality(p \cup in) - Cardinality((p \cup in) \cap out)
  BY <1>1, <1>3, FS_Difference
<1>5. p \cap in = {} /\ (p \cup in) \cap out = out
  OBVIOUS
<1>6. Cardinality(p \cap in) = 0 /\ Cardinality((p \cup in) \cap out) = Cardinality(out)
  BY <1>2, <1>5, Zenon
<1>7. Cardinality((p \cup in) \ out) = Cardinality(p) + Cardinality(in) - Cardinality(out)
  BY <1>2, <1>3, <1>4, <1>6
<1> QED BY <1>7, Zenon DEF applyDiff

\* advance never fails: the diff at the cursor fits the pool.
LEMMA AdvanceSilent ==
    ASSUME TicketPoolInv, advance
    PROVE  answer' = NoAnswer
<1>1. /\ cursor < tip /\ cursor < Len(diffs) /\ cursor \in Nat /\ tip \in Nat
  BY DEF TicketPoolInv, TypeOK, TipMatches, HolderInRange, advance
<1>2. MovePool(diffs[cursor + 1].In, diffs[cursor + 1].Out, cursor + 1)
  BY <1>1 DEF advance, maxCursor
<1>3. /\ pool \in SUBSET Tickets
      /\ diffs[cursor + 1].In \in SUBSET Tickets /\ diffs[cursor + 1].Out \in SUBSET Tickets
      /\ diffs[cursor + 1].In \cap pool = {} /\ diffs[cursor + 1].Out \subseteq pool
  BY <1>1, CursorDiff DEF TicketPoolInv, TypeOK, PoolDiff, BuildsOn
<1> QED BY <1>2, <1>3, SizeAsExpected DEF MovePool

\* retreat fails only when it is asked to go below genesis.
LEMMA RetreatAnswers ==
    ASSUME TicketPoolInv, retreat, answer' # NoAnswer
    PROVE  answer' = [height |-> op.height, ok |-> FALSE, tickets |-> {}] /\ op.height < 0
<1>1. cursor \in Nat /\ op.height \in Int /\ cursor > op.height
  BY DEF TicketPoolInv, TypeOK, retreat
<1>2. CASE cursor = 0
  BY <1>1, <1>2 DEF retreat, LoopFails, PoolFails
<1>3. CASE cursor > 0
  <2>1. MovePool(diffs[cursor].Out, diffs[cursor].In, cursor - 1)
    BY <1>1, <1>3 DEF retreat
  <2>2. /\ pool \in SUBSET Tickets
        /\ diffs[cursor].In \in SUBSET Tickets /\ diffs[cursor].Out \in SUBSET Tickets
        /\ diffs[cursor].Out \cap pool = {} /\ diffs[cursor].In \subseteq pool
    BY <1>3, CursorDiff DEF TicketPoolInv, TypeOK, PoolDiff, BuildsOn, applyDiff
  <2>3. answer' = NoAnswer
    BY <2>1, <2>2, SizeAsExpected DEF MovePool
  <2> QED BY <2>3
<1> QED BY <1>1, <1>2, <1>3

(***************************************************************************)
(* Pool(height) answers with the live set of the chain at that height, and *)
(* with an error only for heights below genesis or above the tip.          *)
(***************************************************************************)
THEOREM PoolAnswersCorrect == Spec => PoolAnswersLiveSet
<1> DEFINE Step == answer' # NoAnswer =>
                       IF answer'.ok
                       THEN answer'.height \in 0 .. tip
                            /\ answer'.tickets = live[answer'.height + 1]
                       ELSE answer'.height \notin 0 .. tip
<1>1. TicketPoolInv /\ [Next]_vars => [Step]_vars
  <2> SUFFICES ASSUME TicketPoolInv, Next, answer' # NoAnswer PROVE Step
    OBVIOUS
  <2>1. CASE PoolEnd
    <3>1. op.height = cursor /\ cursor \in 0 .. tip
      BY <2>1, MaxHeightAssumption DEF PoolEnd, TicketPoolInv, TypeOK, HolderInRange
    <3> QED BY <2>1, <3>1 DEF PoolEnd, TicketPoolInv, PoolAtCursor
  <2>2. CASE \E h \in Requests : PoolReject(h)
    <3>1. PICK h \in Requests : PoolReject(h)
      BY <2>2
    <3>2. h \in Int /\ tip \in Int /\ h > tip
      BY <3>1, MaxHeightAssumption DEF Requests, PoolReject, TicketPoolInv, TypeOK
    <3> QED BY <3>1, <3>2 DEF PoolReject, PoolFails
  <2>3. CASE retreat
    BY <2>3, RetreatAnswers DEF TicketPoolInv, TypeOK
  <2>4. CASE advance
    BY <2>4, AdvanceSilent
  <2>5. CASE \/ \E d \in PoolDiff : AppendCheck(d)
             \/ \E stored \in StoreOK : AppendCommit(stored)
             \/ TrimBegin \/ TrimEnd \/ AdvanceToTipBegin \/ AdvanceToTipEnd
             \/ \E h \in Requests : PoolBegin(h)
    BY <2>5 DEF AppendCheck, AppendCommit, TrimBegin, TrimEnd, AdvanceToTipBegin,
                AdvanceToTipEnd, PoolBegin
  <2> QED BY <2>1, <2>2, <2>3, <2>4, <2>5 DEF Next, Holder
<1> QED BY <1>1, TicketPoolInvariant, PTL DEF Spec, PoolAnswersLiveSet
=============================================================================
