--------------------------- MODULE NotifierProofs ---------------------------
(***************************************************************************)
(* Proofs about Notifier, for any tree of blocks, any set of scenarios and *)
(* any bounds: every look-up by height is at a height that exists, the     *)
(* ancestor of every reorganisation is the last shared block, and, with    *)
(* the faults the replay makes good, the main chain rows are one chain     *)
(* that catches up with dcrd's and that FollowedChain describes.  Also     *)
(* when reorganisations fail, no height has two main chain rows.           *)
(***************************************************************************)
EXTENDS Notifier, BlockTreeProofs

Message == BlockMessages \cup ReorgMessages
Task    == {Idle} \cup CatchUpTasks \cup RunTasks \cup ReorgTasks

(***************************************************************************)
(* dcrd was once at the blocks of a notification: it is not below them     *)
(* now, and a reorganisation leads to a higher block of another branch.    *)
(***************************************************************************)
Known(m, top) ==
    /\ m.type = "block" => Height(m.block) <= Height(top)
    /\ m.type = "reorg" =>
          Height(m.old) < Height(m.new) /\ Height(m.new) <= Height(top) /\ ~OnChain(m.old, m.new)

KnownTask(t, top) ==
    /\ t.kind \in {"catchup", "run"} => Height(t.bh) <= Height(top)
    /\ t.kind = "reorg" => Known(t.tips, top)
    /\ t.kind = "reorg" /\ t.step \in {"toSideChain", "chainStored"} => t.todo # <<>>

QueueInv ==
    best \in Block /\ anyQ \in Seq(Message) /\ \A i \in 1 .. Len(anyQ) : Known(anyQ[i], best)

TasksInv ==
    /\ task \in Task /\ KnownTask(task, best)
    /\ late \in {Idle} \cup ReorgTasks /\ KnownTask(late, best)

TipsInv ==
    previous \in Block /\ stakeTip \in Block /\ stakeSaved \in BOOLEAN /\ poolInfo \subseteq Block

RowsInv == rows \in [Block -> {"absent", "main", "side"}] /\ misdated \subseteq Block

\* bestBlock is lost only where TipToSideChain is in its loop.
BestBlockInv == bestBlock \in Block \/ (bestBlock = NoBlock /\ Hung)

OverdueInv == overdue \subseteq [blk : Block, group : Holding \cup {"stake", "collect"}]

FlagsInv == clean \in BOOLEAN /\ told \in BOOLEAN /\ panicked \in BOOLEAN /\ scenario \in Scenarios

\* The inductive invariant.
NotifierInv ==
    /\ QueueInv /\ TasksInv /\ TipsInv /\ RowsInv /\ BestBlockInv /\ OverdueInv /\ FlagsInv

\* The pipeline at the start.
LEMMA InitInv == Init => NotifierInv
<1> SUFFICES ASSUME Init
             PROVE  NotifierInv
  OBVIOUS
<1> USE DEF Init
<1>1. QueueInv
  BY GenesisAssumption DEF QueueInv
<1>2. TasksInv
  BY DEF TasksInv, Task, KnownTask, Idle
<1>3. TipsInv /\ RowsInv /\ BestBlockInv
  BY GenesisAssumption DEF TipsInv, RowsInv, BestBlockInv
<1>4. OverdueInv /\ FlagsInv
  BY DEF OverdueInv, FlagsInv
<1> QED BY <1>1, <1>2, <1>3, <1>4 DEF NotifierInv

-----------------------------------------------------------------------------
(* dcrd.                                                                   *)

\* What was known stays known while dcrd's chain gets higher.
LEMMA HigherBest ==
    ASSUME NEW a \in Block, NEW b \in Block, Height(a) <= Height(b)
    PROVE  /\ \A m \in Message : Known(m, a) => Known(m, b)
           /\ \A t \in Task : KnownTask(t, a) => KnownTask(t, b)
<1>1. Height(a) \in Nat /\ Height(b) \in Nat
  BY HeightFacts
<1>2. ASSUME NEW m \in Message, Known(m, a)
      PROVE  Known(m, b)
  <2>1. CASE m \in BlockMessages
    <3>1. Height(m.block) \in Nat /\ m.type = "block"
      BY <2>1, HeightFacts DEF BlockMessages
    <3> QED BY <1>1, <1>2, <3>1 DEF Known
  <2>2. CASE m \in ReorgMessages
    <3>1. Height(m.new) \in Nat /\ m.type = "reorg"
      BY <2>2, HeightFacts DEF ReorgMessages
    <3> QED BY <1>1, <1>2, <3>1 DEF Known
  <2> QED BY <2>1, <2>2 DEF Message
<1>3. ASSUME NEW t \in Task, KnownTask(t, a)
      PROVE  KnownTask(t, b)
  <2>1. CASE t.kind \in {"catchup", "run"}
    <3>1. t.bh \in Block
      BY <2>1 DEF Task, Idle, CatchUpTasks, RunTasks, ReorgTasks
    <3>2. Height(t.bh) \in Nat
      BY <3>1, HeightFacts
    <3> QED BY <1>1, <1>3, <2>1, <3>2 DEF KnownTask
  <2>2. CASE t.kind = "reorg"
    <3>1. t.tips \in Message
      BY <2>2 DEF Task, Idle, CatchUpTasks, RunTasks, ReorgTasks, Message
    <3>2. Known(t.tips, b)
      BY <1>2, <1>3, <2>2, <3>1 DEF KnownTask
    <3> QED BY <1>3, <2>2, <3>2 DEF KnownTask
  <2> QED BY <2>1, <2>2 DEF KnownTask
<1> QED BY <1>2, <1>3

\* What is being handled stays known, too.
LEMMA HigherBestTasks ==
    ASSUME TasksInv, best \in Block, best' \in Block, Height(best) <= Height(best'),
           UNCHANGED <<task, late>>
    PROVE  TasksInv'
<1>1. task \in Task /\ late \in Task
  BY DEF TasksInv, Task
<1>2. KnownTask(task, best') /\ KnownTask(late, best')
  BY <1>1, HigherBest DEF TasksInv
<1> QED BY <1>2 DEF TasksInv

\* The parts of a concatenation.
LEMMA ConcatParts ==
    ASSUME NEW S, NEW s \in Seq(S), NEW t \in Seq(S)
    PROVE  /\ s \o t \in Seq(S) /\ Len(s \o t) = Len(s) + Len(t)
           /\ Len(s) \in Nat /\ Len(t) \in Nat
           /\ \A i \in 1 .. Len(s) : (s \o t)[i] = s[i]
           /\ \A i \in 1 .. Len(t) : (s \o t)[Len(s) + i] = t[i]
           /\ \A i \in 1 .. Len(s \o t) :
                 i \in 1 .. Len(s) \/ \E j \in 1 .. Len(t) : i = Len(s) + j
<1>1. /\ s \o t \in Seq(S) /\ Len(s \o t) = Len(s) + Len(t)
      /\ Len(s) \in Nat /\ Len(t) \in Nat
      /\ \A i \in 1 .. Len(s) : (s \o t)[i] = s[i]
      /\ \A i \in 1 .. Len(t) : (s \o t)[Len(s) + i] = t[i]
  OBVIOUS
<1>2. ASSUME NEW i \in 1 .. Len(s \o t), i > Len(s)
      PROVE  \E j \in 1 .. Len(t) : i = Len(s) + j
  <2>1. i - Len(s) \in 1 .. Len(t) /\ i = Len(s) + (i - Len(s))
    BY <1>1, <1>2
  <2> QED BY <2>1
<1>3. \A i \in 1 .. Len(s \o t) : i \in 1 .. Len(s) \/ i > Len(s)
  BY <1>1
<1> QED BY <1>1, <1>2, <1>3

\* Notifications of blocks that dcrd has been at are added to the queue, or lost.
LEMMA NotifyInv ==
    ASSUME QueueInv, best' \in Block, Height(best) <= Height(best'),
           NEW msgs \in Seq(Message), \A i \in 1 .. Len(msgs) : Known(msgs[i], best'),
           NEW loss, Notify(msgs, loss)
    PROVE  QueueInv' /\ told' \in BOOLEAN
<1>1. \A i \in 1 .. Len(anyQ) : Known(anyQ[i], best')
  BY HigherBest DEF QueueInv
<1>2. CASE anyQ' = anyQ \o msgs /\ told' = TRUE
  <2>1. anyQ' \in Seq(Message) /\ \A i \in 1 .. Len(anyQ') : Known(anyQ'[i], best')
    BY <1>1, <1>2, ConcatParts DEF QueueInv
  <2> QED BY <1>2, <2>1 DEF QueueInv
<1>3. CASE UNCHANGED anyQ /\ told' = FALSE
  BY <1>1, <1>3 DEF QueueInv
<1> QED BY <1>2, <1>3 DEF Notify
\* dcrd's own steps.
LEMMA NodeInv ==
    ASSUME NotifierInv, NEW b \in Block, NodeExtends(b) \/ NodeReorganizes(b)
    PROVE  NotifierInv'
<1>1. QueueInv' /\ told' \in BOOLEAN /\ best' \in Block /\ Height(best) <= Height(best')
  <2>0. QueueInv /\ best \in Block /\ Height(best) \in Nat /\ Height(b) \in Nat
    BY HeightFacts DEF NotifierInv, QueueInv
  <2>1. CASE NodeExtends(b)
    <3>1. best' = b /\ Height(best) <= Height(best')
      BY <2>0, <2>1, HeightFacts DEF NodeExtends
    <3> DEFINE msgs == <<NewBlock(b)>>
    <3>2. msgs \in Seq(Message) /\ Len(msgs) = 1
      BY DEF NewBlock, Message, BlockMessages
    <3>3. \A i \in 1 .. Len(msgs) : Known(msgs[i], best')
      BY <2>0, <3>1 DEF Known, NewBlock
    <3>4. Notify(msgs, "lost")
      BY <2>1 DEF NodeExtends
    <3> HIDE DEF msgs
    <3> QED BY <2>0, <3>1, <3>2, <3>3, <3>4, NotifyInv
  <2>2. CASE NodeReorganizes(b)
    <3> DEFINE h == CommonHeight(b, best)
               c == BlocksAbove(b, h)
               news == [i \in DOMAIN c |-> NewBlock(c[i])]
               last == <<BranchTips(best, b)>>
               msgs == news \o last
    <3>1. best' = b /\ Height(best) < Height(b) /\ ~OnChain(best, b) /\ Height(best) <= Height(best')
      BY <2>0, <2>2 DEF NodeReorganizes
    <3>2. h \in 0 .. Height(best) - 1
      BY <2>0, <3>1, ForkAncestor
    <3>3. h \in 0 .. Height(b) /\ h \in Nat
      BY <2>0, <3>1, <3>2
    <3>4. Notify(msgs, "lostReorg")
      BY <2>2 DEF NodeReorganizes
    <3> HIDE DEF h
    <3>5. /\ c \in Seq(Block) /\ Len(c) \in Nat /\ Len(c) = Height(b) - h
          /\ \A i \in 1 .. Len(c) : c[i] \in Block /\ Height(c[i]) <= Height(b)
      <4>1. /\ c \in Seq(Block) /\ Len(c) \in Nat /\ Len(c) = Height(b) - h
            /\ \A i \in 1 .. Height(b) - h : c[i] = BlockAt(b, h + i)
        BY <3>3, BlocksAboveFacts
      <4>2. ASSUME NEW i \in 1 .. Len(c)
            PROVE  c[i] \in Block /\ Height(c[i]) <= Height(b)
        <5>1. h + i \in 0 .. Height(b) /\ c[i] = BlockAt(b, h + i)
          BY <2>0, <3>3, <4>1
        <5> QED BY <2>0, <5>1, BlockAtFacts
      <4> QED BY <4>1, <4>2
    <3> HIDE DEF c
    <3>6. news \in Seq(Message) /\ Len(news) = Len(c) /\ \A i \in 1 .. Len(c) : news[i] = NewBlock(c[i])
      <4>1. DOMAIN c = 1 .. Len(c)
        BY <3>5
      <4>2. \A i \in 1 .. Len(c) : NewBlock(c[i]) \in Message
        BY <3>5 DEF NewBlock, Message, BlockMessages
      <4>3. news \in [1 .. Len(c) -> Message]
        BY <4>1, <4>2
      <4>4. news \in Seq(Message) /\ Len(news) = Len(c)
        BY <3>5, <4>3
      <4> QED BY <4>1, <4>4
    <3>7. last \in Seq(Message) /\ Len(last) = 1 /\ last[1] = BranchTips(best, b)
      BY <2>0 DEF BranchTips, Message, ReorgMessages
    <3>8. \A i \in 1 .. Len(news) : Known(news[i], best')
      BY <3>1, <3>5, <3>6 DEF Known, NewBlock
    <3>9. Known(last[1], best')
      BY <2>0, <3>1, <3>7 DEF Known, BranchTips
    <3> HIDE DEF news, last
    <3>10. msgs \in Seq(Message)
      BY <3>6, <3>7, ConcatParts
    <3>11. \A j \in 1 .. Len(last) : j = 1
      BY <3>7
    <3>12. ASSUME NEW i \in 1 .. Len(msgs)
           PROVE  Known(msgs[i], best')
      <4>1. /\ \A k \in 1 .. Len(news) : msgs[k] = news[k]
            /\ \A k \in 1 .. Len(last) : msgs[Len(news) + k] = last[k]
            /\ i \in 1 .. Len(news) \/ \E k \in 1 .. Len(last) : i = Len(news) + k
        <5>1. ASSUME NEW s \in Seq(Message), NEW t \in Seq(Message), NEW k \in 1 .. Len(s \o t)
              PROVE  /\ \A j \in 1 .. Len(s) : (s \o t)[j] = s[j]
                     /\ \A j \in 1 .. Len(t) : (s \o t)[Len(s) + j] = t[j]
                     /\ k \in 1 .. Len(s) \/ \E j \in 1 .. Len(t) : k = Len(s) + j
          BY ConcatParts
        <5> QED BY <3>6, <3>7, <5>1
      <4> HIDE DEF msgs
      <4>2. CASE i \in 1 .. Len(news)
        BY <3>8, <4>1, <4>2
      <4>3. CASE \E k \in 1 .. Len(last) : i = Len(news) + k
        BY <3>9, <3>11, <4>1, <4>3
      <4> QED BY <4>1, <4>2, <4>3
    <3> HIDE DEF msgs
    <3> QED BY <2>0, <3>1, <3>4, <3>10, <3>12, NotifyInv
  <2> QED BY <2>1, <2>2
<1>2. UNCHANGED <<previous, task, stakeDB, chainDB, overdue, clean, panicked, late, scenario>>
  BY DEF NodeExtends, NodeReorganizes
<1>3. TasksInv'
  BY <1>1, <1>2, HigherBestTasks DEF NotifierInv, QueueInv
<1>4. TipsInv' /\ RowsInv' /\ OverdueInv'
  BY <1>2 DEF NotifierInv, TipsInv, RowsInv, OverdueInv, stakeDB, chainDB
<1>5. BestBlockInv'
  BY <1>2 DEF NotifierInv, BestBlockInv, Hung, chainDB
<1>6. FlagsInv'
  BY <1>1, <1>2 DEF NotifierInv, FlagsInv
<1> QED BY <1>1, <1>3, <1>4, <1>5, <1>6 DEF NotifierInv

-----------------------------------------------------------------------------
(* Blocks.                                                                 *)

\* What is known of dcrd and of the handler past its deadline where they do not move.
LEMMA AliveFacts ==
    ASSUME NotifierInv, Alive
    PROVE  bestBlock \in Block
  BY DEF NotifierInv, BestBlockInv, Alive

\* Taking a message from the queue.
LEMMA ReceiveInv ==
    ASSUME NotifierInv, NEW type, Receive(type), UNCHANGED best
    PROVE  /\ QueueInv' /\ bestBlock \in Block
           /\ Head(anyQ) \in Message /\ Head(anyQ).type = type /\ Known(Head(anyQ), best)
<1>1. QueueInv /\ anyQ # <<>> /\ anyQ' = Tail(anyQ) /\ Head(anyQ).type = type /\ Alive
  BY DEF NotifierInv, Receive
<1>2. /\ Head(anyQ) \in Message /\ Head(anyQ) = anyQ[1] /\ Len(anyQ) \in Nat \ {0}
      /\ Tail(anyQ) \in Seq(Message) /\ Len(Tail(anyQ)) = Len(anyQ) - 1
      /\ \A i \in 1 .. Len(Tail(anyQ)) : Tail(anyQ)[i] = anyQ[i + 1]
  BY <1>1, HeadTailProperties, EmptySeq DEF QueueInv
<1>3. \A i \in 1 .. Len(Tail(anyQ)) : Known(Tail(anyQ)[i], best)
  BY <1>1, <1>2 DEF QueueInv
<1>4. Known(Head(anyQ), best)
  BY <1>1, <1>2 DEF QueueInv
<1>5. QueueInv'
  BY <1>1, <1>2, <1>3 DEF QueueInv
<1> QED BY <1>1, <1>2, <1>4, <1>5, AliveFacts

\* A block is run, replayed to, or discarded.
LEMMA ProcessBlockInv == NotifierInv /\ processBlock => NotifierInv'
<1> SUFFICES ASSUME NotifierInv, processBlock
             PROVE  NotifierInv'
  OBVIOUS
<1>1. Receive("block") /\ UNCHANGED <<best, previous, stakeDB, chainDB, overdue, told, panicked, late, scenario>>
  BY DEF processBlock
<1> DEFINE bh == Head(anyQ).block
<1>2. QueueInv' /\ bestBlock \in Block /\ bh \in Block /\ Height(bh) <= Height(best)
  <2>1. /\ QueueInv' /\ bestBlock \in Block
        /\ Head(anyQ) \in Message /\ Head(anyQ).type = "block" /\ Known(Head(anyQ), best)
    BY <1>1, ReceiveInv
  <2> QED BY <2>1 DEF Message, BlockMessages, ReorgMessages, Known
<1>3. task' \in {task, Idle, CatchUp(bh), Run(bh, bh, "stake")} /\ clean' \in BOOLEAN
  BY DEF processBlock, TooManyMissed
<1>4. TasksInv'
  <2>1. task' \in Task
    BY <1>2, <1>3 DEF Task, CatchUp, Run, CatchUpTasks, RunTasks, NotifierInv, TasksInv
  <2>2. KnownTask(task', best)
    <3>1. \A t \in {Idle, CatchUp(bh), Run(bh, bh, "stake")} : KnownTask(t, best)
      BY <1>2 DEF KnownTask, Idle, CatchUp, Run
    <3> QED BY <1>3, <3>1 DEF NotifierInv, TasksInv
  <2> QED BY <1>1, <2>1, <2>2 DEF NotifierInv, TasksInv
<1>5. TipsInv' /\ RowsInv' /\ OverdueInv' /\ BestBlockInv'
  BY <1>1, <1>2 DEF NotifierInv, TipsInv, RowsInv, OverdueInv, BestBlockInv, stakeDB, chainDB
<1>6. FlagsInv'
  BY <1>1, <1>3 DEF NotifierInv, FlagsInv
<1> QED BY <1>2, <1>4, <1>5, <1>6 DEF NotifierInv
\* The fields of a task that runs handlers.
LEMMA TaskFacts ==
    ASSUME NEW t \in Task
    PROVE  /\ t.kind = "catchup" => t.bh \in Block
           /\ t.kind = "run" => t \in RunTasks
           /\ t.kind = "reorg" => t \in ReorgTasks
  BY DEF Task, Idle, CatchUpTasks, RunTasks, ReorgTasks

\* Steps that only concern what superQueue is doing.
LEMMA TaskStepInv ==
    ASSUME NotifierInv, task' \in Task, KnownTask(task', best), late' = late,
           UNCHANGED <<node, told, panicked, scenario>>, clean' \in BOOLEAN,
           TipsInv', RowsInv', OverdueInv', bestBlock' \in Block
    PROVE  NotifierInv'
<1>1. QueueInv'
  BY DEF NotifierInv, QueueInv, node
<1>2. TasksInv'
  BY DEF NotifierInv, TasksInv, node
<1>3. FlagsInv' /\ BestBlockInv'
  BY DEF NotifierInv, FlagsInv, BestBlockInv
<1> QED BY <1>1, <1>2, <1>3 DEF NotifierInv

\* The next block of a replay is at a height that dcrd has.
LEMMA CatchUpInv == NotifierInv /\ catchUpMissedBlocks => NotifierInv'
<1> SUFFICES ASSUME NotifierInv, catchUpMissedBlocks
             PROVE  NotifierInv'
  OBVIOUS
<1> DEFINE h == Height(previous) + 1
           b == BlockAt(best, h)
<1>1. /\ UNCHANGED <<node, previous, stakeDB, chainDB, overdue, told, panicked, late, scenario>>
      /\ Alive /\ task.kind = "catchup"
  BY DEF catchUpMissedBlocks
<1>2. /\ bestBlock \in Block /\ task.bh \in Block /\ Height(task.bh) <= Height(best)
      /\ best \in Block /\ previous \in Block
  BY <1>1, AliveFacts, TaskFacts DEF NotifierInv, TasksInv, KnownTask, QueueInv, TipsInv
<1>3. /\ Height(best) \in Nat /\ Height(task.bh) \in Nat /\ h \in Nat
      /\ h < Height(task.bh) => b \in Block
  BY <1>2, HeightFacts, BlockAtFacts
<1>4. /\ \/ task' = Idle
         \/ task' = Run(task.bh, task.bh, "stake")
         \/ h < Height(task.bh) /\ task' = Run(task.bh, b, "stake")
      /\ clean' \in BOOLEAN
  BY DEF catchUpMissedBlocks, NotifierInv, FlagsInv
<1> HIDE DEF b, h
<1>5. task' \in Task /\ KnownTask(task', best)
  BY <1>2, <1>3, <1>4 DEF Task, Run, RunTasks, KnownTask, Idle
<1>6. TipsInv' /\ RowsInv' /\ OverdueInv' /\ bestBlock' \in Block
  BY <1>1, <1>2 DEF NotifierInv, TipsInv, RowsInv, OverdueInv, stakeDB, chainDB
<1> QED BY <1>1, <1>4, <1>5, <1>6, TaskStepInv

\* The handlers of a block: it is a block, and so is the one that made it be run.
LEMMA RunFacts ==
    ASSUME NotifierInv, task.kind = "run"
    PROVE  /\ task \in RunTasks /\ task.blk \in Block /\ task.bh \in Block
           /\ Height(task.bh) <= Height(best) /\ best \in Block
  BY TaskFacts DEF NotifierInv, TasksInv, KnownTask, QueueInv, RunTasks

\* The first group of handlers.
LEMMA StakeConnectBlockInv == NotifierInv /\ stakeConnectBlock => NotifierInv'
<1> SUFFICES ASSUME NotifierInv, stakeConnectBlock
             PROVE  NotifierInv'
  OBVIOUS
<1>1. /\ UNCHANGED <<node, chainDB, overdue, told, panicked, late, scenario>>
      /\ Alive /\ task.kind = "run"
  BY DEF stakeConnectBlock, Running
<1>2. /\ bestBlock \in Block /\ task \in RunTasks /\ task.blk \in Block
      /\ Height(task.bh) <= Height(best) /\ best \in Block
  BY <1>1, AliveFacts, RunFacts
<1>3. task' \in {Idle, [task EXCEPT !.group = "collect"]} /\ clean' \in BOOLEAN /\ previous' = previous
  BY DEF stakeConnectBlock, HandlersFail, NotifierInv, FlagsInv
<1>4. task' \in Task /\ KnownTask(task', best)
  BY <1>2, <1>3 DEF Task, RunTasks, KnownTask, Idle
<1>5. TipsInv'
  BY <1>2, <1>3 DEF stakeConnectBlock, StakeConnect, StakeConnectUnsaved, NotifierInv, TipsInv, stakeDB
<1>6. RowsInv' /\ OverdueInv' /\ bestBlock' \in Block
  BY <1>1, <1>2 DEF NotifierInv, RowsInv, OverdueInv, chainDB
<1> QED BY <1>1, <1>3, <1>4, <1>5, <1>6, TaskStepInv

\* Taking reorgLock.
LEMMA CollectOnceInv == NotifierInv /\ collectOnce => NotifierInv'
<1> SUFFICES ASSUME NotifierInv, collectOnce
             PROVE  NotifierInv'
  OBVIOUS
<1>1. /\ UNCHANGED <<node, previous, stakeDB, chainDB, overdue, clean, told, panicked, late, scenario>>
      /\ Alive /\ task.kind = "run" /\ task' = [task EXCEPT !.group = CollectBy(task.blk)]
  BY DEF collectOnce, Running
<1>2. bestBlock \in Block /\ task \in RunTasks /\ Height(task.bh) <= Height(best)
  BY <1>1, AliveFacts, RunFacts
<1>3. task' \in Task /\ KnownTask(task', best)
  BY <1>1, <1>2 DEF Task, RunTasks, KnownTask, CollectBy, Holding, Collecting
<1>4. TipsInv' /\ RowsInv' /\ OverdueInv' /\ bestBlock' \in Block /\ clean' \in BOOLEAN
  BY <1>1, <1>2 DEF NotifierInv, TipsInv, RowsInv, OverdueInv, FlagsInv, stakeDB, chainDB
<1> QED BY <1>1, <1>3, <1>4, TaskStepInv

\* Writing a row or bestBlock keeps the table well formed.
LEMMA InsertInv ==
    ASSUME RowsInv, NEW b \in Block, NEW d, InsertBlock(b, d) \/ SetBestBlock(b)
    PROVE  RowsInv'
  BY DEF RowsInv, InsertBlock, SetBestBlock

\* The second group of handlers: a row is inserted.
LEMMA BlockdataConnectBlockInv == NotifierInv /\ blockdataConnectBlock => NotifierInv'
<1> SUFFICES ASSUME NotifierInv, blockdataConnectBlock
             PROVE  NotifierInv'
  OBVIOUS
<1>1. /\ UNCHANGED <<node, stakeDB, overdue, told, panicked, late, scenario>>
      /\ Alive /\ task.kind = "run"
  BY DEF blockdataConnectBlock, Running
<1>2. /\ bestBlock \in Block /\ task \in RunTasks /\ task.blk \in Block /\ task.bh \in Block
      /\ Height(task.bh) <= Height(best)
  BY <1>1, AliveFacts, RunFacts
<1>3. /\ task' \in {Idle, [task EXCEPT !.group = "stored"]} /\ clean' \in BOOLEAN
      /\ previous' = previous
  BY DEF blockdataConnectBlock, HandlersFail, NotifierInv, FlagsInv
<1>4. InsertBlock(task.blk, Data(task)) \/ UNCHANGED chainDB
  BY DEF blockdataConnectBlock
<1>5. RowsInv' /\ bestBlock' \in Block
  <2>1. CASE InsertBlock(task.blk, Data(task))
    BY <1>2, <2>1, InsertInv DEF NotifierInv, InsertBlock
  <2>2. CASE UNCHANGED chainDB
    BY <1>2, <2>2 DEF NotifierInv, RowsInv, chainDB
  <2> QED BY <1>4, <2>1, <2>2
<1>6. task' \in Task /\ KnownTask(task', best)
  BY <1>2, <1>3 DEF Task, RunTasks, Holding, KnownTask, Idle
<1>7. TipsInv' /\ OverdueInv'
  BY <1>1, <1>2, <1>3 DEF NotifierInv, TipsInv, OverdueInv, stakeDB
<1> QED BY <1>1, <1>3, <1>5, <1>6, <1>7, TaskStepInv

\* Then bestBlock is set.
LEMMA BlockdataBlockStoredInv == NotifierInv /\ blockdataBlockStored => NotifierInv'
<1> SUFFICES ASSUME NotifierInv, blockdataBlockStored
             PROVE  NotifierInv'
  OBVIOUS
<1>1. /\ UNCHANGED <<node, stakeDB, overdue, told, panicked, late, scenario>>
      /\ Alive /\ task.kind = "run"
  BY DEF blockdataBlockStored, Running
<1>2. /\ bestBlock \in Block /\ task \in RunTasks /\ task.blk \in Block /\ task.bh \in Block
      /\ Height(task.bh) <= Height(best)
  BY <1>1, AliveFacts, RunFacts
<1>3. /\ task' \in {Idle, CatchUp(task.bh)} /\ clean' \in BOOLEAN
      /\ previous' \in {previous, task.blk}
  BY DEF blockdataBlockStored, HandlersFail, HandlersDone, NotifierInv, FlagsInv
<1>4. SetBestBlock(task.blk) \/ UNCHANGED chainDB
  BY DEF blockdataBlockStored
<1>5. RowsInv' /\ bestBlock' \in Block
  <2>1. CASE SetBestBlock(task.blk)
    BY <1>2, <2>1, InsertInv DEF NotifierInv, SetBestBlock
  <2>2. CASE UNCHANGED chainDB
    BY <1>2, <2>2 DEF NotifierInv, RowsInv, chainDB
  <2> QED BY <1>4, <2>1, <2>2
<1>6. task' \in Task /\ KnownTask(task', best)
  BY <1>2, <1>3 DEF Task, CatchUp, CatchUpTasks, KnownTask, Idle
<1>7. TipsInv' /\ OverdueInv'
  BY <1>1, <1>2, <1>3 DEF NotifierInv, TipsInv, OverdueInv, stakeDB
<1> QED BY <1>1, <1>3, <1>5, <1>6, <1>7, TaskStepInv

\* A block handler passes its deadline.
LEMMA HandlerOverdueInv == NotifierInv /\ HandlerOverdue => NotifierInv'
<1> SUFFICES ASSUME NotifierInv, HandlerOverdue
             PROVE  NotifierInv'
  OBVIOUS
<1>1. /\ UNCHANGED <<node, previous, stakeDB, chainDB, told, panicked, late, scenario>>
      /\ Alive /\ task.kind = "run" /\ task.group \in Holding \cup {"stake", "collect"}
      /\ task' = Idle /\ clean' \in BOOLEAN
      /\ overdue' = overdue \cup {[blk |-> task.blk, group |-> task.group]}
  BY DEF HandlerOverdue, Running, HandlersFail
<1>2. bestBlock \in Block /\ task.blk \in Block
  BY <1>1, AliveFacts, RunFacts
<1>3. OverdueInv'
  BY <1>1, <1>2 DEF NotifierInv, OverdueInv
<1>4. task' \in Task /\ KnownTask(task', best)
  BY <1>1 DEF Task, KnownTask, Idle
<1>5. TipsInv' /\ RowsInv' /\ bestBlock' \in Block
  BY <1>1, <1>2 DEF NotifierInv, TipsInv, RowsInv, stakeDB, chainDB
<1> QED BY <1>1, <1>3, <1>4, <1>5, TaskStepInv

\* A block handler past its deadline.
LEMMA OverdueStepInv ==
    ASSUME NotifierInv, NEW o \in overdue,
           OverdueConnects(o) \/ OverdueCollects(o) \/ OverdueInserts(o) \/ OverdueStored(o)
    PROVE  NotifierInv'
<1> DEFINE Late == [blk : Block, group : Holding \cup {"stake", "collect"}]
<1>1. UNCHANGED <<node, previous, task, clean, told, panicked, late, scenario>> /\ Alive
  BY DEF OverdueConnects, OverdueCollects, OverdueInserts, OverdueStored
<1>2. bestBlock \in Block /\ o \in Late /\ o.blk \in Block /\ overdue \subseteq Late
  BY <1>1, AliveFacts DEF NotifierInv, OverdueInv
<1>3. OverdueInv'
  <2>1. \A g \in Holding : [o EXCEPT !.group = g] \in Late
    BY <1>2
  <2>2. CollectBy(o.blk) \in Holding /\ "stored" \in Holding
    BY DEF CollectBy, Holding, Collecting
  <2>3. [o EXCEPT !.group = CollectBy(o.blk)] \in Late /\ [o EXCEPT !.group = "stored"] \in Late
    BY <2>1, <2>2
  <2>4. \/ overdue' = overdue \ {o}
        \/ overdue' = (overdue \ {o}) \cup {[o EXCEPT !.group = CollectBy(o.blk)]}
        \/ overdue' = (overdue \ {o}) \cup {[o EXCEPT !.group = "stored"]}
    BY DEF OverdueConnects, OverdueCollects, OverdueInserts, OverdueStored
  <2> HIDE DEF Late
  <2>5. overdue' \subseteq Late
    BY <1>2, <2>3, <2>4
  <2> QED BY <2>5 DEF Late, OverdueInv
<1>4. RowsInv' /\ bestBlock' \in Block
  <2>1. CASE UNCHANGED chainDB
    BY <1>2, <2>1 DEF NotifierInv, RowsInv, chainDB
  <2>2. CASE InsertBlock(o.blk, Data(o)) \/ SetBestBlock(o.blk)
    BY <1>2, <2>2, InsertInv DEF InsertBlock, SetBestBlock, NotifierInv
  <2> QED BY <2>1, <2>2 DEF OverdueConnects, OverdueCollects, OverdueInserts, OverdueStored
<1>5. TipsInv'
  <2>1. UNCHANGED stakeDB \/ StakeConnect(o.blk)
    BY DEF OverdueConnects, OverdueCollects, OverdueInserts, OverdueStored
  <2> QED BY <1>1, <1>2, <2>1 DEF NotifierInv, TipsInv, StakeConnect, stakeDB
<1>6. task' \in Task /\ KnownTask(task', best) /\ clean' \in BOOLEAN
  BY <1>1 DEF NotifierInv, TasksInv, FlagsInv
<1> QED BY <1>1, <1>3, <1>4, <1>5, <1>6, TaskStepInv
-----------------------------------------------------------------------------
(* Reorganisations.                                                        *)

\* A reorganisation is taken up or dropped.
LEMMA SignalReorgInv == NotifierInv /\ signalReorg => NotifierInv'
<1> SUFFICES ASSUME NotifierInv, signalReorg
             PROVE  NotifierInv'
  OBVIOUS
<1>1. /\ UNCHANGED <<best, previous, stakeDB, chainDB, overdue, told, panicked, late, scenario>>
      /\ Receive("reorg") /\ clean' \in BOOLEAN
      /\ task' \in {task, Reorg(Head(anyQ), "stakeRewind", <<>>)}
  BY DEF signalReorg
<1>2. QueueInv' /\ bestBlock \in Block /\ Head(anyQ) \in ReorgMessages /\ Known(Head(anyQ), best)
  <2>1. /\ QueueInv' /\ bestBlock \in Block
        /\ Head(anyQ) \in Message /\ Head(anyQ).type = "reorg" /\ Known(Head(anyQ), best)
    BY <1>1, ReceiveInv
  <2> QED BY <2>1 DEF Message, BlockMessages, ReorgMessages
<1>3. TasksInv'
  <2> DEFINE t == Reorg(Head(anyQ), "stakeRewind", <<>>)
  <2>1. t \in ReorgTasks
    BY <1>2 DEF Reorg, ReorgTasks, ReorgSteps
  <2>2. KnownTask(t, best)
    BY <1>2 DEF Reorg, KnownTask
  <2> HIDE DEF t
  <2>3. task' \in Task /\ KnownTask(task', best)
    BY <1>1, <2>1, <2>2 DEF t, Task, NotifierInv, TasksInv
  <2> QED BY <1>1, <2>3 DEF NotifierInv, TasksInv
<1>4. TipsInv' /\ RowsInv' /\ OverdueInv' /\ BestBlockInv'
  BY <1>1, <1>2 DEF NotifierInv, TipsInv, RowsInv, OverdueInv, BestBlockInv, stakeDB, chainDB
<1>5. FlagsInv'
  BY <1>1 DEF NotifierInv, FlagsInv
<1> QED BY <1>2, <1>3, <1>4, <1>5 DEF NotifierInv

(***************************************************************************)
(* The two branches of a reorganisation that is under way have a common    *)
(* ancestor, and dcrd has blocks up to its height and beyond.              *)
(***************************************************************************)
LEMMA ReorgFacts ==
    ASSUME NotifierInv, NEW w \in {"main", "late"}, NEW s, At(w, s)
    PROVE  LET r == Doing(w).tips
               h == AncestorHeight(r)
           IN  /\ Doing(w) \in ReorgTasks /\ KnownTask(Doing(w), best)
               /\ r \in ReorgMessages /\ r.new \in Block /\ best \in Block
               /\ CommonAncestor(r.new, r.old) \in Block
               /\ h \in 0 .. Height(r.new) /\ h \in 0 .. Height(best)
               /\ BlocksAbove(r.new, h) \in Seq(Block)
               /\ bestBlock \in Block
<1> DEFINE r == Doing(w).tips
           h == AncestorHeight(r)
<1>1. /\ Doing(w) \in ReorgTasks /\ KnownTask(Doing(w), best)
      /\ bestBlock \in Block /\ best \in Block
  BY AliveFacts, TaskFacts DEF At, Doing, NotifierInv, TasksInv, QueueInv, Task
<1>2. r \in ReorgMessages /\ Known(r, best)
  BY <1>1 DEF ReorgTasks, KnownTask
<1> HIDE DEF r
<1>3. /\ r.new \in Block /\ r.old \in Block
      /\ Height(r.old) < Height(r.new) /\ Height(r.new) <= Height(best) /\ ~OnChain(r.old, r.new)
  BY <1>2 DEF ReorgMessages, Known
<1>4. Height(r.old) \in Nat /\ Height(r.new) \in Nat /\ Height(best) \in Nat
  BY <1>1, <1>3, HeightFacts
<1>5. CommonAncestor(r.new, r.old) \in Block /\ h \in 0 .. Height(r.old) - 1
  BY <1>3, <1>4, ForkAncestor DEF AncestorHeight
<1>6. h \in 0 .. Height(r.new) /\ h \in 0 .. Height(best)
  BY <1>3, <1>4, <1>5
<1>7. BlocksAbove(r.new, h) \in Seq(Block)
  BY <1>3, <1>6, BlocksAboveFacts
<1> QED BY <1>1, <1>2, <1>3, <1>5, <1>6, <1>7 DEF r

\* Steps of a reorg handler, of superQueue's or of the one past its deadline.
LEMMA ReorgStepInv ==
    ASSUME NotifierInv, NEW w, NEW t \in {Idle} \cup ReorgTasks, KnownTask(t, best), Becomes(w, t),
           UNCHANGED <<node, told, panicked, scenario>>, clean' \in BOOLEAN,
           TipsInv', RowsInv', OverdueInv', BestBlockInv'
    PROVE  NotifierInv'
<1>1. QueueInv' /\ FlagsInv'
  BY DEF NotifierInv, QueueInv, FlagsInv, node
<1>2. TasksInv'
  BY DEF NotifierInv, TasksInv, Task, Becomes, node
<1> QED BY <1>1, <1>2 DEF NotifierInv

\* The next step of a reorganisation.
LEMMA GoToFacts ==
    ASSUME NotifierInv, NEW w \in {"main", "late"}, NEW s, At(w, s),
           NEW step \in ReorgSteps, NEW todo \in Seq(Block),
           step \in {"toSideChain", "chainStored"} => todo # <<>>
    PROVE  LET t == [Doing(w) EXCEPT !.step = step, !.todo = todo]
               u == IF w = "main" THEN Reorg(task.tips, step, <<>>) ELSE Idle
           IN  /\ t \in {Idle} \cup ReorgTasks /\ KnownTask(t, best) /\ t.kind = "reorg" /\ t.step = step
               /\ u \in {Idle} \cup ReorgTasks
               /\ step \notin {"toSideChain", "chainStored"} => KnownTask(u, best)
<1>1. Doing(w) \in ReorgTasks /\ KnownTask(Doing(w), best)
  BY ReorgFacts
<1> DEFINE d == Doing(w)
           t == [d EXCEPT !.step = step, !.todo = todo]
           u == IF w = "main" THEN Reorg(task.tips, step, <<>>) ELSE Idle
<1>2. d \in ReorgTasks /\ KnownTask(d, best) /\ (w = "main" => d = task)
  BY <1>1 DEF Doing
<1> HIDE DEF d
<1>3. t \in ReorgTasks /\ t.tips = d.tips /\ t.kind = "reorg" /\ t.step = step /\ t.todo = todo
  BY <1>2 DEF ReorgTasks
<1>4. KnownTask(t, best)
  BY <1>2, <1>3 DEF KnownTask, ReorgTasks
<1>5. u \in {Idle} \cup ReorgTasks
  BY <1>2 DEF Reorg, ReorgTasks
<1>6. step \notin {"toSideChain", "chainStored"} => KnownTask(u, best)
  BY <1>2 DEF Reorg, ReorgTasks, KnownTask, Idle
<1> QED BY <1>3, <1>4, <1>5, <1>6 DEF d
\* A handler goes to its next step, or its group ends.
LEMMA GoToInv ==
    ASSUME NotifierInv, NEW w \in {"main", "late"}, NEW s, At(w, s),
           NEW step \in ReorgSteps, NEW todo \in Seq(Block),
           step \in {"toSideChain", "chainStored"} => todo # <<>> /\ ~GroupEnds(w, step),
           GoTo(w, step, todo) \/ GroupEnds(w, step) \/ UNCHANGED <<task, late>>,
           UNCHANGED <<node, told, panicked, scenario>>, clean' \in BOOLEAN,
           TipsInv', RowsInv', OverdueInv', BestBlockInv'
    PROVE  NotifierInv'
<1> DEFINE t == [Doing(w) EXCEPT !.step = step, !.todo = todo]
           u == IF w = "main" THEN Reorg(task.tips, step, <<>>) ELSE Idle
<1>1. /\ t \in {Idle} \cup ReorgTasks /\ KnownTask(t, best)
      /\ u \in {Idle} \cup ReorgTasks
      /\ step \notin {"toSideChain", "chainStored"} => KnownTask(u, best)
  BY GoToFacts
<1>2. \/ Becomes(w, t) \/ Becomes(w, Doing(w))
      \/ Becomes(w, u) /\ step \notin {"toSideChain", "chainStored"}
  BY DEF GoTo, GroupEnds, Becomes, Doing
<1>3. Doing(w) \in {Idle} \cup ReorgTasks /\ KnownTask(Doing(w), best)
  BY ReorgFacts
<1> HIDE DEF t, u
<1> QED BY <1>1, <1>2, <1>3, ReorgStepInv

\* A step that has something left to do is not the end of its group.
LEMMA NotBothEnds ==
    ASSUME NotifierInv, NEW w \in {"main", "late"}, NEW s, At(w, s), NEW step, NEW todo,
           todo # <<>>, GoTo(w, step, todo)
    PROVE  ~GroupEnds(w, step)
<1> DEFINE d == Doing(w)
           t == [d EXCEPT !.step = step, !.todo = todo]
           u == Reorg(task.tips, step, <<>>)
<1>1. d \in ReorgTasks
  BY ReorgFacts
<1> HIDE DEF d
<1>2. t.todo = todo /\ t.kind = "reorg"
  BY <1>1 DEF ReorgTasks
<1>3. u.todo = <<>> /\ Idle.kind = "idle"
  BY DEF Reorg, Idle
<1>4. (w = "main" /\ task' = t) \/ (w = "late" /\ late' = t)
  BY DEF GoTo, Becomes, d
<1>5. GroupEnds(w, step) => (w = "main" /\ task' = u) \/ (w = "late" /\ late' = Idle)
  BY DEF GroupEnds, Becomes
<1> HIDE DEF t, u
<1> QED BY <1>2, <1>3, <1>4, <1>5

\* A handler panics.
LEMMA PanicInv ==
    ASSUME NotifierInv, Alive, panicked' = TRUE,
           UNCHANGED <<node, previous, task, late, stakeDB, chainDB, overdue, clean, told, scenario>>
    PROVE  NotifierInv'
<1>1. TasksInv' /\ QueueInv'
  BY DEF NotifierInv, TasksInv, QueueInv, node
<1>2. TipsInv' /\ RowsInv' /\ OverdueInv' /\ BestBlockInv'
  BY AliveFacts DEF NotifierInv, TipsInv, RowsInv, OverdueInv, BestBlockInv, stakeDB, chainDB
<1>3. FlagsInv'
  BY DEF NotifierInv, FlagsInv
<1> QED BY <1>1, <1>2, <1>3 DEF NotifierInv

\* The stake database gets to the height of the ancestor.
LEMMA StakeRewindInv ==
    ASSUME NotifierInv, NEW w \in {"main", "late"}, stakeRewind(w)
    PROVE  NotifierInv'
<1> DEFINE r == Doing(w).tips
           h == AncestorHeight(r)
           above == BlocksAbove(r.new, h)
           b == BlockAt(best, Height(stakeTip) + 1)
<1>0. CASE panicked' = TRUE /\ UNCHANGED <<task, late, stakeDB, clean>>
  <2>1. Alive /\ UNCHANGED <<node, previous, chainDB, overdue, told, scenario>>
    BY DEF stakeRewind, At
  <2> QED BY <1>0, <2>1, PanicInv
<1> SUFFICES ASSUME ~(panicked' = TRUE /\ UNCHANGED <<task, late, stakeDB, clean>>)
             PROVE  NotifierInv'
  BY <1>0
<1>1. /\ At(w, "stakeRewind")
      /\ UNCHANGED <<node, previous, chainDB, overdue, told, panicked, scenario>>
  BY DEF stakeRewind
<1>2. /\ r.new \in Block /\ best \in Block /\ bestBlock \in Block
      /\ h \in 0 .. Height(best) /\ above \in Seq(Block)
  BY <1>1, ReorgFacts
<1>3. stakeTip \in Block /\ Height(stakeTip) \in Nat /\ Height(best) \in Nat
  BY <1>2, HeightFacts DEF NotifierInv, TipsInv
<1>4. \A k \in 0 .. Height(stakeTip) : BlockAt(stakeTip, k) \in Block
  BY <1>3, BlockAtFacts
<1>5. /\ \/ GoTo(w, "stakeConnect", above)
         \/ GroupEnds(w, "chainRewind")
         \/ UNCHANGED <<task, late>>
      /\ clean' \in BOOLEAN
  BY DEF stakeRewind, ReorgStepFails, NotifierInv, FlagsInv
<1>6. \/ Height(stakeTip) >= h /\ stakeTip' = BlockAt(stakeTip, h) /\ UNCHANGED <<stakeSaved, poolInfo>>
      \/ Height(stakeTip) < h /\ StakeConnect(b)
      \/ /\ \E k \in 0 .. Height(stakeTip) : stakeTip' = BlockAt(stakeTip, k)
         /\ UNCHANGED <<stakeSaved, poolInfo>>
      \/ UNCHANGED stakeDB
  BY DEF stakeRewind
<1> HIDE DEF h, above
<1>7. Height(stakeTip) < h => b \in Block
  BY <1>2, <1>3, BlockAtFacts
<1> HIDE DEF b
<1>8. TipsInv'
  <2>1. CASE /\ Height(stakeTip) >= h /\ stakeTip' = BlockAt(stakeTip, h)
             /\ UNCHANGED <<stakeSaved, poolInfo>>
    BY <1>1, <1>2, <1>3, <1>4, <2>1 DEF NotifierInv, TipsInv
  <2>2. CASE Height(stakeTip) < h /\ StakeConnect(b)
    BY <1>1, <1>7, <2>2 DEF NotifierInv, TipsInv, StakeConnect
  <2>3. CASE /\ \E k \in 0 .. Height(stakeTip) : stakeTip' = BlockAt(stakeTip, k)
             /\ UNCHANGED <<stakeSaved, poolInfo>>
    BY <1>1, <1>4, <2>3 DEF NotifierInv, TipsInv
  <2>4. CASE UNCHANGED stakeDB
    BY <1>1, <2>4 DEF NotifierInv, TipsInv, stakeDB
  <2> QED BY <1>6, <2>1, <2>2, <2>3, <2>4
<1>9. RowsInv' /\ OverdueInv' /\ BestBlockInv'
  BY <1>1, <1>2 DEF NotifierInv, RowsInv, OverdueInv, BestBlockInv, chainDB
<1>10. <<>> \in Seq(Block) /\ {"stakeConnect", "chainRewind"} \subseteq ReorgSteps
  BY DEF ReorgSteps
<1> QED BY <1>1, <1>2, <1>5, <1>8, <1>9, <1>10, GoToInv

\* The blocks of a reorganisation that are still to be connected.
LEMMA TodoFacts ==
    ASSUME NotifierInv, NEW w \in {"main", "late"}, NEW s, At(w, s), Doing(w).todo # <<>>
    PROVE  Head(Doing(w).todo) \in Block /\ Tail(Doing(w).todo) \in Seq(Block)
<1>1. Doing(w).todo \in Seq(Block)
  BY ReorgFacts DEF ReorgTasks
<1> QED BY <1>1, HeadTailProperties

\* The stake database connects the new chain.
LEMMA StakeConnectInv ==
    ASSUME NotifierInv, NEW w \in {"main", "late"}, stakeConnect(w)
    PROVE  NotifierInv'
<1> DEFINE todo == Doing(w).todo
<1>1. /\ At(w, "stakeConnect")
      /\ UNCHANGED <<node, previous, chainDB, overdue, told, panicked, scenario>>
  BY DEF stakeConnect
<1>2. bestBlock \in Block /\ (todo # <<>> => Head(todo) \in Block /\ Tail(todo) \in Seq(Block))
  BY <1>1, ReorgFacts, TodoFacts
<1>3. /\ \/ todo # <<>> /\ GoTo(w, "stakeConnect", Tail(todo))
         \/ GroupEnds(w, "chainRewind")
      /\ clean' \in BOOLEAN
      /\ \/ todo # <<>> /\ (StakeConnect(Head(todo)) \/ StakeConnectUnsaved(Head(todo)))
         \/ UNCHANGED stakeDB
  BY DEF stakeConnect, ReorgStepFails, NotifierInv, FlagsInv
<1> HIDE DEF todo
<1>4. TipsInv'
  BY <1>1, <1>2, <1>3 DEF NotifierInv, TipsInv, StakeConnect, StakeConnectUnsaved, stakeDB
<1>5. RowsInv' /\ OverdueInv' /\ BestBlockInv'
  BY <1>1, <1>2 DEF NotifierInv, RowsInv, OverdueInv, BestBlockInv, chainDB
<1>6. <<>> \in Seq(Block) /\ {"stakeConnect", "chainRewind"} \subseteq ReorgSteps
  BY DEF ReorgSteps
<1> QED BY <1>1, <1>2, <1>3, <1>4, <1>5, <1>6, GoToInv

\* ChainDB inserts a row of the new chain.
LEMMA ChainConnectInv ==
    ASSUME NotifierInv, NEW w \in {"main", "late"}, chainConnect(w)
    PROVE  NotifierInv'
<1> DEFINE todo == Doing(w).todo
           b == Head(todo)
<1>1. /\ At(w, "chainConnect")
      /\ UNCHANGED <<node, previous, stakeDB, overdue, told, panicked, scenario>>
  BY DEF chainConnect
<1>2. bestBlock \in Block /\ todo \in Seq(Block) /\ (todo # <<>> => b \in Block)
  BY <1>1, ReorgFacts, TodoFacts DEF ReorgTasks
<1>3. /\ \/ todo # <<>> /\ GoTo(w, "chainStored", todo) /\ InsertBlock(b, b)
         \/ GroupEnds(w, "record") /\ UNCHANGED chainDB
      /\ clean' \in BOOLEAN
  BY DEF chainConnect, ReorgStepFails, NotifierInv, FlagsInv
<1>4. GoTo(w, "chainStored", todo) /\ todo # <<>> => ~GroupEnds(w, "chainStored")
  BY <1>1, NotBothEnds
<1> HIDE DEF todo, b
<1>5. RowsInv' /\ bestBlock' \in Block
  <2>1. CASE todo # <<>> /\ InsertBlock(b, b)
    BY <1>2, <2>1, InsertInv DEF NotifierInv, InsertBlock
  <2>2. CASE UNCHANGED chainDB
    BY <1>2, <2>2 DEF NotifierInv, RowsInv, chainDB
  <2> QED BY <1>3, <2>1, <2>2
<1>6. TipsInv' /\ OverdueInv' /\ BestBlockInv'
  BY <1>1, <1>5 DEF NotifierInv, TipsInv, OverdueInv, BestBlockInv, stakeDB
<1>7. <<>> \in Seq(Block) /\ {"chainStored", "record"} \subseteq ReorgSteps
  BY DEF ReorgSteps
<1>8. CASE todo # <<>> /\ GoTo(w, "chainStored", todo)
  BY <1>1, <1>2, <1>3, <1>4, <1>5, <1>6, <1>7, <1>8, GoToInv
<1>9. CASE GroupEnds(w, "record")
  BY <1>1, <1>3, <1>5, <1>6, <1>7, <1>9, GoToInv
<1> QED BY <1>3, <1>8, <1>9

\* Then it sets bestBlock.
LEMMA ChainStoredInv ==
    ASSUME NotifierInv, NEW w \in {"main", "late"}, chainStored(w)
    PROVE  NotifierInv'
<1> DEFINE todo == Doing(w).todo
           b == Head(todo)
<1>1. /\ At(w, "chainStored")
      /\ UNCHANGED <<node, previous, stakeDB, overdue, told, panicked, scenario>>
  BY DEF chainStored
<1>2. bestBlock \in Block /\ b \in Block /\ Tail(todo) \in Seq(Block)
  <2>1. Doing(w).kind = "reorg" /\ Doing(w).step = "chainStored" /\ KnownTask(Doing(w), best)
    BY <1>1, ReorgFacts DEF At
  <2>2. todo # <<>>
    BY <2>1 DEF KnownTask
  <2> QED BY <1>1, <2>2, ReorgFacts, TodoFacts
<1>3. /\ GoTo(w, "chainConnect", Tail(todo)) \/ GroupEnds(w, "record")
      /\ clean' \in BOOLEAN
      /\ SetBestBlock(b) \/ UNCHANGED chainDB
  BY DEF chainStored, ReorgStepFails, NotifierInv, FlagsInv
<1> HIDE DEF todo, b
<1>4. RowsInv' /\ bestBlock' \in Block
  <2>1. CASE SetBestBlock(b)
    BY <1>2, <2>1, InsertInv DEF NotifierInv, SetBestBlock
  <2>2. CASE UNCHANGED chainDB
    BY <1>2, <2>2 DEF NotifierInv, RowsInv, chainDB
  <2> QED BY <1>3, <2>1, <2>2
<1>5. TipsInv' /\ OverdueInv' /\ BestBlockInv'
  BY <1>1, <1>4 DEF NotifierInv, TipsInv, OverdueInv, BestBlockInv, stakeDB
<1>6. <<>> \in Seq(Block) /\ {"chainConnect", "record"} \subseteq ReorgSteps
  BY DEF ReorgSteps
<1> QED BY <1>1, <1>2, <1>3, <1>4, <1>5, <1>6, GoToInv

\* ChainDB is below the ancestor and misses blocks, or TipToSideChain begins.
LEMMA ChainRewindInv ==
    ASSUME NotifierInv, NEW w \in {"main", "late"}, chainRewind(w)
    PROVE  NotifierInv'
<1> DEFINE r == Doing(w).tips
           h == AncestorHeight(r)
           newChain == BlocksAbove(r.new, h)
           missing == SubSeq(Chain[best], Height(bestBlock) + 2, h + 1)
<1>1. /\ At(w, "chainRewind")
      /\ UNCHANGED <<node, previous, stakeDB, chainDB, overdue, clean, told, panicked, scenario>>
  BY DEF chainRewind
<1>2. /\ best \in Block /\ bestBlock \in Block
      /\ h \in 0 .. Height(best) /\ newChain \in Seq(Block)
  BY <1>1, ReorgFacts
<1>3. Height(bestBlock) \in Nat /\ Height(best) \in Nat
  BY <1>2, HeightFacts
<1>4. \/ Height(bestBlock) < h /\ GoTo(w, "chainConnect", missing \o newChain)
      \/ GoTo(w, "toSideChain", <<bestBlock>>)
  BY DEF chainRewind
<1>5. TipsInv' /\ OverdueInv' /\ clean' \in BOOLEAN /\ RowsInv' /\ BestBlockInv'
  BY <1>1, <1>2 DEF NotifierInv, TipsInv, OverdueInv, FlagsInv, RowsInv, BestBlockInv, stakeDB, chainDB
<1>6. {"chainConnect", "toSideChain"} \subseteq ReorgSteps
  BY DEF ReorgSteps
<1> HIDE DEF newChain, h
<1>7. CASE Height(bestBlock) < h /\ GoTo(w, "chainConnect", missing \o newChain)
  <2>1. Chain[best] \in Seq(Block) /\ Len(Chain[best]) = Height(best) + 1
    BY <1>2, ChainEquation, HeightFacts
  <2>2. missing \in Seq(Block)
    BY <1>2, <1>3, <1>7, <2>1
  <2>3. missing \o newChain \in Seq(Block)
    BY <1>2, <2>2, ConcatParts
  <2> HIDE DEF missing
  <2> QED BY <1>1, <1>5, <1>6, <1>7, <2>3, GoToInv
<1>8. CASE GoTo(w, "toSideChain", <<bestBlock>>)
  <2>1. <<bestBlock>> \in Seq(Block) /\ <<bestBlock>> # <<>>
    BY <1>2
  <2>2. ~GroupEnds(w, "toSideChain")
    BY <1>1, <1>8, <2>1, NotBothEnds
  <2> QED BY <1>1, <1>5, <1>6, <1>8, <2>1, <2>2, GoToInv
<1> QED BY <1>4, <1>7, <1>8

\* TipToSideChain flags the row of one block, or is done.
LEMMA TipToSideChainInv ==
    ASSUME NotifierInv, NEW w \in {"main", "late"}, TipToSideChain(w)
    PROVE  NotifierInv'
<1> DEFINE r == Doing(w).tips
           tipHash == Head(Doing(w).todo)
           newChain == BlocksAbove(r.new, AncestorHeight(r))
           prev == previousHash(tipHash)
<1>1. /\ At(w, "toSideChain")
      /\ UNCHANGED <<node, previous, stakeDB, bestBlock, misdated, overdue, told, panicked, scenario>>
  BY DEF TipToSideChain
<1>2. newChain \in Seq(Block) /\ bestBlock \in Block
  BY <1>1, ReorgFacts
<1>3. tipHash \in Block
  <2>1. Doing(w).kind = "reorg" /\ Doing(w).step = "toSideChain" /\ KnownTask(Doing(w), best)
    BY <1>1, ReorgFacts DEF At
  <2>2. Doing(w).todo # <<>>
    BY <2>1 DEF KnownTask
  <2> QED BY <1>1, <2>2, TodoFacts
<1>4. <<>> \in Seq(Block) /\ prev \in Seq(Block)
  <2>1. tipHash # Genesis => Parent[tipHash] \in Block
    BY <1>3, ParentAssumption
  <2> QED BY <2>1 DEF previousHash
<1>5. /\ \/ GoTo(w, "chainConnect", newChain) \/ GroupEnds(w, "record")
         \/ GoTo(w, "flagged", prev) \/ GoTo(w, "flagged", <<>>)
      /\ clean' \in BOOLEAN
      /\ FlagAsSideChain(tipHash) \/ UNCHANGED rows
  BY DEF TipToSideChain, ReorgStepFails, NotifierInv, FlagsInv
<1>6. RowsInv'
  <2>1. CASE FlagAsSideChain(tipHash)
    BY <1>1, <2>1 DEF NotifierInv, RowsInv, FlagAsSideChain
  <2>2. CASE UNCHANGED rows
    BY <1>1, <2>2 DEF NotifierInv, RowsInv
  <2> QED BY <1>5, <2>1, <2>2
<1> HIDE DEF newChain, prev
<1>7. TipsInv' /\ OverdueInv' /\ BestBlockInv'
  BY <1>1, <1>2 DEF NotifierInv, TipsInv, OverdueInv, BestBlockInv, stakeDB
<1>8. {"chainConnect", "record", "flagged"} \subseteq ReorgSteps
  BY DEF ReorgSteps
<1> QED BY <1>1, <1>2, <1>4, <1>5, <1>6, <1>7, <1>8, GoToInv

\* Then bestBlock goes back, or is lost.
LEMMA TipMovedInv ==
    ASSUME NotifierInv, NEW w \in {"main", "late"}, TipMoved(w)
    PROVE  NotifierInv'
<1> DEFINE todo == Doing(w).todo
<1>1. /\ At(w, "flagged")
      /\ UNCHANGED <<node, previous, stakeDB, overdue, clean, told, panicked, scenario>>
  BY DEF TipMoved
<1>2. todo \in Seq(Block) /\ (todo # <<>> => Head(todo) \in Block)
  BY <1>1, ReorgFacts, TodoFacts DEF ReorgTasks
<1>3. \/ todo # <<>> /\ SetBestBlock(Head(todo)) /\ GoTo(w, "toSideChain", todo)
      \/ SetBestBlock(NoBlock) /\ GoTo(w, "hung", <<>>)
  BY DEF TipMoved
<1>4. TipsInv' /\ OverdueInv' /\ clean' \in BOOLEAN
  BY <1>1 DEF NotifierInv, TipsInv, OverdueInv, FlagsInv, stakeDB
<1>5. <<>> \in Seq(Block) /\ {"toSideChain", "hung"} \subseteq ReorgSteps
  BY DEF ReorgSteps
<1> HIDE DEF todo
<1>6. CASE todo # <<>> /\ SetBestBlock(Head(todo)) /\ GoTo(w, "toSideChain", todo)
  <2>1. RowsInv' /\ BestBlockInv'
    BY <1>2, <1>6 DEF NotifierInv, RowsInv, SetBestBlock, BestBlockInv
  <2>2. ~GroupEnds(w, "toSideChain")
    BY <1>1, <1>6, NotBothEnds
  <2> QED BY <1>1, <1>2, <1>4, <1>5, <1>6, <2>1, <2>2, GoToInv
<1>7. CASE SetBestBlock(NoBlock) /\ GoTo(w, "hung", <<>>)
  <2>1. bestBlock' = NoBlock /\ RowsInv'
    BY <1>7 DEF SetBestBlock, NotifierInv, RowsInv
  <2> DEFINE t == [Doing(w) EXCEPT !.step = "hung", !.todo = <<>>]
  <2>2. t.kind = "reorg" /\ t.step = "hung"
    <3>1. Doing(w) \in ReorgTasks
      BY <1>1, ReorgFacts
    <3> QED BY <3>1 DEF ReorgTasks
  <2>3. task' = t \/ late' = t
    BY <1>7 DEF GoTo, Becomes
  <2> HIDE DEF t
  <2>4. BestBlockInv'
    BY <2>1, <2>2, <2>3 DEF BestBlockInv, Hung
  <2> QED BY <1>1, <1>4, <1>5, <1>7, <2>1, <2>4, GoToInv
<1> QED BY <1>3, <1>6, <1>7

\* The new head is recorded.
LEMMA RecordReorgInv == NotifierInv /\ recordReorg => NotifierInv'
<1> SUFFICES ASSUME NotifierInv, recordReorg
             PROVE  NotifierInv'
  OBVIOUS
<1>1. /\ UNCHANGED <<node, stakeDB, chainDB, overdue, clean, told, panicked, late, scenario>>
      /\ At("main", "record") /\ previous' = task.tips.new /\ task' = Idle
  BY DEF recordReorg
<1>2. bestBlock \in Block /\ task.tips.new \in Block
  BY <1>1, ReorgFacts DEF Doing
<1>3. task' \in Task /\ KnownTask(task', best) /\ clean' \in BOOLEAN
  BY <1>1 DEF Task, KnownTask, Idle, NotifierInv, FlagsInv
<1>4. TipsInv' /\ RowsInv' /\ OverdueInv' /\ bestBlock' \in Block
  BY <1>1, <1>2 DEF NotifierInv, TipsInv, RowsInv, OverdueInv, stakeDB, chainDB
<1> QED BY <1>1, <1>3, <1>4, TaskStepInv

\* A reorg handler passes its deadline.
LEMMA ReorgOverdueInv == NotifierInv /\ ReorgOverdue => NotifierInv'
<1> SUFFICES ASSUME NotifierInv, ReorgOverdue
             PROVE  NotifierInv'
  OBVIOUS
<1>1. /\ UNCHANGED <<node, previous, stakeDB, chainDB, overdue, told, panicked, scenario>>
      /\ Alive /\ task.kind = "reorg"
      /\ late' \in {Idle, task} /\ task' = Idle /\ clean' \in BOOLEAN
  BY DEF ReorgOverdue, At, Doing
<1>2. bestBlock \in Block /\ task \in ReorgTasks /\ KnownTask(task, best)
  BY <1>1, AliveFacts, TaskFacts DEF NotifierInv, TasksInv
<1>3. TasksInv'
  BY <1>1, <1>2 DEF TasksInv, Task, KnownTask, Idle, node
<1>4. QueueInv' /\ FlagsInv'
  BY <1>1 DEF NotifierInv, QueueInv, FlagsInv, node
<1>5. TipsInv' /\ RowsInv' /\ OverdueInv' /\ BestBlockInv'
  BY <1>1, <1>2 DEF NotifierInv, TipsInv, RowsInv, OverdueInv, BestBlockInv, stakeDB, chainDB
<1> QED BY <1>3, <1>4, <1>5 DEF NotifierInv

\* block data's ReorgHandler panics.
LEMMA BlockdataReorgFailsInv == NotifierInv /\ blockdataReorgFails => NotifierInv'
  BY PanicInv DEF blockdataReorgFails, At

-----------------------------------------------------------------------------
\* Every step preserves the invariant.
LEMMA NextInv == NotifierInv /\ [Next]_vars => NotifierInv'
<1> SUFFICES ASSUME NotifierInv, [Next]_vars
             PROVE  NotifierInv'
  OBVIOUS
<1>1. CASE superQueue
  BY <1>1, ProcessBlockInv, CatchUpInv, StakeConnectBlockInv, CollectOnceInv,
     BlockdataConnectBlockInv, BlockdataBlockStoredInv, SignalReorgInv, StakeRewindInv,
     StakeConnectInv, ChainRewindInv, TipToSideChainInv, TipMovedInv, ChainConnectInv,
     ChainStoredInv, RecordReorgInv
  DEF superQueue, reorgHandler
<1>2. CASE overdueHandler
  BY <1>2, OverdueStepInv, StakeRewindInv, StakeConnectInv, ChainRewindInv, TipToSideChainInv,
     TipMovedInv, ChainConnectInv, ChainStoredInv
  DEF overdueHandler, reorgHandler
<1>3. CASE HandlerOverdue \/ ReorgOverdue \/ blockdataReorgFails
  BY <1>3, HandlerOverdueInv, ReorgOverdueInv, BlockdataReorgFailsInv
<1>4. CASE \E b \in Block : NodeExtends(b) \/ NodeReorganizes(b)
  BY <1>4, NodeInv
<1>5. CASE UNCHANGED vars
  <2>1. UNCHANGED <<best, anyQ, previous, task, late, stakeTip, stakeSaved, poolInfo, rows, bestBlock,
                    misdated, overdue, clean, told, panicked, scenario>>
    BY <1>5 DEF vars, node, stakeDB, chainDB
  <2>2. QueueInv' /\ TasksInv' /\ TipsInv' /\ RowsInv'
    BY <2>1 DEF NotifierInv, QueueInv, TasksInv, TipsInv, RowsInv
  <2>3. BestBlockInv' /\ OverdueInv' /\ FlagsInv'
    BY <2>1 DEF NotifierInv, BestBlockInv, Hung, OverdueInv, FlagsInv
  <2> QED BY <2>2, <2>3 DEF NotifierInv
<1> QED BY <1>1, <1>2, <1>3, <1>4, <1>5 DEF Next

\* The invariant holds in every state.
LEMMA Invariance == Spec => []NotifierInv
  BY InitInv, NextInv, PTL DEF Spec

(***************************************************************************)
(* The pipeline is well typed: the look-ups by height that catchUpMissed-  *)
(* Blocks and the reorg handlers make of dcrd's chain, after dcrd may have *)
(* moved any number of times since the notification was queued, are never  *)
(* above dcrd's best block, and every reorganisation has an ancestor.      *)
(***************************************************************************)
THEOREM TypeCorrect == Spec => []TypeOK
<1>1. NotifierInv => TypeOK
  BY DEF NotifierInv, QueueInv, TasksInv, TipsInv, RowsInv, BestBlockInv, OverdueInv, FlagsInv,
         TypeOK, Message, Task
<1> QED BY <1>1, Invariance, PTL

(***************************************************************************)
(* Whenever dcrd has a new best block, rpcutils.CommonAncestor of it and   *)
(* any other block is the highest block both chains share below their      *)
(* tips, and none only from genesis.                                       *)
(***************************************************************************)
THEOREM AncestorIsAlwaysLastShared == Spec => AncestorIsLastShared
<1>1. ASSUME NEW tip \in Block
      PROVE  FindsLastShared(tip)
  <2>1. ASSUME NEW b \in Block
        PROVE  LET shared == (BlocksOf(b) \cap BlocksOf(tip)) \ {b, tip}
               IN  IF shared = {} THEN CommonAncestor(b, tip) = "none"
                   ELSE /\ CommonAncestor(b, tip) \in shared
                        /\ \A c \in shared : Height(c) <= Height(CommonAncestor(b, tip))
    <3>1. (BlocksOf(b) \cap BlocksOf(tip)) \ {b, tip} = Shared(b, tip)
      BY BlocksOfFacts DEF Shared
    <3>2. CommonAncestor(b, tip) = LastShared(b, tip)
      BY CommonAncestorIsLastShared
    <3>3. CASE Shared(b, tip) = {}
      BY <3>1, <3>2, <3>3 DEF LastShared
    <3>4. CASE Shared(b, tip) # {}
      <4>1. IsHighest(LastShared(b, tip), Shared(b, tip))
        BY <3>4, LastSharedFacts
      <4> QED BY <3>1, <3>2, <3>4, <4>1 DEF IsHighest
    <3> QED BY <3>3, <3>4
  <2> QED BY <2>1 DEF FindsLastShared
<1>2. NotifierInv' => [best' # best => FindsLastShared(best')]_vars
  <2>1. NotifierInv' => best' \in Block
    BY DEF NotifierInv, QueueInv
  <2> QED BY <1>1, <2>1
<1> QED BY <1>2, Invariance, PTL DEF AncestorIsLastShared
-----------------------------------------------------------------------------
(***************************************************************************)
(* The main chain.  What follows is about the scenarios whose faults the   *)
(* replay makes good: blocks get lost or fail, reorganisations do not.     *)
(***************************************************************************)

Anc(r) == CommonAncestor(r.new, r.old)

Comparable(a, b) == OnChain(a, b) \/ OnChain(b, a)

\* The block a notification is about.
Target(m) == IF m.type = "block" THEN m.block ELSE m.new

\* The message at j is the first reorganisation after position i.
First(q, i, j) == q[j].type = "reorg" /\ \A k \in i + 1 .. j - 1 : q[k].type # "reorg"

(***************************************************************************)
(* Block v is above or below the ancestor of the reorganisation that comes *)
(* next after position i, or on dcrd's chain if none comes.                *)
(***************************************************************************)
Fits(v, q, i, top) ==
    /\ \A j \in i + 1 .. Len(q) : First(q, i, j) => Comparable(v, Anc(q[j]))
    /\ (\A j \in i + 1 .. Len(q) : q[j].type # "reorg") => OnChain(v, top)

\* The first reorganisation after position i is away from t.
Switches(t, q, i) == \E j \in i + 1 .. Len(q) : First(q, i, j) /\ q[j].old = t

(***************************************************************************)
(* The messages after position i go on from v without a gap: block after   *)
(* block up to some t, which is dcrd's best block or the one that the next *)
(* reorganisation leaves.                                                  *)
(***************************************************************************)
GoesOn(v, q, i, top, t) ==
    /\ OnChain(v, t)
    /\ i + (Height(t) - Height(v)) <= Len(q)
    /\ \A k \in 1 .. Height(t) - Height(v) : q[i + k] = NewBlock(BlockAt(t, Height(v) + k))
    /\ \/ i + (Height(t) - Height(v)) = Len(q) /\ t = top
       \/ Switches(t, q, i + (Height(t) - Height(v)))

Continues(v, q, i, top) == \E t \in Block : GoesOn(v, q, i, top, t)

\* x is at or above the block that the next reorganisation leaves.
Switching(x, q) == \E t \in Block : OnChain(t, x) /\ Switches(t, q, 0)

Waits(x, q, top) == Continues(x, q, 0, top) \/ Switching(x, q)

\* The messages of a queue, where every reorganisation has an ancestor.
Queue(q) ==
    q \in Seq(Message) /\ \A i \in 1 .. Len(q) : q[i].type = "reorg" => Anc(q[i]) \in Block

(***************************************************************************)
(* The inductive invariant of these scenarios, in parts.  A reorganisation *)
(* r can be carried out from x: its ancestor is on the chain of x or, when *)
(* blocks were missed, x is below it on dcrd's chain.                      *)
(***************************************************************************)
Faultless == scenario.faults = {}

Reachable(x, r) ==
    \/ OnChain(Anc(r), x)
    \/ ~Faultless /\ OnChain(x, Anc(r)) /\ OnChain(Anc(r), best)

ReorgInv(r) ==
    /\ task.step = "stakeRewind" => Reachable(stakeTip, r) /\ Reachable(bestBlock, r)
    /\ task.step = "stakeConnect" =>
          /\ OnChain(Anc(r), stakeTip) /\ OnChain(stakeTip, r.new)
          /\ task.todo = BlocksAbove(r.new, Height(stakeTip))
          /\ Reachable(bestBlock, r)
    /\ task.step = "chainRewind" => stakeTip = r.new /\ Reachable(bestBlock, r)
    /\ task.step \in {"toSideChain", "flagged"} => stakeTip = r.new /\ OnChain(Anc(r), bestBlock)
    /\ task.step = "toSideChain" => task.todo = <<bestBlock>>
    /\ task.step = "flagged" => bestBlock # Anc(r) /\ task.todo = <<Parent[bestBlock]>>
    /\ task.step \in {"chainConnect", "chainStored"} =>
          /\ stakeTip = r.new /\ OnChain(bestBlock, r.new)
          /\ task.todo = BlocksAbove(r.new, Height(bestBlock))
    /\ task.step = "record" => stakeTip = r.new /\ bestBlock = r.new
    /\ task.step # "hung"

\* ChainDB is at previous or a block ahead of it, and the stake database at
\* ChainDB's tip or a block ahead of it, but no more than one ahead of previous.
InStep ==
    /\ OnChain(previous, bestBlock) /\ OnChain(bestBlock, stakeTip)
    /\ Height(stakeTip) <= Height(previous) + 1

TipsAgree ==
    /\ late = Idle /\ overdue = {} /\ bestBlock \in Block /\ stakeSaved = TRUE
    /\ MainRows = BlocksOf(RowsTip)
    /\ BlocksOf(stakeTip) \subseteq poolInfo
    /\ task.kind # "reorg" => InStep
    /\ task.kind \in {"catchup", "run"} => Height(previous) < Height(task.bh)
    /\ task.kind = "run" =>
          /\ Height(task.blk) = Height(previous) + 1
          /\ task.blk # task.bh => Height(task.blk) < Height(task.bh)
          /\ task.group # "stake" => stakeTip = task.blk
    /\ task.kind = "reorg" => ReorgInv(task.tips)

\* With faults: nothing leaves the ancestor of a reorganisation that is to come.
Nested(m, top) ==
    m.type = "reorg" =>
        m.old \notin DeepBranch /\ m.new \notin DeepBranch /\ OnChain(Anc(m), top)

QueueNested ==
    /\ best \notin DeepBranch
    /\ \A i \in 1 .. Len(anyQ) : Fits(Target(anyQ[i]), anyQ, i, best) /\ Nested(anyQ[i], best)

TaskNested ==
    /\ task.kind = "reorg" => Fits(task.tips.new, anyQ, 0, best) /\ Nested(task.tips, best)
    /\ task.kind # "reorg" => Fits(stakeTip, anyQ, 0, best)
    /\ task.kind \in {"catchup", "run"} => Fits(task.bh, anyQ, 0, best)
    /\ task.kind = "run" => Fits(task.blk, anyQ, 0, best)

\* Without faults: the queue goes on where the handlers are.
QueueGapless ==
    \A i \in 1 .. Len(anyQ) :
        anyQ[i].type = "reorg" => Continues(anyQ[i].new, anyQ, i, best)

TaskGapless ==
    /\ task.kind = "reorg" => Continues(task.tips.new, anyQ, 0, best)
    /\ task.kind # "reorg" => bestBlock = previous
    /\ task.kind \in {"idle", "catchup"} => stakeTip = previous
    /\ task.kind = "idle" => Waits(previous, anyQ, best)
    /\ task.kind = "catchup" => Switching(previous, anyQ)
    /\ task.kind = "run" =>
          /\ task.group = "stake" => stakeTip = previous
          /\ task.group # "stake" => Parent[task.blk] = previous
          /\ task.bh # task.blk => Switching(previous, anyQ)
          /\ \/ Parent[task.blk] = previous /\ Waits(task.blk, anyQ, best)
             \/ Switching(previous, anyQ)

\* What was notified last is dcrd's best block, and ChainDB gets there.
CaughtUp ==
    told =>
        /\ anyQ # <<>> => Target(anyQ[Len(anyQ)]) = best
        /\ anyQ = <<>> /\ clean =>
              /\ task.kind \in {"catchup", "run"} => task.bh = best
              /\ task.kind = "reorg" => task.tips.new = best
              /\ task.kind = "idle" => bestBlock = best

PipelineOK ==
    /\ TipsAgree /\ CaughtUp
    /\ ~Faultless => QueueNested /\ TaskNested
    /\ Faultless => QueueGapless /\ TaskGapless

PipelineInv == Replayable => PipelineOK

-----------------------------------------------------------------------------
(* Queues.                                                                 *)

\* The ancestor of a reorganisation is below both of its tips.
LEMMA AncFacts ==
    ASSUME NEW m \in ReorgMessages, NEW top \in Block, Known(m, top)
    PROVE  /\ m.type = "reorg" /\ m.old \in Block /\ m.new \in Block /\ Fork(m.old, m.new)
           /\ Anc(m) \in Block /\ OnChain(Anc(m), m.old) /\ OnChain(Anc(m), m.new)
           /\ Height(Anc(m)) = AncestorHeight(m) /\ AncestorHeight(m) \in Nat
           /\ AncestorHeight(m) < Height(m.old) /\ AncestorHeight(m) < Height(m.new)
           /\ Height(m.new) \in Nat /\ Height(m.old) \in Nat
<1>1. m.type = "reorg" /\ m.old \in Block /\ m.new \in Block
  BY DEF ReorgMessages
<1>2. Height(m.old) < Height(m.new) /\ ~OnChain(m.old, m.new)
  BY <1>1 DEF Known
<1>3. Height(m.new) \in Nat /\ Height(m.old) \in Nat
  BY <1>1, HeightFacts
<1>4. /\ CommonAncestor(m.new, m.old) \in Block
      /\ OnChain(CommonAncestor(m.new, m.old), m.new) /\ OnChain(CommonAncestor(m.new, m.old), m.old)
      /\ CommonHeight(m.new, m.old) \in 0 .. Height(m.old) - 1
  BY <1>1, <1>2, <1>3, ForkAncestor
<1> QED BY <1>1, <1>2, <1>3, <1>4 DEF Anc, AncestorHeight, CommonHeight, Fork

\* A message is about blocks.
LEMMA MessageFacts ==
    ASSUME NEW m \in Message
    PROVE  /\ m.type = "block" => m \in BlockMessages /\ m.block \in Block
           /\ m.type = "reorg" => m \in ReorgMessages /\ m.new \in Block /\ m.old \in Block
           /\ m.type \in {"block", "reorg"} /\ Target(m) \in Block
  BY DEF Message, BlockMessages, ReorgMessages, Target

\* dcrd's queue is one of well formed messages.
LEMMA AnyQFacts ==
    ASSUME QueueInv
    PROVE  /\ Queue(anyQ) /\ best \in Block /\ Height(best) \in Nat /\ Len(anyQ) \in Nat
           /\ \A i \in 1 .. Len(anyQ) : anyQ[i] \in Message /\ Known(anyQ[i], best)
<1>1. best \in Block /\ Height(best) \in Nat /\ Len(anyQ) \in Nat /\ anyQ \in Seq(Message)
  BY HeightFacts DEF QueueInv
<1>2. \A i \in 1 .. Len(anyQ) : anyQ[i] \in Message /\ Known(anyQ[i], best)
  BY <1>1 DEF QueueInv
<1>3. ASSUME NEW i \in 1 .. Len(anyQ), anyQ[i].type = "reorg"
      PROVE  Anc(anyQ[i]) \in Block
  <2>1. anyQ[i] \in ReorgMessages /\ Known(anyQ[i], best)
    BY <1>2, <1>3, MessageFacts
  <2> QED BY <1>1, <2>1, AncFacts
<1> QED BY <1>1, <1>2, <1>3 DEF Queue

\* The tail of a queue.
LEMMA TailFacts ==
    ASSUME NEW q, Queue(q), q # <<>>
    PROVE  /\ Tail(q) \in Seq(Message) /\ Len(q) \in Nat \ {0} /\ Len(Tail(q)) = Len(q) - 1
           /\ Head(q) = q[1] /\ q[1] \in Message
           /\ \A k \in 1 .. Len(q) - 1 : Tail(q)[k] = q[k + 1]
           /\ Queue(Tail(q))
<1>1. /\ Tail(q) \in Seq(Message) /\ Len(q) \in Nat \ {0} /\ Len(Tail(q)) = Len(q) - 1
      /\ Head(q) = q[1] /\ q[1] \in Message
      /\ \A k \in 1 .. Len(q) - 1 : Tail(q)[k] = q[k + 1]
  <2>1. q \in Seq(Message)
    BY DEF Queue
  <2>2. Head(q) \in Message /\ Tail(q) \in Seq(Message)
    BY <2>1, HeadTailProperties
  <2>3. Len(q) \in Nat /\ Len(q) # 0
    BY <2>1, EmptySeq
  <2>4. Len(Tail(q)) = Len(q) - 1 /\ \A k \in 1 .. Len(Tail(q)) : Tail(q)[k] = q[k + 1]
    BY <2>1, HeadTailProperties
  <2>5. Head(q) = q[1]
    BY <2>1
  <2> QED BY <2>2, <2>3, <2>4, <2>5
<1>2. ASSUME NEW i \in 1 .. Len(Tail(q)), Tail(q)[i].type = "reorg"
      PROVE  Anc(Tail(q)[i]) \in Block
  <2>1. i + 1 \in 1 .. Len(q) /\ Tail(q)[i] = q[i + 1]
    BY <1>1
  <2> QED BY <1>2, <2>1 DEF Queue
<1> QED BY <1>1, <1>2 DEF Queue

\* What comes after a position of a queue comes one earlier in its tail.
LEMMA FirstTail ==
    ASSUME NEW q, Queue(q), q # <<>>, NEW i \in 1 .. Len(q), NEW j \in i .. Len(q) - 1
    PROVE  /\ First(Tail(q), i - 1, j) <=> First(q, i, j + 1)
           /\ Tail(q)[j] = q[j + 1] /\ j + 1 \in i + 1 .. Len(q)
<1>1. /\ Len(q) \in Nat \ {0} /\ \A k \in 1 .. Len(q) - 1 : Tail(q)[k] = q[k + 1]
  BY TailFacts
<1>2. Tail(q)[j] = q[j + 1] /\ j + 1 \in i + 1 .. Len(q) /\ i \in Nat /\ j \in Nat /\ i >= 1
  BY <1>1
<1>3. (\A k \in (i - 1) + 1 .. j - 1 : Tail(q)[k].type # "reorg") <=> (\A k \in i + 1 .. (j + 1) - 1 : q[k].type # "reorg")
  <2>1. ASSUME \A k \in (i - 1) + 1 .. j - 1 : Tail(q)[k].type # "reorg", NEW k \in i + 1 .. (j + 1) - 1
        PROVE  q[k].type # "reorg"
    <3>1. k - 1 \in (i - 1) + 1 .. j - 1 /\ k - 1 \in 1 .. Len(q) - 1 /\ (k - 1) + 1 = k
      BY <1>1, <1>2
    <3>2. Tail(q)[k - 1] = q[k]
      BY <1>1, <3>1
    <3> QED BY <2>1, <3>1, <3>2
  <2>2. ASSUME \A k \in i + 1 .. (j + 1) - 1 : q[k].type # "reorg", NEW k \in (i - 1) + 1 .. j - 1
        PROVE  Tail(q)[k].type # "reorg"
    <3>1. k + 1 \in i + 1 .. (j + 1) - 1 /\ k \in 1 .. Len(q) - 1
      BY <1>1, <1>2
    <3> QED BY <1>1, <2>2, <3>1
  <2> QED BY <2>1, <2>2
<1> QED BY <1>2, <1>3 DEF First

\* Taking the first message leaves the relation to what comes later.
LEMMA FitsTail ==
    ASSUME NEW q, Queue(q), q # <<>>, NEW i \in 1 .. Len(q), NEW v, NEW top, Fits(v, q, i, top)
    PROVE  Fits(v, Tail(q), i - 1, top)
<1>1. Len(q) \in Nat \ {0} /\ Len(Tail(q)) = Len(q) - 1 /\ i \in Nat /\ i >= 1
  BY TailFacts
<1>2. ASSUME NEW j \in (i - 1) + 1 .. Len(Tail(q)), First(Tail(q), i - 1, j)
      PROVE  Comparable(v, Anc(Tail(q)[j]))
  <2>1. j \in i .. Len(q) - 1
    BY <1>1
  <2>2. First(q, i, j + 1) /\ Tail(q)[j] = q[j + 1] /\ j + 1 \in i + 1 .. Len(q)
    BY <1>2, <2>1, FirstTail
  <2> QED BY <2>2 DEF Fits
<1>3. ASSUME \A j \in (i - 1) + 1 .. Len(Tail(q)) : Tail(q)[j].type # "reorg"
      PROVE  OnChain(v, top)
  <2>1. ASSUME NEW k \in i + 1 .. Len(q)
        PROVE  q[k].type # "reorg"
    <3>1. k - 1 \in i .. Len(q) - 1 /\ k - 1 \in (i - 1) + 1 .. Len(Tail(q)) /\ (k - 1) + 1 = k
      BY <1>1
    <3>2. Tail(q)[k - 1] = q[(k - 1) + 1]
      BY <3>1, FirstTail
    <3> QED BY <1>3, <3>1, <3>2
  <2> QED BY <2>1 DEF Fits
<1> QED BY <1>2, <1>3 DEF Fits

\* So does taking a first message that is not a reorganisation.
LEMMA FitsSkip ==
    ASSUME NEW q, Queue(q), q # <<>>, q[1].type # "reorg", NEW v, NEW top, Fits(v, q, 0, top)
    PROVE  Fits(v, Tail(q), 0, top)
<1>1. Len(q) \in Nat \ {0} /\ 1 \in 1 .. Len(q)
  BY TailFacts
<1>2. ASSUME NEW j \in 1 + 1 .. Len(q), First(q, 1, j)
      PROVE  Comparable(v, Anc(q[j]))
  <2>1. j \in 0 + 1 .. Len(q)
    BY <1>1
  <2>2. \A k \in 0 + 1 .. j - 1 : k = 1 \/ k \in 1 + 1 .. j - 1
    BY <1>1
  <2>3. First(q, 0, j)
    BY <1>2, <2>2 DEF First
  <2> QED BY <2>1, <2>3 DEF Fits
<1>3. ASSUME \A j \in 1 + 1 .. Len(q) : q[j].type # "reorg"
      PROVE  OnChain(v, top)
  <2>1. \A k \in 0 + 1 .. Len(q) : k = 1 \/ k \in 1 + 1 .. Len(q)
    BY <1>1
  <2> QED BY <1>3, <2>1 DEF Fits
<1>4. Fits(v, q, 1, top)
  BY <1>2, <1>3 DEF Fits
<1>5. Fits(v, Tail(q), 1 - 1, top)
  BY <1>1, <1>4, FitsTail
<1> QED BY <1>5

\* Two blocks of one chain are above one another.
LEMMA ComparableFacts ==
    /\ \A a, b, c \in Block : OnChain(a, c) /\ OnChain(b, c) => Comparable(a, b)
    /\ \A a, b, c \in Block : OnChain(a, b) /\ Comparable(b, c) => Comparable(a, c)
<1>1. ASSUME NEW a \in Block, NEW b \in Block, NEW c \in Block, OnChain(a, c), OnChain(b, c)
      PROVE  Comparable(a, b)
  <2>1. Height(a) \in Nat /\ Height(b) \in Nat
    BY HeightFacts
  <2>2. Height(a) <= Height(b) \/ Height(b) <= Height(a)
    BY <2>1
  <2> QED BY <1>1, <2>2, OnChainFacts DEF Comparable
<1>2. ASSUME NEW a \in Block, NEW b \in Block, NEW c \in Block, OnChain(a, b), Comparable(b, c)
      PROVE  Comparable(a, c)
  <2>1. CASE OnChain(b, c)
    BY <1>2, <2>1, OnChainFacts DEF Comparable
  <2>2. CASE OnChain(c, b)
    BY <1>1, <1>2, <2>2
  <2> QED BY <1>2, <2>1, <2>2 DEF Comparable
<1> QED BY <1>1, <1>2

\* A block below one that fits does.
LEMMA FitsLower ==
    ASSUME NEW q, Queue(q), NEW i \in Nat, NEW u \in Block, NEW v \in Block, NEW top \in Block,
           OnChain(u, v), Fits(v, q, i, top)
    PROVE  Fits(u, q, i, top)
<1>1. ASSUME NEW j \in i + 1 .. Len(q), First(q, i, j)
      PROVE  Comparable(u, Anc(q[j]))
  <2>1. j \in 1 .. Len(q)
    OBVIOUS
  <2>2. Anc(q[j]) \in Block
    BY <1>1, <2>1 DEF Queue, First
  <2>3. Comparable(v, Anc(q[j]))
    BY <1>1 DEF Fits
  <2> QED BY <2>2, <2>3, ComparableFacts
<1>2. (\A j \in i + 1 .. Len(q) : q[j].type # "reorg") => OnChain(u, top)
  BY OnChainFacts DEF Fits
<1> QED BY <1>1, <1>2 DEF Fits

\* A block of dcrd's chain fits where dcrd's chain has all the ancestors.
LEMMA FitsBest ==
    ASSUME NEW q, Queue(q), NEW v \in Block, NEW top \in Block, OnChain(v, top),
           \A i \in 1 .. Len(q) : q[i].type = "reorg" => OnChain(Anc(q[i]), top)
    PROVE  Fits(v, q, 0, top)
<1>1. ASSUME NEW j \in 0 + 1 .. Len(q), First(q, 0, j)
      PROVE  Comparable(v, Anc(q[j]))
  <2>1. j \in 1 .. Len(q) /\ q[j].type = "reorg"
    BY <1>1 DEF First
  <2>2. Anc(q[j]) \in Block /\ OnChain(Anc(q[j]), top)
    BY <2>1 DEF Queue
  <2> QED BY <2>2, ComparableFacts
<1> QED BY <1>1 DEF Fits

\* q with more messages behind it.
Prefix(q, p) ==
    /\ q \in Seq(Message) /\ p \in Seq(Message) /\ Len(q) <= Len(p)
    /\ \A k \in 1 .. Len(q) : p[k] = q[k]

\* q after dcrd has notified the next block b.
Extended(q, p, b) == Prefix(q, p) /\ Len(p) = Len(q) + 1 /\ p[Len(p)] = NewBlock(b)

\* q after dcrd has notified a reorganisation from top to b, its blocks first.
Switched(q, p, top, b) ==
    /\ Prefix(q, p) /\ Len(p) > Len(q) /\ p[Len(p)] = BranchTips(top, b)
    /\ \A k \in Len(q) + 1 .. Len(p) - 1 : p[k].type = "block" /\ OnChain(p[k].block, b)

\* What is in the queue comes first as before.
LEMMA FirstGrown ==
    ASSUME NEW q, NEW p, Prefix(q, p), NEW i \in Nat
    PROVE  /\ \A j \in i + 1 .. Len(q) : First(p, i, j) <=> First(q, i, j)
           /\ \A j \in i + 1 .. Len(q) : j \in i + 1 .. Len(p) /\ p[j] = q[j]
           /\ Len(q) \in Nat /\ Len(p) \in Nat /\ Len(q) <= Len(p)
<1>1. Len(q) \in Nat /\ Len(p) \in Nat /\ Len(q) <= Len(p) /\ \A k \in 1 .. Len(q) : p[k] = q[k]
  BY DEF Prefix
<1>2. ASSUME NEW j \in i + 1 .. Len(q)
      PROVE  (First(p, i, j) <=> First(q, i, j)) /\ j \in i + 1 .. Len(p) /\ p[j] = q[j]
  <2>1. j \in 1 .. Len(q) /\ \A k \in i + 1 .. j - 1 : k \in 1 .. Len(q)
    BY <1>1
  <2>2. p[j] = q[j] /\ \A k \in i + 1 .. j - 1 : p[k] = q[k]
    BY <1>1, <2>1
  <2>3. j \in i + 1 .. Len(p)
    BY <1>1
  <2> QED BY <2>2, <2>3 DEF First
<1> QED BY <1>1, <1>2

\* dcrd's chain grows, and the blocks are notified or not.
LEMMA FitsExtended ==
    ASSUME NEW q, NEW p, Prefix(q, p), \A k \in Len(q) + 1 .. Len(p) : p[k].type # "reorg",
           NEW top \in Block, NEW b \in Block, OnChain(top, b),
           NEW v \in Block, NEW i \in 0 .. Len(q), Fits(v, q, i, top)
    PROVE  Fits(v, p, i, b)
<1>1. Len(q) \in Nat /\ Len(p) \in Nat /\ Len(q) <= Len(p) /\ i \in Nat
  BY DEF Prefix
<1>2. ASSUME NEW j \in i + 1 .. Len(p), First(p, i, j)
      PROVE  Comparable(v, Anc(p[j]))
  <2>1. j \in i + 1 .. Len(q) \/ j \in Len(q) + 1 .. Len(p)
    BY <1>1
  <2>2. j \in i + 1 .. Len(q)
    BY <1>2, <2>1 DEF First
  <2>3. First(q, i, j) /\ p[j] = q[j]
    BY <1>1, <1>2, <2>2, FirstGrown
  <2> QED BY <2>2, <2>3 DEF Fits
<1>3. ASSUME \A j \in i + 1 .. Len(p) : p[j].type # "reorg"
      PROVE  OnChain(v, b)
  <2>1. \A j \in i + 1 .. Len(q) : j \in i + 1 .. Len(p) /\ p[j] = q[j]
    BY <1>1, FirstGrown
  <2>2. \A j \in i + 1 .. Len(q) : q[j].type # "reorg"
    BY <1>3, <2>1
  <2>3. OnChain(v, top)
    BY <2>2 DEF Fits
  <2> QED BY <2>3, OnChainFacts
<1> QED BY <1>2, <1>3 DEF Fits

\* The reorganisation that dcrd notifies is the first after the blocks before it.
LEMMA SwitchedFacts ==
    ASSUME NEW q, NEW p, NEW top \in Block, NEW b \in Block, Fork(top, b), Switched(q, p, top, b)
    PROVE  /\ Len(q) \in Nat /\ Len(p) \in Nat /\ Len(q) < Len(p) /\ Prefix(q, p)
           /\ p[Len(p)].type = "reorg" /\ p[Len(p)].old = top /\ p[Len(p)].new = b
           /\ Anc(p[Len(p)]) \in Block
           /\ OnChain(Anc(p[Len(p)]), top) /\ OnChain(Anc(p[Len(p)]), b)
           /\ \A j \in Len(q) + 1 .. Len(p) : p[j].type = "reorg" => j = Len(p)
<1>1. Len(q) \in Nat /\ Len(p) \in Nat /\ Len(q) < Len(p) /\ Prefix(q, p)
  BY DEF Switched, Prefix
<1>2. p[Len(p)].type = "reorg" /\ p[Len(p)].old = top /\ p[Len(p)].new = b
  BY DEF Switched, BranchTips
<1>3. Height(top) <= Height(b) /\ ~OnChain(top, b)
  BY HeightFacts DEF Fork
<1>4. /\ CommonAncestor(b, top) \in Block
      /\ OnChain(CommonAncestor(b, top), b) /\ OnChain(CommonAncestor(b, top), top)
  BY <1>3, ForkAncestor
<1>5. ASSUME NEW j \in Len(q) + 1 .. Len(p), p[j].type = "reorg"
      PROVE  j = Len(p)
  <2>1. j \in Len(q) + 1 .. Len(p) - 1 \/ j = Len(p)
    BY <1>1
  <2> QED BY <1>5, <2>1 DEF Switched
<1> QED BY <1>1, <1>2, <1>4, <1>5 DEF Anc

\* dcrd switches to another branch.
LEMMA FitsSwitched ==
    ASSUME NEW q, NEW p, NEW top \in Block, NEW b \in Block, Fork(top, b), Switched(q, p, top, b),
           NEW v \in Block, NEW i \in 0 .. Len(q), Fits(v, q, i, top)
    PROVE  Fits(v, p, i, b)
<1>0. i \in Nat
  OBVIOUS
<1>1. /\ Len(q) \in Nat /\ Len(p) \in Nat /\ Len(q) < Len(p) /\ Prefix(q, p) /\ i \in Nat
      /\ p[Len(p)].type = "reorg" /\ Anc(p[Len(p)]) \in Block /\ OnChain(Anc(p[Len(p)]), top)
      /\ \A j \in Len(q) + 1 .. Len(p) : p[j].type = "reorg" => j = Len(p)
  BY <1>0, SwitchedFacts
<1>2. ASSUME NEW j \in i + 1 .. Len(p), First(p, i, j)
      PROVE  Comparable(v, Anc(p[j]))
  <2>1. CASE j \in i + 1 .. Len(q)
    <3>1. First(q, i, j) /\ p[j] = q[j]
      BY <1>1, <1>2, <2>1, FirstGrown
    <3> QED BY <2>1, <3>1 DEF Fits
  <2>2. CASE j \in Len(q) + 1 .. Len(p)
    <3>1. j = Len(p)
      BY <1>1, <1>2, <2>2 DEF First
    <3>2. \A k \in i + 1 .. Len(q) : k \in i + 1 .. j - 1 /\ p[k] = q[k]
      <4>1. \A k \in i + 1 .. Len(q) : k \in i + 1 .. j - 1
        BY <1>1, <2>2
      <4>2. \A k \in i + 1 .. Len(q) : p[k] = q[k]
        BY <1>1, FirstGrown
      <4> QED BY <4>1, <4>2
    <3>3. \A k \in i + 1 .. Len(q) : q[k].type # "reorg"
      BY <1>2, <3>2 DEF First
    <3>4. OnChain(v, top)
      BY <3>3 DEF Fits
    <3> QED BY <1>1, <3>1, <3>4, ComparableFacts
  <2>3. j \in i + 1 .. Len(q) \/ j \in Len(q) + 1 .. Len(p)
    BY <1>1
  <2> QED BY <2>1, <2>2, <2>3
<1>3. Len(p) \in i + 1 .. Len(p)
  BY <1>1
<1> QED BY <1>1, <1>2, <1>3 DEF Fits

\* The messages of the reorganisation fit too.
LEMMA FitsNotified ==
    ASSUME NEW q, NEW p, NEW top \in Block, NEW b \in Block, Fork(top, b), Switched(q, p, top, b),
           NEW i \in Len(q) + 1 .. Len(p)
    PROVE  Fits(Target(p[i]), p, i, b)
<1>1. /\ Len(q) \in Nat /\ Len(p) \in Nat /\ Len(q) < Len(p) /\ Prefix(q, p)
      /\ p[Len(p)].type = "reorg" /\ p[Len(p)].new = b
      /\ Anc(p[Len(p)]) \in Block /\ OnChain(Anc(p[Len(p)]), b)
      /\ \A j \in Len(q) + 1 .. Len(p) : p[j].type = "reorg" => j = Len(p)
  BY SwitchedFacts
<1>2. CASE i = Len(p)
  <2>1. Target(p[i]) = b /\ i + 1 .. Len(p) = {}
    BY <1>1, <1>2 DEF Target
  <2> QED BY <2>1, OnChainFacts DEF Fits
<1>3. CASE i # Len(p)
  <2>1. i \in Len(q) + 1 .. Len(p) - 1 /\ i \in 1 .. Len(p)
    BY <1>1, <1>3
  <2>2. p[i].type = "block" /\ OnChain(p[i].block, b) /\ p[i] \in Message
    BY <1>1, <2>1 DEF Switched, Prefix
  <2>3. Target(p[i]) = p[i].block /\ p[i].block \in Block
    BY <2>2, MessageFacts DEF Target
  <2>4. ASSUME NEW j \in i + 1 .. Len(p), First(p, i, j)
        PROVE  Comparable(p[i].block, Anc(p[j]))
    <3>1. j \in Len(q) + 1 .. Len(p)
      BY <1>1, <2>1
    <3>2. j = Len(p)
      BY <1>1, <2>4, <3>1 DEF First
    <3> QED BY <1>1, <2>2, <2>3, <3>2, ComparableFacts
  <2>5. Len(p) \in i + 1 .. Len(p)
    BY <1>1, <2>1
  <2> QED BY <1>1, <2>3, <2>4, <2>5 DEF Fits
<1> QED BY <1>2, <1>3

-----------------------------------------------------------------------------
(* Queues without a gap.                                                   *)

\* The next reorganisation stays the next one.
LEMMA SwitchesFacts ==
    ASSUME NEW q, Queue(q), NEW t
    PROVE  /\ \A p : \A i \in Nat : Prefix(q, p) /\ Switches(t, q, i) => Switches(t, p, i)
           /\ \A i \in 1 .. Len(q) : q # <<>> /\ Switches(t, q, i) => Switches(t, Tail(q), i - 1)
           /\ q # <<>> /\ q[1].type # "reorg" /\ Switches(t, q, 0) => Switches(t, Tail(q), 0)
           /\ q # <<>> /\ q[1].type = "reorg" /\ Switches(t, q, 0) => q[1].old = t
<1>1. ASSUME NEW p, NEW i \in Nat, Prefix(q, p), Switches(t, q, i)
      PROVE  Switches(t, p, i)
  <2>1. PICK j \in i + 1 .. Len(q) : First(q, i, j) /\ q[j].old = t
    BY <1>1 DEF Switches
  <2>2. j \in i + 1 .. Len(p) /\ First(p, i, j) /\ p[j] = q[j]
    BY <1>1, <2>1, FirstGrown
  <2> QED BY <2>1, <2>2 DEF Switches
<1>2. ASSUME NEW i \in 1 .. Len(q), q # <<>>, Switches(t, q, i)
      PROVE  Switches(t, Tail(q), i - 1)
  <2>1. PICK j \in i + 1 .. Len(q) : First(q, i, j) /\ q[j].old = t
    BY <1>2 DEF Switches
  <2>2. Len(q) \in Nat /\ Len(Tail(q)) = Len(q) - 1
    BY <1>2, TailFacts
  <2>3. j - 1 \in i .. Len(q) - 1 /\ (j - 1) + 1 = j /\ j - 1 \in (i - 1) + 1 .. Len(Tail(q))
    BY <2>2
  <2>4. First(Tail(q), i - 1, j - 1) /\ Tail(q)[j - 1] = q[j]
    BY <1>2, <2>1, <2>3, FirstTail
  <2> QED BY <2>1, <2>3, <2>4 DEF Switches
<1>3. ASSUME q # <<>>, q[1].type # "reorg", Switches(t, q, 0)
      PROVE  Switches(t, Tail(q), 0)
  <2>1. PICK j \in 0 + 1 .. Len(q) : First(q, 0, j) /\ q[j].old = t
    BY <1>3 DEF Switches
  <2>2. Len(q) \in Nat \ {0}
    BY <1>3, TailFacts
  <2>3. j # 1
    BY <1>3, <2>1 DEF First
  <2>4. j \in 1 + 1 .. Len(q) /\ \A k \in 1 + 1 .. j - 1 : k \in 0 + 1 .. j - 1
    BY <2>2, <2>3
  <2>5. Switches(t, q, 1)
    BY <2>1, <2>4 DEF Switches, First
  <2>6. Switches(t, Tail(q), 1 - 1)
    BY <1>2, <1>3, <2>2, <2>5
  <2> QED BY <2>6
<1>4. ASSUME q # <<>>, q[1].type = "reorg", Switches(t, q, 0)
      PROVE  q[1].old = t
  <2>1. PICK j \in 0 + 1 .. Len(q) : First(q, 0, j) /\ q[j].old = t
    BY <1>4 DEF Switches
  <2>2. Len(q) \in Nat \ {0}
    BY <1>4, TailFacts
  <2>3. j = 1
    <3>1. j # 1 => 1 \in 0 + 1 .. j - 1
      BY <2>2
    <3> QED BY <1>4, <2>1, <3>1 DEF First
  <2> QED BY <2>1, <2>3
<1> QED BY <1>1, <1>2, <1>3, <1>4

\* Taking the first message leaves what comes later.
LEMMA ContinuesTail ==
    ASSUME NEW q, Queue(q), q # <<>>, NEW i \in 1 .. Len(q), NEW v \in Block, NEW top,
           Continues(v, q, i, top)
    PROVE  Continues(v, Tail(q), i - 1, top)
<1>1. PICK t \in Block : GoesOn(v, q, i, top, t)
  BY DEF Continues
<1> DEFINE T == Tail(q)
           e == Height(t) - Height(v)
<1>2. Height(v) \in Nat /\ Height(t) \in Nat /\ Height(v) <= Height(t) /\ e \in Nat
  BY <1>1, HeightFacts DEF GoesOn, OnChain
<1>3. /\ Len(q) \in Nat \ {0} /\ Len(T) = Len(q) - 1 /\ i \in Nat /\ i >= 1
      /\ \A k \in 1 .. Len(q) - 1 : T[k] = q[k + 1]
  BY TailFacts
<1> HIDE DEF T
<1>4. /\ i + e <= Len(q) /\ \A k \in 1 .. e : q[i + k] = NewBlock(BlockAt(t, Height(v) + k))
      /\ (i + e = Len(q) /\ t = top) \/ Switches(t, q, i + e)
  BY <1>1 DEF GoesOn
<1> HIDE DEF e
<1>5. (i - 1) + e <= Len(T) /\ i + e \in 1 .. Len(q) /\ (i + e) - 1 = (i - 1) + e
  BY <1>2, <1>3, <1>4
<1>6. ASSUME NEW k \in 1 .. e
      PROVE  T[(i - 1) + k] = NewBlock(BlockAt(t, Height(v) + k))
  <2>1. (i - 1) + k \in 1 .. Len(q) - 1 /\ ((i - 1) + k) + 1 = i + k
    BY <1>2, <1>3, <1>4
  <2>2. T[(i - 1) + k] = q[i + k]
    BY <1>3, <2>1
  <2> QED BY <1>4, <2>2
<1>7. ((i - 1) + e = Len(T) /\ t = top) \/ Switches(t, T, (i - 1) + e)
  <2>1. CASE i + e = Len(q) /\ t = top
    <3>1. (i + e) - 1 = Len(T)
      BY <1>3, <2>1, Zenon
    <3> QED BY <1>5, <2>1, <3>1, Zenon
  <2>2. CASE Switches(t, q, i + e)
    <3>1. Switches(t, T, (i + e) - 1)
      BY <1>5, <2>2, SwitchesFacts DEF T
    <3> QED BY <1>5, <3>1
  <2> QED BY <1>4, <2>1, <2>2
<1>8. OnChain(v, t)
  BY <1>1 DEF GoesOn
<1>9. GoesOn(v, T, i - 1, top, t)
  BY <1>5, <1>6, <1>7, <1>8 DEF GoesOn, e
<1> QED BY <1>9 DEF Continues, T

\* A first block goes on from v, or a reorganisation from v is under way.
LEMMA ContinuesStep ==
    ASSUME NEW q, Queue(q), q # <<>>, q[1].type = "block", NEW v \in Block, NEW top \in Block,
           Continues(v, q, 0, top)
    PROVE  \/ /\ q[1].block \in Block \ {Genesis} /\ Parent[q[1].block] = v
              /\ Continues(q[1].block, Tail(q), 0, top)
           \/ Switches(v, q, 0)
<1>1. PICK t \in Block : GoesOn(v, q, 0, top, t)
  BY DEF Continues
<1> DEFINE T == Tail(q)
           e == Height(t) - Height(v)
           c == BlockAt(t, Height(v) + 1)
<1>2. Height(v) \in Nat /\ Height(t) \in Nat /\ Height(v) <= Height(t) /\ e \in Nat /\ OnChain(v, t)
  BY <1>1, HeightFacts DEF GoesOn, OnChain
<1>3. /\ Len(q) \in Nat \ {0} /\ Len(T) = Len(q) - 1
      /\ \A k \in 1 .. Len(q) - 1 : T[k] = q[k + 1]
  BY TailFacts
<1> HIDE DEF T
<1>4. /\ 0 + e <= Len(q) /\ \A k \in 1 .. e : q[0 + k] = NewBlock(BlockAt(t, Height(v) + k))
      /\ (0 + e = Len(q) /\ t = top) \/ Switches(t, q, 0 + e)
  BY <1>1 DEF GoesOn
<1>5. CASE e = 0
  <2>1. t = v
    BY <1>2, <1>5, OnChainFacts
  <2>2. Switches(t, q, 0)
    BY <1>3, <1>4, <1>5
  <2> QED BY <2>1, <2>2
<1>6. CASE e # 0
  <2>1. Height(v) + 1 \in 0 .. Height(t) /\ Height(v) \in 0 .. Height(v) + 1 /\ 1 \in 1 .. e
    BY <1>2, <1>6
  <2>2. /\ c \in Block /\ Height(c) = Height(v) + 1
        /\ \A k \in 0 .. Height(v) + 1 : BlockAt(c, k) = BlockAt(t, k)
    BY <2>1, BlockAtFacts
  <2>3. q[0 + 1] = NewBlock(c)
    BY <1>4, <2>1
  <2>4. q[1].block = c
    BY <2>3 DEF NewBlock
  <2>5. OnChain(c, t)
    BY <1>2, <2>1, <2>2 DEF OnChain
  <2>6. OnChain(v, c)
    BY <1>2, <2>1, <2>2 DEF OnChain
  <2> HIDE DEF c
  <2>7. c # Genesis
    BY <1>2, <2>2, HeightFacts
  <2>8. Parent[c] = v
    <3>1. v # c
      BY <1>2, <2>2
    <3>2. OnChain(v, Parent[c]) /\ Parent[c] \in Block /\ Height(c) = Height(Parent[c]) + 1
      BY <2>2, <2>6, <2>7, <3>1, OnChainFacts, HeightFacts
    <3>3. Height(v) >= Height(Parent[c])
      BY <1>2, <2>2, <3>2, HeightFacts
    <3> QED BY <3>2, <3>3, OnChainFacts
  <2>9. Height(t) - Height(c) = e - 1 /\ e - 1 \in Nat
    BY <1>2, <1>6, <2>2
  <2> DEFINE f == e - 1
  <2> HIDE DEF e
  <2>10. 0 + f <= Len(T) /\ 0 + e \in 1 .. Len(q) /\ (0 + e) - 1 = 0 + f
    BY <1>2, <1>3, <1>4, <1>6
  <2>11. ASSUME NEW k \in 1 .. f
         PROVE  T[0 + k] = NewBlock(BlockAt(t, Height(c) + k))
    <3>1. k \in 1 .. Len(q) - 1 /\ k + 1 \in 1 .. e /\ Height(v) + (k + 1) = Height(c) + k
          /\ 0 + (k + 1) = k + 1 /\ 0 + k = k
      <4>1. k \in Nat /\ k >= 1 /\ k <= e - 1 /\ e \in Nat /\ e <= Len(q) /\ Len(q) \in Nat
        BY <1>2, <1>3, <1>4, <2>9
      <4>2. Height(c) = Height(v) + 1 /\ Height(v) \in Nat
        BY <1>2, <2>2
      <4>3. k \in 1 .. Len(q) - 1 /\ k + 1 \in 1 .. e /\ 0 + (k + 1) = k + 1 /\ 0 + k = k
        BY <4>1
      <4> QED BY <4>1, <4>2, <4>3
    <3>2. T[k] = q[k + 1]
      BY <1>3, <3>1
    <3>3. q[0 + (k + 1)] = NewBlock(BlockAt(t, Height(v) + (k + 1)))
      BY <1>4, <3>1
    <3> QED BY <3>1, <3>2, <3>3
  <2>12. (0 + f = Len(T) /\ t = top) \/ Switches(t, T, 0 + f)
    <3>1. CASE 0 + e = Len(q) /\ t = top
      BY <1>2, <1>3, <3>1
    <3>2. CASE Switches(t, q, 0 + e)
      <4>1. Switches(t, T, (0 + e) - 1)
        BY <2>10, <3>2, SwitchesFacts DEF T
      <4> QED BY <2>10, <4>1
    <3> QED BY <1>4, <3>1, <3>2
  <2>13. Height(t) - Height(c) = f
    BY <2>9
  <2> HIDE DEF f
  <2>14. GoesOn(c, T, 0, top, t)
    BY <2>5, <2>10, <2>11, <2>12, <2>13 DEF GoesOn
  <2> QED BY <2>2, <2>4, <2>7, <2>8, <2>14 DEF Continues, T
<1> QED BY <1>5, <1>6

\* dcrd notifies the next block.
LEMMA ContinuesExtended ==
    ASSUME NEW q, NEW p, Queue(q), NEW top \in Block, NEW b \in Block \ {Genesis}, Parent[b] = top,
           Extended(q, p, b), NEW v \in Block, NEW i \in 0 .. Len(q), Continues(v, q, i, top)
    PROVE  Continues(v, p, i, b)
<1>1. PICK t \in Block : GoesOn(v, q, i, top, t)
  BY DEF Continues
<1> DEFINE e == Height(t) - Height(v)
<1>2. Height(v) \in Nat /\ Height(t) \in Nat /\ Height(v) <= Height(t) /\ e \in Nat /\ OnChain(v, t)
  BY <1>1, HeightFacts DEF GoesOn, OnChain
<1>3. /\ i + e <= Len(q) /\ \A k \in 1 .. e : q[i + k] = NewBlock(BlockAt(t, Height(v) + k))
      /\ (i + e = Len(q) /\ t = top) \/ Switches(t, q, i + e)
  BY <1>1 DEF GoesOn
<1>4. /\ Len(q) \in Nat /\ Len(p) = Len(q) + 1 /\ i \in Nat /\ Prefix(q, p)
      /\ \A k \in 1 .. Len(q) : p[k] = q[k]
      /\ p[Len(p)] = NewBlock(b)
  BY DEF Extended, Prefix
<1> HIDE DEF e
<1>5. ASSUME NEW k \in 1 .. e
      PROVE  p[i + k] = NewBlock(BlockAt(t, Height(v) + k))
  <2>1. i + k \in 1 .. Len(q)
    BY <1>2, <1>3, <1>4
  <2> QED BY <1>3, <1>4, <2>1
<1>6. CASE Switches(t, q, i + e)
  <2>1. i + e \in Nat /\ i + e <= Len(p)
    BY <1>2, <1>3, <1>4
  <2>2. Switches(t, p, i + e)
    BY <1>4, <1>6, <2>1, SwitchesFacts
  <2>3. GoesOn(v, p, i, b, t)
    BY <1>2, <1>5, <2>1, <2>2 DEF GoesOn, e
  <2> QED BY <2>3 DEF Continues
<1>7. CASE i + e = Len(q) /\ t = top
  <2>1. Height(b) = Height(t) + 1 /\ OnChain(v, b) /\ Height(b) - Height(v) = e + 1
    <3>1. Height(b) = Height(t) + 1
      BY <1>7, HeightFacts
    <3>2. OnChain(v, b)
      BY <1>2, <1>7, OnChainFacts
    <3> QED BY <1>2, <3>1, <3>2 DEF e
  <2>2. i + (e + 1) = Len(p) /\ i + (e + 1) <= Len(p)
    BY <1>2, <1>4, <1>7
  <2>3. ASSUME NEW k \in 1 .. e + 1
        PROVE  p[i + k] = NewBlock(BlockAt(b, Height(v) + k))
    <3>1. CASE k \in 1 .. e
      <4>1. Height(v) + k \in 0 .. Height(b) - 1
        BY <1>2, <2>1, <3>1
      <4>2. BlockAt(b, Height(v) + k) = BlockAt(t, Height(v) + k)
        BY <1>7, <4>1, BlockAtTop
      <4> QED BY <1>5, <3>1, <4>2
    <3>2. CASE k = e + 1
      <4>1. Height(v) + k = Height(b) /\ i + k = Len(p)
        BY <1>2, <2>1, <2>2, <3>2
      <4> QED BY <1>4, <4>1, BlockAtTop
    <3>3. k \in 1 .. e \/ k = e + 1
      BY <1>2
    <3> QED BY <3>1, <3>2, <3>3
  <2>4. GoesOn(v, p, i, b, b)
    BY <2>1, <2>2, <2>3 DEF GoesOn
  <2> QED BY <2>4 DEF Continues
<1> QED BY <1>3, <1>6, <1>7

\* dcrd notifies a reorganisation.
LEMMA ContinuesSwitched ==
    ASSUME NEW q, NEW p, Queue(q), NEW top \in Block, NEW b \in Block, Fork(top, b),
           Switched(q, p, top, b), NEW v \in Block, NEW i \in 0 .. Len(q), Continues(v, q, i, top)
    PROVE  Continues(v, p, i, b)
<1>1. PICK t \in Block : GoesOn(v, q, i, top, t)
  BY DEF Continues
<1> DEFINE e == Height(t) - Height(v)
<1>2. Height(v) \in Nat /\ Height(t) \in Nat /\ Height(v) <= Height(t) /\ e \in Nat /\ OnChain(v, t)
  BY <1>1, HeightFacts DEF GoesOn, OnChain
<1>3. /\ i + e <= Len(q) /\ \A k \in 1 .. e : q[i + k] = NewBlock(BlockAt(t, Height(v) + k))
      /\ (i + e = Len(q) /\ t = top) \/ Switches(t, q, i + e)
  BY <1>1 DEF GoesOn
<1>4. /\ Len(q) \in Nat /\ Len(p) \in Nat /\ Len(q) < Len(p) /\ Prefix(q, p)
      /\ p[Len(p)].type = "reorg" /\ p[Len(p)].old = top
      /\ \A j \in Len(q) + 1 .. Len(p) : p[j].type = "reorg" => j = Len(p)
  BY SwitchedFacts
<1>5. i \in Nat /\ \A k \in 1 .. Len(q) : p[k] = q[k]
  BY <1>4 DEF Prefix
<1> HIDE DEF e
<1>6. ASSUME NEW k \in 1 .. e
      PROVE  p[i + k] = NewBlock(BlockAt(t, Height(v) + k))
  <2>1. i + k \in 1 .. Len(q)
    BY <1>2, <1>3, <1>4, <1>5
  <2> QED BY <1>3, <1>5, <2>1
<1>7. Switches(t, p, i + e)
  <2>1. CASE Switches(t, q, i + e)
    <3>1. i + e \in Nat
      BY <1>2, <1>5
    <3> QED BY <1>4, <2>1, <3>1, SwitchesFacts
  <2>2. CASE i + e = Len(q) /\ t = top
    <3>1. Len(p) \in Len(q) + 1 .. Len(p)
      BY <1>4
    <3>2. \A k \in Len(q) + 1 .. Len(p) - 1 : k \in Len(q) + 1 .. Len(p) /\ k # Len(p)
      BY <1>4
    <3>3. First(p, Len(q), Len(p))
      BY <1>4, <3>2 DEF First
    <3> QED BY <1>4, <2>2, <3>1, <3>3 DEF Switches
  <2> QED BY <1>3, <2>1, <2>2
<1>8. i + e <= Len(p)
  BY <1>2, <1>3, <1>4, <1>5
<1>9. GoesOn(v, p, i, b, t)
  BY <1>2, <1>6, <1>7, <1>8 DEF GoesOn, e
<1> QED BY <1>9 DEF Continues

\* The end of a queue goes on from dcrd's best block.
LEMMA ContinuesEnd ==
    ASSUME NEW q, Queue(q), NEW b \in Block
    PROVE  Continues(b, q, Len(q), b)
<1>1. Height(b) \in Nat /\ Len(q) \in Nat /\ OnChain(b, b)
  BY HeightFacts, OnChainFacts DEF Queue
<1>2. Height(b) - Height(b) = 0 /\ Len(q) + 0 = Len(q)
  BY <1>1
<1>3. 1 .. 0 = {}
  OBVIOUS
<1>4. GoesOn(b, q, Len(q), b, b)
  BY <1>1, <1>2, <1>3 DEF GoesOn
<1> QED BY <1>4 DEF Continues

\* At a reorganisation the one who waits is at or above the block it leaves.
LEMMA WaitsForReorg ==
    ASSUME NEW q, Queue(q), q # <<>>, q[1].type = "reorg", NEW x \in Block, NEW top \in Block,
           Waits(x, q, top)
    PROVE  OnChain(q[1].old, x)
<1>1. ASSUME NEW t \in Block, GoesOn(x, q, 0, top, t)
      PROVE  OnChain(q[1].old, x)
  <2> DEFINE e == Height(t) - Height(x)
  <2>1. Height(x) \in Nat /\ Height(t) \in Nat /\ Height(x) <= Height(t) /\ e \in Nat /\ OnChain(x, t)
    BY <1>1, HeightFacts DEF GoesOn, OnChain
  <2>2. /\ \A k \in 1 .. e : q[0 + k] = NewBlock(BlockAt(t, Height(x) + k))
        /\ (0 + e = Len(q) /\ t = top) \/ Switches(t, q, 0 + e)
    BY <1>1 DEF GoesOn
  <2>3. Len(q) \in Nat \ {0}
    BY TailFacts
  <2> HIDE DEF e
  <2>4. e = 0
    <3>1. CASE e # 0
      <4>1. 1 \in 1 .. e /\ 0 + 1 = 1
        BY <2>1, <3>1
      <4>2. q[1] = NewBlock(BlockAt(t, Height(x) + 1))
        BY <2>2, <4>1
      <4> QED BY <4>2 DEF NewBlock
    <3> QED BY <3>1
  <2>5. t = x
    BY <2>1, <2>4, OnChainFacts DEF e
  <2>6. Switches(x, q, 0)
    BY <2>2, <2>3, <2>4, <2>5
  <2>7. q[1].old = x
    BY <2>6, SwitchesFacts
  <2> QED BY <2>7, OnChainFacts
<1>2. ASSUME NEW t \in Block, OnChain(t, x), Switches(t, q, 0)
      PROVE  OnChain(q[1].old, x)
  BY <1>2, SwitchesFacts
<1> QED BY <1>1, <1>2 DEF Waits, Continues, Switching

\* Who is above a block that a reorganisation leaves stays above it.
LEMMA SwitchingFacts ==
    ASSUME NEW q, Queue(q), NEW x \in Block, Switching(x, q)
    PROVE  /\ \A y \in Block : OnChain(x, y) => Switching(y, q)
           /\ \A p : Prefix(q, p) => Switching(x, p)
           /\ q # <<>> /\ q[1].type # "reorg" => Switching(x, Tail(q))
           /\ q # <<>>
<1>1. PICK t \in Block : OnChain(t, x) /\ Switches(t, q, 0)
  BY DEF Switching
<1>2. \A y \in Block : OnChain(x, y) => Switching(y, q)
  BY <1>1, OnChainFacts DEF Switching
<1>3. \A p : Prefix(q, p) => Switching(x, p)
  BY <1>1, SwitchesFacts DEF Switching
<1>4. q # <<>> /\ q[1].type # "reorg" => Switching(x, Tail(q))
  BY <1>1, SwitchesFacts DEF Switching
<1>5. q # <<>>
  <2>1. PICK j \in 0 + 1 .. Len(q) : First(q, 0, j)
    BY <1>1 DEF Switches
  <2>2. Len(<<>>) = 0
    OBVIOUS
  <2> QED BY <2>1, <2>2
<1> QED BY <1>2, <1>3, <1>4, <1>5
-----------------------------------------------------------------------------
(* The pipeline, where the replay makes good what fails.                   *)

\* The faults of these scenarios.
LEMMA ReplayFacts ==
    ASSUME Replayable
    PROVE  /\ \A f \in {"store", "disk", "lostReorg", "deadline", "reorgDeadline", "ancestor", "reorg",
                        "moves"} : ~May(f)
           /\ Faultless => \A f : ~May(f)
           /\ ~Faultless => NestedForks
  BY DEF Replayable, May, Faultless

\* A child on a chain, and what the chain of a block is made of.
LEMMA ChildFacts ==
    ASSUME NEW p \in Block, NEW c \in Block, OnChain(p, c), Height(c) = Height(p) + 1
    PROVE  c # Genesis /\ Parent[c] = p
<1>1. Height(p) \in Nat
  BY HeightFacts
<1>2. c # Genesis /\ c # p
  BY <1>1, HeightFacts
<1>3. Parent[c] \in Block /\ Height(Parent[c]) = Height(p) /\ OnChain(p, Parent[c])
  <2>1. Parent[c] \in Block /\ Height(c) = Height(Parent[c]) + 1 /\ Height(Parent[c]) \in Nat
    BY <1>2, HeightFacts
  <2> QED BY <1>1, <1>2, <2>1, OnChainFacts
<1> QED BY <1>1, <1>2, <1>3, OnChainFacts

LEMMA ChainBlocks ==
    /\ \A b \in Block \ {Genesis} :
          BlocksOf(b) = BlocksOf(Parent[b]) \cup {b} /\ {b, Parent[b]} \subseteq BlocksOf(b)
    /\ \A a, b \in Block : OnChain(a, b) => BlocksOf(a) \subseteq BlocksOf(b) /\ a \in BlocksOf(b)
    /\ BlocksOf(Genesis) = {Genesis}
<1>1. ASSUME NEW b \in Block \ {Genesis}
      PROVE  BlocksOf(b) = BlocksOf(Parent[b]) \cup {b} /\ {b, Parent[b]} \subseteq BlocksOf(b)
  <2>1. Parent[b] \in Block
    BY HeightFacts
  <2>2. BlocksOf(b) = {a \in Block : OnChain(a, b)} /\ BlocksOf(Parent[b]) = {a \in Block : OnChain(a, Parent[b])}
    BY <2>1, BlocksOfFacts
  <2>3. /\ \A a \in Block : OnChain(a, b) <=> a = b \/ OnChain(a, Parent[b])
        /\ OnChain(Parent[b], Parent[b])
    BY <2>1, OnChainFacts
  <2> QED BY <2>1, <2>2, <2>3
<1>2. ASSUME NEW a \in Block, NEW b \in Block, OnChain(a, b)
      PROVE  BlocksOf(a) \subseteq BlocksOf(b) /\ a \in BlocksOf(b)
  BY <1>2, BlocksOfFacts, OnChainFacts
<1>3. BlocksOf(Genesis) = {Genesis}
  <2>1. \A a \in Block : OnChain(a, Genesis) => a = Genesis
    <3>1. \A a \in Block : Height(a) >= Height(Genesis)
      BY HeightFacts
    <3> QED BY <3>1, OnChainFacts, GenesisAssumption
  <2> QED BY <2>1, BlocksOfFacts, OnChainFacts, GenesisAssumption
<1> QED BY <1>1, <1>2, <1>3

\* Below genesis there is nothing.
LEMMA OnlyGenesis == \A a \in Block : OnChain(a, Genesis) => a = Genesis
  BY ChainBlocks, BlocksOfFacts, GenesisAssumption

\* At the start.
LEMMA InitPipeline == Init => PipelineInv
<1> SUFFICES ASSUME Init
             PROVE  PipelineOK
  BY DEF PipelineInv
<1>1. /\ best = Genesis /\ anyQ = <<>> /\ previous = Genesis /\ task = Idle /\ late = Idle
      /\ stakeTip = Genesis /\ poolInfo = {Genesis} /\ bestBlock = Genesis /\ overdue = {}
      /\ rows = [b \in Block |-> IF b = Genesis THEN "main" ELSE "absent"]
  BY DEF Init
<1>2. task.kind = "idle" /\ Genesis \in Block /\ OnChain(Genesis, Genesis) /\ Len(anyQ) = 0
  BY <1>1, OnChainFacts, GenesisAssumption DEF Idle
<1>3. MainRows = {Genesis}
  BY <1>1, <1>2 DEF MainRows
<1>4. TipsAgree
  <2>1. Height(Genesis) <= Height(Genesis) + 1
    BY HeightFacts
  <2>2. RowsTip = Genesis
    BY <1>1, <1>2 DEF RowsTip
  <2>3. stakeSaved = TRUE
    BY DEF Init
  <2> QED BY <1>1, <1>2, <1>3, <2>1, <2>2, <2>3, ChainBlocks DEF TipsAgree, InStep
<1>5. CaughtUp
  BY <1>1, <1>2 DEF CaughtUp
<1>6. QueueNested /\ TaskNested
  <2>1. Genesis \notin DeepBranch
    BY NestedForksAssumption
  <2>2. Fits(Genesis, anyQ, 0, Genesis)
    BY <1>2 DEF Fits
  <2> QED BY <1>1, <1>2, <2>1, <2>2 DEF QueueNested, TaskNested
<1>7. QueueGapless /\ TaskGapless
  <2>1. Queue(anyQ)
    BY <1>1 DEF Queue
  <2>2. Continues(Genesis, anyQ, 0, Genesis)
    BY <1>2, <2>1, ContinuesEnd
  <2> QED BY <1>1, <1>2, <2>2 DEF QueueGapless, TaskGapless, Waits
<1> QED BY <1>4, <1>5, <1>6, <1>7 DEF PipelineOK

\* What does not depend on the handlers.
LEMMA SameQueue ==
    ASSUME UNCHANGED <<best, anyQ, scenario>>
    PROVE  /\ QueueNested => QueueNested'
           /\ QueueGapless => QueueGapless'
           /\ Faultless' <=> Faultless
<1>1. QueueNested => QueueNested'
  BY DEF QueueNested, Nested
<1>2. QueueGapless => QueueGapless'
  BY DEF QueueGapless
<1> QED BY <1>1, <1>2 DEF Faultless

\* Steps that touch none of it.
LEMMA SamePipeline ==
    ASSUME PipelineOK,
           UNCHANGED <<best, anyQ, previous, task, late, stakeTip, stakeSaved, poolInfo, rows,
                       bestBlock, overdue, clean, told, scenario>>
    PROVE  PipelineOK'
<1>1. TipsAgree'
  <2>1. ReorgInv(task.tips) => ReorgInv(task.tips)'
    BY DEF ReorgInv, Reachable, Faultless
  <2> QED BY <2>1 DEF PipelineOK, TipsAgree, InStep, MainRows, RowsTip
<1>2. CaughtUp'
  BY DEF PipelineOK, CaughtUp
<1>3. TaskNested => TaskNested'
  BY DEF TaskNested, Nested
<1>4. TaskGapless => TaskGapless'
  BY DEF TaskGapless
<1> QED BY <1>1, <1>2, <1>3, <1>4, SameQueue DEF PipelineOK
-----------------------------------------------------------------------------
(* The handlers of a block.                                                *)

\* What holds while the handlers of a block run.
LEMMA RunPipeline ==
    ASSUME NotifierInv, PipelineOK, task.kind = "run"
    PROVE  /\ task \in RunTasks /\ task.blk \in Block \ {Genesis} /\ task.bh \in Block
           /\ bestBlock \in Block /\ previous \in Block /\ stakeTip \in Block
           /\ Height(previous) \in Nat /\ Height(bestBlock) \in Nat /\ Height(stakeTip) \in Nat
           /\ OnChain(previous, bestBlock) /\ OnChain(bestBlock, stakeTip)
           /\ Height(stakeTip) <= Height(previous) + 1
           /\ Height(task.blk) = Height(previous) + 1
           /\ Height(previous) <= Height(bestBlock) /\ Height(bestBlock) <= Height(stakeTip)
<1>1. /\ task \in RunTasks /\ task.blk \in Block /\ task.bh \in Block
      /\ bestBlock \in Block /\ previous \in Block /\ stakeTip \in Block
  BY RunFacts DEF NotifierInv, TipsInv, PipelineOK, TipsAgree
<1>2. /\ Height(previous) \in Nat /\ Height(bestBlock) \in Nat /\ Height(stakeTip) \in Nat
      /\ Height(Genesis) = 0
  BY <1>1, HeightFacts
<1>3. /\ OnChain(previous, bestBlock) /\ OnChain(bestBlock, stakeTip)
      /\ Height(stakeTip) <= Height(previous) + 1
      /\ Height(task.blk) = Height(previous) + 1
  BY DEF PipelineOK, TipsAgree, InStep
<1>4. task.blk # Genesis
  BY <1>2, <1>3
<1> QED BY <1>1, <1>2, <1>3, <1>4 DEF OnChain

\* The stake database accepts the next block: its tip again, or a child.
LEMMA AcceptedNext ==
    ASSUME NotifierInv, PipelineOK, task.kind = "run", StakeAccepts(task.blk)
    PROVE  /\ OnChain(stakeTip, task.blk) /\ OnChain(bestBlock, task.blk)
           /\ BlocksOf(task.blk) \subseteq poolInfo \cup {task.blk}
           /\ stakeTip = previous => Parent[task.blk] = previous
<1>1. /\ task.blk \in Block \ {Genesis}
      /\ bestBlock \in Block /\ previous \in Block /\ stakeTip \in Block /\ Height(previous) \in Nat
      /\ OnChain(bestBlock, stakeTip) /\ Height(task.blk) = Height(previous) + 1
  BY RunPipeline
<1>2. BlocksOf(stakeTip) \subseteq poolInfo
  BY DEF PipelineOK, TipsAgree
<1>3. task.blk = stakeTip \/ Parent[task.blk] = stakeTip
  BY DEF StakeAccepts
<1>4. OnChain(stakeTip, task.blk)
  BY <1>1, <1>3, OnChainFacts
<1>5. BlocksOf(task.blk) \subseteq poolInfo \cup {task.blk}
  BY <1>1, <1>2, <1>3, ChainBlocks
<1>6. stakeTip = previous => task.blk # stakeTip
  BY <1>1
<1> QED BY <1>1, <1>3, <1>4, <1>5, <1>6, OnChainFacts

\* What superQueue is left with after a failure: nothing.
LEMMA FailedTips ==
    ASSUME PipelineOK, task.kind = "run", task' = Idle, clean' = FALSE,
           UNCHANGED <<best, anyQ, previous, late, overdue, told, scenario>>,
           stakeSaved' = TRUE, bestBlock' \in Block, MainRows' = BlocksOf(bestBlock'),
           BlocksOf(stakeTip') \subseteq poolInfo', InStep'
    PROVE  TipsAgree' /\ CaughtUp'
<1>1. task'.kind = "idle"
  BY DEF Idle
<1>2. TipsAgree'
  BY <1>1 DEF PipelineOK, TipsAgree, RowsTip
<1>3. CaughtUp'
  BY <1>1 DEF PipelineOK, CaughtUp
<1> QED BY <1>2, <1>3

\* The stake database connects the block, or its handler fails.
LEMMA StakeConnectBlockPipeline ==
    ASSUME NotifierInv, Replayable, PipelineOK, stakeConnectBlock
    PROVE  PipelineOK'
<1>1. /\ UNCHANGED <<best, anyQ, rows, bestBlock, overdue, told, late, scenario, previous>>
      /\ task.kind = "run" /\ task.group = "stake"
  BY DEF stakeConnectBlock, Running, node, chainDB, HandlersFail
<1>2. /\ task \in RunTasks /\ task.blk \in Block \ {Genesis} /\ task.bh \in Block
      /\ bestBlock \in Block /\ previous \in Block /\ stakeTip \in Block
      /\ Height(previous) \in Nat /\ Height(bestBlock) \in Nat /\ Height(stakeTip) \in Nat
      /\ OnChain(previous, bestBlock) /\ OnChain(bestBlock, stakeTip)
      /\ Height(stakeTip) <= Height(previous) + 1 /\ Height(task.blk) = Height(previous) + 1
  BY <1>1, RunPipeline
<1>3. (QueueNested => QueueNested') /\ (QueueGapless => QueueGapless') /\ (Faultless' <=> Faultless)
  BY <1>1, SameQueue
<1>4. MainRows' = BlocksOf(bestBlock') /\ stakeSaved = TRUE
  <2>1. RowsTip = bestBlock
    BY <1>1 DEF RowsTip
  <2> QED BY <1>1, <2>1 DEF PipelineOK, TipsAgree, MainRows
<1>5. ASSUME StakeAccepts(task.blk), StakeConnect(task.blk)
      PROVE  /\ stakeTip' = task.blk /\ BlocksOf(stakeTip') \subseteq poolInfo' /\ InStep'
             /\ stakeSaved' = TRUE
  <2>1. stakeTip' = task.blk /\ poolInfo' = poolInfo \cup {task.blk} /\ stakeSaved' = TRUE
    BY <1>5 DEF StakeConnect
  <2>2. OnChain(bestBlock, task.blk) /\ BlocksOf(task.blk) \subseteq poolInfo \cup {task.blk}
    BY <1>1, <1>5, AcceptedNext
  <2>3. Height(task.blk) <= Height(previous) + 1
    BY <1>2
  <2> QED BY <1>1, <1>2, <2>1, <2>2, <2>3 DEF InStep
<1>6. CASE StakeAccepts(task.blk) /\ StakeConnect(task.blk) /\ task' = [task EXCEPT !.group = "collect"]
           /\ clean' = clean
  <2>1. task'.kind = "run" /\ task'.bh = task.bh /\ task'.blk = task.blk /\ task'.group = "collect"
    BY <1>2, <1>6 DEF RunTasks
  <2>2. /\ stakeTip' = task.blk /\ BlocksOf(stakeTip') \subseteq poolInfo' /\ InStep'
        /\ stakeSaved' = TRUE
    BY <1>5, <1>6
  <2>3. TipsAgree'
    <3>1. RowsTip' = bestBlock'
      BY <2>1 DEF RowsTip
    <3> QED BY <1>1, <1>4, <2>1, <2>2, <3>1 DEF PipelineOK, TipsAgree
  <2>4. CaughtUp'
    BY <1>1, <1>6, <2>1 DEF PipelineOK, CaughtUp
  <2>5. TaskNested => TaskNested'
    BY <1>1, <2>1, <2>2 DEF TaskNested
  <2>6. TaskGapless => TaskGapless'
    <3>1. stakeTip = previous => Parent[task.blk] = previous
      BY <1>1, <1>6, AcceptedNext
    <3> QED BY <1>1, <2>1, <3>1 DEF TaskGapless
  <2> QED BY <1>3, <2>3, <2>4, <2>5, <2>6 DEF PipelineOK
<1>7. CASE May("stake") /\ StakeAccepts(task.blk) /\ StakeConnect(task.blk) /\ HandlersFail
  <2>1. /\ stakeTip' = task.blk /\ BlocksOf(stakeTip') \subseteq poolInfo' /\ InStep'
        /\ stakeSaved' = TRUE
    BY <1>5, <1>7
  <2>2. task' = Idle /\ clean' = FALSE /\ task'.kind = "idle"
    BY <1>7 DEF HandlersFail, Idle
  <2>3. TipsAgree' /\ CaughtUp'
    BY <1>1, <1>2, <1>4, <2>1, <2>2, FailedTips
  <2>4. TaskNested => TaskNested'
    BY <1>1, <2>1, <2>2 DEF TaskNested
  <2>5. ~Faultless
    BY <1>7, ReplayFacts
  <2> QED BY <1>3, <2>3, <2>4, <2>5 DEF PipelineOK
<1>8. CASE (~StakeAccepts(task.blk) \/ May("stake")) /\ HandlersFail /\ UNCHANGED stakeDB
  <2>1. task' = Idle /\ clean' = FALSE /\ task'.kind = "idle" /\ stakeTip' = stakeTip /\ poolInfo' = poolInfo
    BY <1>8 DEF HandlersFail, Idle, stakeDB
  <2>2. BlocksOf(stakeTip') \subseteq poolInfo' /\ InStep' /\ stakeSaved' = TRUE
    BY <1>1, <1>2, <1>4, <1>8, <2>1 DEF PipelineOK, TipsAgree, InStep, stakeDB
  <2>3. TipsAgree' /\ CaughtUp'
    BY <1>1, <1>2, <1>4, <2>1, <2>2, FailedTips
  <2>4. TaskNested => TaskNested'
    BY <1>1, <2>1 DEF TaskNested
  <2>5. Faultless /\ TaskGapless => TaskGapless'
    <3> SUFFICES ASSUME Faultless, TaskGapless
                 PROVE  TaskGapless'
      OBVIOUS
    <3>1. ~StakeAccepts(task.blk)
      BY <1>8, ReplayFacts
    <3>2. stakeTip = previous /\ bestBlock = previous /\ Switching(previous, anyQ)
      BY <1>1, <1>2, <3>1 DEF TaskGapless, StakeAccepts
    <3> QED BY <1>1, <2>1, <3>2 DEF TaskGapless, Waits
  <2> QED BY <1>3, <2>3, <2>4, <2>5 DEF PipelineOK
<1>9. \/ /\ StakeAccepts(task.blk) /\ StakeConnect(task.blk) /\ task' = [task EXCEPT !.group = "collect"]
         /\ clean' = clean
      \/ May("stake") /\ StakeAccepts(task.blk) /\ StakeConnect(task.blk) /\ HandlersFail
      \/ (~StakeAccepts(task.blk) \/ May("stake")) /\ HandlersFail /\ UNCHANGED stakeDB
  BY ReplayFacts DEF stakeConnectBlock, StakeConnectUnsaved
<1> QED BY <1>6, <1>7, <1>8, <1>9

\* Taking reorgLock changes nothing that matters here.
LEMMA CollectOncePipeline ==
    ASSUME NotifierInv, PipelineOK, collectOnce
    PROVE  PipelineOK'
<1>1. /\ UNCHANGED <<best, anyQ, previous, stakeTip, stakeSaved, poolInfo, rows, bestBlock, overdue,
                     clean, told, late, scenario>>
      /\ task.kind = "run" /\ task.group = "collect" /\ task' = [task EXCEPT !.group = CollectBy(task.blk)]
  BY DEF collectOnce, Running, node, stakeDB, chainDB
<1>2. /\ task'.kind = "run" /\ task'.bh = task.bh /\ task'.blk = task.blk
      /\ task'.group \in {"best", "hash"}
  <2>1. task \in RunTasks
    BY <1>1, RunPipeline
  <2>2. CollectBy(task.blk) \in {"best", "hash"}
    BY DEF CollectBy
  <2> QED BY <1>1, <2>1, <2>2 DEF RunTasks
<1>3. TipsAgree'
  <2>1. RowsTip = bestBlock /\ RowsTip' = bestBlock'
    BY <1>1, <1>2 DEF RowsTip
  <2> QED BY <1>1, <1>2, <2>1 DEF PipelineOK, TipsAgree, InStep, MainRows
<1>4. CaughtUp'
  BY <1>1, <1>2 DEF PipelineOK, CaughtUp
<1>5. TaskNested => TaskNested'
  BY <1>1, <1>2 DEF TaskNested
<1>6. TaskGapless => TaskGapless'
  BY <1>1, <1>2 DEF TaskGapless
<1> QED BY <1>1, <1>3, <1>4, <1>5, <1>6, SameQueue DEF PipelineOK

\* Storing the next block makes the main chain its chain.
LEMMA StoredRows ==
    ASSUME RowsInv, NEW b \in Block \ {Genesis}, NEW c \in {b, Parent[b]}, MainRows = BlocksOf(c),
           NEW d, InsertBlock(b, d)
    PROVE  MainRows' = BlocksOf(b)
<1>1. rows' = [rows EXCEPT ![b] = "main"] /\ rows \in [Block -> {"absent", "main", "side"}]
  BY DEF InsertBlock, RowsInv
<1>2. MainRows' = MainRows \cup {b}
  BY <1>1 DEF MainRows
<1>3. BlocksOf(b) = BlocksOf(Parent[b]) \cup {b} /\ b \in BlocksOf(b)
  BY ChainBlocks
<1> QED BY <1>2, <1>3

\* ChainDB is asked to store a child of its tip, or the tip again.
LEMMA StoresNext ==
    ASSUME NotifierInv, PipelineOK, task.kind = "run", task.group # "stake"
    PROVE  task.blk \in Block \ {Genesis} /\ bestBlock \in {task.blk, Parent[task.blk]}
<1>1. /\ task.blk \in Block \ {Genesis} /\ bestBlock \in Block
      /\ Height(previous) \in Nat /\ Height(bestBlock) \in Nat
      /\ OnChain(bestBlock, stakeTip) /\ Height(task.blk) = Height(previous) + 1
      /\ Height(previous) <= Height(bestBlock) /\ Height(bestBlock) <= Height(stakeTip)
  BY RunPipeline
<1>2. stakeTip = task.blk
  BY DEF PipelineOK, TipsAgree
<1>3. CASE Height(bestBlock) = Height(task.blk)
  <2>1. Height(bestBlock) >= Height(task.blk)
    BY <1>1, <1>3
  <2> QED BY <1>1, <1>2, <2>1, OnChainFacts
<1>4. CASE Height(task.blk) = Height(bestBlock) + 1
  BY <1>1, <1>2, <1>4, ChildFacts
<1> QED BY <1>1, <1>2, <1>3, <1>4

\* The row of the block is inserted, or its handlers fail.
LEMMA BlockdataConnectBlockPipeline ==
    ASSUME NotifierInv, Replayable, PipelineOK, blockdataConnectBlock
    PROVE  PipelineOK'
<1>1. /\ UNCHANGED <<best, anyQ, stakeTip, stakeSaved, poolInfo, overdue, told, late, scenario>>
      /\ task.kind = "run" /\ task.group \in {"hash", "best"}
  BY DEF blockdataConnectBlock, Running, Collecting, node, stakeDB
<1>2. /\ task \in RunTasks /\ task.blk \in Block \ {Genesis} /\ task.bh \in Block
      /\ bestBlock \in Block /\ previous \in Block /\ stakeTip \in Block
      /\ Height(previous) \in Nat /\ Height(bestBlock) \in Nat /\ Height(stakeTip) \in Nat
      /\ OnChain(previous, bestBlock) /\ OnChain(bestBlock, stakeTip)
      /\ Height(stakeTip) <= Height(previous) + 1 /\ Height(task.blk) = Height(previous) + 1
      /\ Height(previous) <= Height(bestBlock) /\ Height(bestBlock) <= Height(stakeTip)
  BY <1>1, RunPipeline
<1>3. (QueueNested => QueueNested') /\ (QueueGapless => QueueGapless') /\ (Faultless' <=> Faultless)
  BY <1>1, SameQueue
<1>4. stakeTip = task.blk
  BY <1>1 DEF PipelineOK, TipsAgree
<1>5. /\ BlocksOf(stakeTip) \subseteq poolInfo /\ MainRows = BlocksOf(bestBlock) /\ RowsInv
      /\ stakeSaved' = TRUE
  <2>1. RowsTip = bestBlock
    BY <1>1 DEF RowsTip
  <2> QED BY <1>1, <2>1 DEF PipelineOK, TipsAgree, NotifierInv
<1>6. CanStore(task.blk)
  BY <1>2, <1>4, <1>5, ChainBlocks DEF CanStore
<1>7. bestBlock \in {task.blk, Parent[task.blk]}
  BY <1>1, StoresNext
<1>8. CASE InsertBlock(task.blk, Data(task)) /\ task' = [task EXCEPT !.group = "stored"]
           /\ UNCHANGED <<previous, clean>>
  <2>1. /\ bestBlock' = bestBlock /\ MainRows' = BlocksOf(task.blk) /\ previous' = previous
        /\ clean' = clean
    BY <1>2, <1>5, <1>7, <1>8, StoredRows DEF InsertBlock
  <2>2. /\ task'.kind = "run" /\ task'.bh = task.bh /\ task'.blk = task.blk
        /\ task'.group = "stored"
    BY <1>2, <1>8 DEF RunTasks
  <2>3. TipsAgree'
    <3>1. RowsTip' = task.blk
      BY <2>2 DEF RowsTip
    <3>2. InStep'
      BY <1>1, <1>2, <2>1 DEF InStep
    <3> QED BY <1>1, <1>4, <1>5, <2>1, <2>2, <3>1, <3>2 DEF PipelineOK, TipsAgree
  <2>4. CaughtUp'
    BY <1>1, <2>1, <2>2 DEF PipelineOK, CaughtUp
  <2>5. TaskNested => TaskNested'
    BY <1>1, <2>2 DEF TaskNested
  <2>6. TaskGapless => TaskGapless'
    BY <1>1, <2>1, <2>2 DEF TaskGapless
  <2> QED BY <1>3, <2>3, <2>4, <2>5, <2>6 DEF PipelineOK
<1>9. CASE May("collect") /\ HandlersFail /\ UNCHANGED chainDB
  <2>1. task' = Idle /\ clean' = FALSE /\ previous' = previous /\ bestBlock' = bestBlock /\ rows' = rows
    BY <1>9 DEF HandlersFail, chainDB
  <2>2. InStep' /\ MainRows' = BlocksOf(bestBlock')
    BY <1>1, <1>2, <1>5, <2>1 DEF InStep, MainRows
  <2>3. TipsAgree' /\ CaughtUp'
    BY <1>1, <1>2, <1>5, <2>1, <2>2, FailedTips
  <2>4. TaskNested => TaskNested'
    BY <1>1, <2>1 DEF TaskNested, Idle
  <2>5. ~Faultless
    BY <1>9, ReplayFacts
  <2> QED BY <1>3, <2>3, <2>4, <2>5 DEF PipelineOK
<1> QED BY <1>6, <1>8, <1>9 DEF blockdataConnectBlock

\* bestBlock follows, and the handlers are done or fail.
LEMMA BlockdataBlockStoredPipeline ==
    ASSUME NotifierInv, Replayable, PipelineOK, blockdataBlockStored
    PROVE  PipelineOK'
<1>1. /\ UNCHANGED <<best, anyQ, stakeTip, stakeSaved, poolInfo, overdue, told, late, scenario>>
      /\ task.kind = "run" /\ task.group = "stored"
  BY DEF blockdataBlockStored, Running, node, stakeDB
<1>2. /\ task \in RunTasks /\ task.blk \in Block \ {Genesis} /\ task.bh \in Block
      /\ bestBlock \in Block /\ previous \in Block /\ stakeTip \in Block
      /\ Height(previous) \in Nat /\ Height(bestBlock) \in Nat /\ Height(stakeTip) \in Nat
      /\ OnChain(previous, bestBlock) /\ OnChain(bestBlock, stakeTip)
      /\ Height(stakeTip) <= Height(previous) + 1 /\ Height(task.blk) = Height(previous) + 1
      /\ Height(previous) <= Height(bestBlock) /\ Height(bestBlock) <= Height(stakeTip)
  BY <1>1, RunPipeline
<1>3. (QueueNested => QueueNested') /\ (QueueGapless => QueueGapless') /\ (Faultless' <=> Faultless)
  BY <1>1, SameQueue
<1>4. stakeTip = task.blk
  BY <1>1 DEF PipelineOK, TipsAgree
<1>5. /\ BlocksOf(stakeTip) \subseteq poolInfo /\ MainRows = BlocksOf(task.blk)
      /\ stakeSaved' = TRUE
  <2>1. RowsTip = task.blk
    BY <1>1 DEF RowsTip
  <2> QED BY <1>1, <2>1 DEF PipelineOK, TipsAgree
<1>6. ASSUME SetBestBlock(task.blk)
      PROVE  bestBlock' = task.blk /\ MainRows' = BlocksOf(task.blk)
  BY <1>5, <1>6 DEF SetBestBlock, MainRows
<1>7. CASE SetBestBlock(task.blk) /\ HandlersDone
  <2>1. /\ bestBlock' = task.blk /\ MainRows' = BlocksOf(task.blk) /\ previous' = task.blk
        /\ stakeTip' = task.blk /\ clean' = clean
        /\ task' = IF task.blk = task.bh THEN Idle ELSE CatchUp(task.bh)
    BY <1>1, <1>4, <1>6, <1>7 DEF HandlersDone
  <2>2. \/ task.blk = task.bh /\ task'.kind = "idle"
        \/ /\ task.blk # task.bh /\ task'.kind = "catchup" /\ task'.bh = task.bh
           /\ Height(task.blk) < Height(task.bh)
    BY <1>1, <2>1 DEF Idle, CatchUp, PipelineOK, TipsAgree
  <2>3. TipsAgree'
    <3>1. OnChain(task.blk, task.blk) /\ Height(task.blk) <= Height(task.blk) + 1
      BY <1>2, OnChainFacts
    <3>2. InStep'
      BY <2>1, <3>1 DEF InStep
    <3>3. RowsTip' = task.blk
      BY <2>1, <2>2 DEF RowsTip
    <3> QED BY <1>1, <1>2, <1>4, <1>5, <2>1, <2>2, <3>2, <3>3 DEF PipelineOK, TipsAgree
  <2>4. CaughtUp'
    BY <1>1, <2>1, <2>2 DEF PipelineOK, CaughtUp
  <2>5. TaskNested => TaskNested'
    BY <1>1, <1>4, <2>2 DEF TaskNested
  <2>6. TaskGapless => TaskGapless'
    <3> SUFFICES ASSUME TaskGapless
                 PROVE  TaskGapless'
      OBVIOUS
    <3>1. /\ Parent[task.blk] = previous
          /\ task.bh # task.blk => Switching(previous, anyQ)
          /\ Waits(task.blk, anyQ, best) \/ Switching(previous, anyQ)
      BY <1>1 DEF TaskGapless
    <3>2. OnChain(previous, task.blk)
      BY <1>2, <3>1, OnChainFacts
    <3>3. Switching(previous, anyQ) => Switching(task.blk, anyQ)
      <4>1. Queue(anyQ)
        BY AnyQFacts DEF NotifierInv
      <4> QED BY <1>2, <3>2, <4>1, SwitchingFacts
    <3> QED BY <1>1, <2>1, <2>2, <3>1, <3>3 DEF TaskGapless, Waits
  <2> QED BY <1>3, <2>3, <2>4, <2>5, <2>6 DEF PipelineOK
<1>8. CASE May("late") /\ SetBestBlock(task.blk) /\ HandlersFail
  <2>1. /\ bestBlock' = task.blk /\ MainRows' = BlocksOf(task.blk)
        /\ task' = Idle /\ clean' = FALSE /\ previous' = previous
    BY <1>6, <1>8 DEF HandlersFail
  <2>2. InStep'
    <3>1. OnChain(previous, task.blk) /\ OnChain(task.blk, task.blk)
      BY <1>2, <1>4, OnChainFacts
    <3> QED BY <1>1, <1>2, <1>4, <2>1, <3>1 DEF InStep
  <2>3. TipsAgree' /\ CaughtUp'
    BY <1>1, <1>2, <1>5, <2>1, <2>2, FailedTips
  <2>4. TaskNested => TaskNested'
    BY <1>1, <2>1 DEF TaskNested, Idle
  <2>5. ~Faultless
    BY <1>8, ReplayFacts
  <2> QED BY <1>3, <2>3, <2>4, <2>5 DEF PipelineOK
<1>9. ~May("store")
  BY ReplayFacts
<1> QED BY <1>7, <1>8, <1>9 DEF blockdataBlockStored

\* One block is replayed, or the replay ends.
LEMMA CatchUpPipeline ==
    ASSUME NotifierInv, Replayable, PipelineOK, catchUpMissedBlocks
    PROVE  PipelineOK'
<1> DEFINE h == Height(previous) + 1
           b == BlockAt(best, h)
<1>1. /\ UNCHANGED <<best, anyQ, previous, stakeTip, stakeSaved, poolInfo, rows, bestBlock, overdue,
                     told, late, scenario>>
      /\ task.kind = "catchup"
  BY DEF catchUpMissedBlocks, node, stakeDB, chainDB
<1>2. /\ best \in Block /\ previous \in Block /\ bestBlock \in Block /\ stakeTip \in Block
      /\ task.bh \in Block /\ Height(task.bh) <= Height(best) /\ InStep
      /\ Height(previous) < Height(task.bh)
      /\ MainRows' = BlocksOf(bestBlock') /\ BlocksOf(stakeTip') \subseteq poolInfo' /\ InStep'
  <2>1. best \in Block /\ previous \in Block /\ stakeTip \in Block /\ task \in Task /\ KnownTask(task, best)
    BY DEF NotifierInv, QueueInv, TipsInv, TasksInv
  <2>2. /\ bestBlock \in Block /\ InStep /\ Height(previous) < Height(task.bh)
        /\ MainRows = BlocksOf(bestBlock) /\ BlocksOf(stakeTip) \subseteq poolInfo
    BY <1>1 DEF PipelineOK, TipsAgree, RowsTip
  <2>3. task.bh \in Block /\ Height(task.bh) <= Height(best)
    BY <1>1, <2>1, TaskFacts DEF KnownTask
  <2> QED BY <1>1, <2>1, <2>2, <2>3 DEF InStep, MainRows
<1>3. /\ Height(previous) \in Nat /\ Height(best) \in Nat /\ Height(task.bh) \in Nat /\ h \in 0 .. Height(best)
      /\ h <= Height(task.bh) /\ Height(previous) \in 0 .. Height(best)
  <2>1. Height(previous) \in Nat /\ Height(best) \in Nat /\ Height(task.bh) \in Nat
    BY <1>2, HeightFacts
  <2> QED BY <1>2, <2>1
<1>4. (QueueNested => QueueNested') /\ (QueueGapless => QueueGapless') /\ (Faultless' <=> Faultless)
  BY <1>1, SameQueue
<1>5. Queue(anyQ)
  BY AnyQFacts DEF NotifierInv
<1>6. b \in Block /\ Height(b) = h /\ OnChain(b, best)
  BY <1>2, <1>3, BlockAtFacts DEF OnChain
<1>7. ASSUME NEW c \in Block, Height(c) = h, task' = Run(task.bh, c, "stake"), clean' = clean,
             c # task.bh => Height(c) < Height(task.bh),
             ~Faultless => Fits(c, anyQ, 0, best)
      PROVE  PipelineOK'
  <2>1. task'.kind = "run" /\ task'.bh = task.bh /\ task'.blk = c /\ task'.group = "stake"
    BY <1>7 DEF Run
  <2>2. TipsAgree'
    BY <1>1, <1>2, <1>7, <2>1 DEF PipelineOK, TipsAgree, RowsTip
  <2>3. CaughtUp'
    BY <1>1, <1>7, <2>1 DEF PipelineOK, CaughtUp
  <2>4. ~Faultless /\ TaskNested => TaskNested'
    BY <1>1, <1>7, <2>1 DEF TaskNested
  <2>5. TaskGapless => TaskGapless'
    BY <1>1, <2>1 DEF TaskGapless
  <2> QED BY <1>4, <2>2, <2>3, <2>4, <2>5 DEF PipelineOK
<1>8. ASSUME task' = Idle, clean' = FALSE \/ ((anyQ = <<>> /\ told /\ clean) => FALSE)
      PROVE  PipelineOK'
  <2>1. task'.kind = "idle"
    BY <1>8 DEF Idle
  <2>2. TipsAgree'
    BY <1>1, <1>2, <2>1 DEF PipelineOK, TipsAgree, RowsTip
  <2>3. CaughtUp'
    <3>1. clean' \in {FALSE, clean}
      BY DEF catchUpMissedBlocks
    <3> QED BY <1>1, <1>8, <2>1, <3>1 DEF PipelineOK, CaughtUp
  <2>4. TaskNested => TaskNested'
    BY <1>1, <2>1 DEF TaskNested
  <2>5. TaskGapless => TaskGapless'
    BY <1>1, <2>1 DEF TaskGapless, Waits
  <2> QED BY <1>4, <2>2, <2>3, <2>4, <2>5 DEF PipelineOK
<1>9. CASE h < Height(task.bh) /\ task' = Run(task.bh, b, "stake") /\ clean' = clean
  <2>1. ~Faultless => Fits(b, anyQ, 0, best)
    BY <1>2, <1>5, <1>6, FitsBest DEF PipelineOK, QueueNested, Nested
  <2>2. Height(b) < Height(task.bh)
    BY <1>6, <1>9
  <2> QED BY <1>6, <1>7, <1>9, <2>1, <2>2
<1>10. CASE ~(h < Height(task.bh)) /\ Connects(task.bh) /\ task' = Run(task.bh, task.bh, "stake")
            /\ clean' = clean
  <2>1. Height(task.bh) = h
    BY <1>3, <1>10
  <2>2. ~Faultless => Fits(task.bh, anyQ, 0, best)
    BY <1>1 DEF PipelineOK, TaskNested
  <2> QED BY <1>2, <1>7, <1>10, <2>1, <2>2
<1>11. CASE ~(h < Height(task.bh)) /\ ~Connects(task.bh) /\ task' = Idle /\ clean' = clean
  <2>1. ASSUME anyQ = <<>>, told, clean
        PROVE  FALSE
    <3>1. task.bh = best /\ Height(best) = h
      BY <1>1, <1>3, <1>11, <2>1 DEF PipelineOK, CaughtUp
    <3>2. CASE Faultless
      <4>1. Switching(previous, anyQ)
        BY <1>1, <3>2 DEF PipelineOK, TaskGapless
      <4> QED BY <1>2, <1>5, <2>1, <4>1, SwitchingFacts
    <3>3. CASE ~Faultless
      <4>1. Fits(stakeTip, anyQ, 0, best)
        BY <1>1, <3>3 DEF PipelineOK, TaskNested
      <4>2. Len(anyQ) = 0
        BY <2>1
      <4>3. OnChain(stakeTip, best)
        BY <4>1, <4>2 DEF Fits
      <4>4. OnChain(previous, best)
        BY <1>2, <4>3, OnChainFacts DEF InStep
      <4> QED BY <1>2, <1>11, <3>1, <4>4, ChildFacts DEF Connects
    <3> QED BY <3>2, <3>3
  <2> QED BY <1>8, <1>11, <2>1
<1>12. CASE task' = Idle /\ clean' = FALSE
  BY <1>8, <1>12
<1> QED BY <1>9, <1>10, <1>11, <1>12 DEF catchUpMissedBlocks
-----------------------------------------------------------------------------
(* Taking a message.                                                       *)

\* The rest of the queue is as the queue was.
LEMMA TakenQueue ==
    ASSUME QueueInv, anyQ # <<>>, anyQ' = Tail(anyQ), UNCHANGED best
    PROVE  /\ QueueNested => QueueNested'
           /\ QueueGapless => QueueGapless'
           /\ QueueNested => Fits(Target(Head(anyQ)), anyQ', 0, best)
           /\ QueueGapless /\ Head(anyQ).type = "reorg" => Continues(Head(anyQ).new, anyQ', 0, best)
<1> DEFINE T == Tail(anyQ)
<1>1. /\ Queue(anyQ) /\ best \in Block
      /\ \A i \in 1 .. Len(anyQ) : anyQ[i] \in Message
  BY AnyQFacts
<1>2. /\ Len(anyQ) \in Nat \ {0} /\ Len(T) = Len(anyQ) - 1 /\ Head(anyQ) = anyQ[1]
      /\ \A k \in 1 .. Len(anyQ) - 1 : T[k] = anyQ[k + 1]
  BY <1>1, TailFacts
<1>3. \A v : \A i \in 1 .. Len(anyQ) : Fits(v, anyQ, i, best) => Fits(v, T, i - 1, best)
  BY <1>1, FitsTail
<1>4. \A i \in 1 .. Len(anyQ), v \in Block : Continues(v, anyQ, i, best) => Continues(v, T, i - 1, best)
  BY <1>1, ContinuesTail
<1> HIDE DEF T
<1>5. ASSUME NEW i \in 1 .. Len(T)
      PROVE  i + 1 \in 1 .. Len(anyQ) /\ T[i] = anyQ[i + 1] /\ (i + 1) - 1 = i
  BY <1>2
<1>6. anyQ' = T /\ best' = best
  BY DEF T
<1>7. ASSUME QueueNested
      PROVE  QueueNested' /\ Fits(Target(Head(anyQ)), anyQ', 0, best)
  <2>1. best \notin DeepBranch /\ \A i \in 1 .. Len(anyQ) : Fits(Target(anyQ[i]), anyQ, i, best) /\ Nested(anyQ[i], best)
    BY <1>7 DEF QueueNested
  <2>2. ASSUME NEW i \in 1 .. Len(T)
        PROVE  Fits(Target(T[i]), T, i, best) /\ Nested(T[i], best)
    <3>1. i + 1 \in 1 .. Len(anyQ) /\ T[i] = anyQ[i + 1] /\ (i + 1) - 1 = i
      BY <1>5
    <3>2. Fits(Target(anyQ[i + 1]), anyQ, i + 1, best) /\ Nested(anyQ[i + 1], best)
      BY <2>1, <3>1
    <3>3. Fits(Target(anyQ[i + 1]), T, (i + 1) - 1, best)
      BY <1>3, <3>1, <3>2
    <3> QED BY <3>1, <3>2, <3>3
  <2>3. QueueNested'
    BY <1>6, <2>1, <2>2 DEF QueueNested, Nested
  <2>4. 1 \in 1 .. Len(anyQ) /\ 1 - 1 = 0
    BY <1>2
  <2>5. Fits(Target(anyQ[1]), T, 1 - 1, best)
    BY <1>3, <2>1, <2>4
  <2> QED BY <1>2, <1>6, <2>3, <2>4, <2>5
<1>8. ASSUME QueueGapless
      PROVE  /\ QueueGapless'
             /\ Head(anyQ).type = "reorg" => Continues(Head(anyQ).new, anyQ', 0, best)
  <2>1. ASSUME NEW i \in 1 .. Len(anyQ), anyQ[i].type = "reorg"
        PROVE  Continues(anyQ[i].new, T, i - 1, best)
    <3>1. anyQ[i].new \in Block /\ Continues(anyQ[i].new, anyQ, i, best)
      BY <1>1, <1>8, <2>1, MessageFacts DEF QueueGapless
    <3> QED BY <1>4, <3>1
  <2>2. ASSUME NEW i \in 1 .. Len(T), T[i].type = "reorg"
        PROVE  Continues(T[i].new, T, i, best)
    <3>1. i + 1 \in 1 .. Len(anyQ) /\ T[i] = anyQ[i + 1] /\ (i + 1) - 1 = i
      BY <1>5
    <3>2. Continues(anyQ[i + 1].new, T, (i + 1) - 1, best)
      BY <2>1, <2>2, <3>1
    <3> QED BY <3>1, <3>2
  <2>3. QueueGapless'
    BY <1>6, <2>2 DEF QueueGapless
  <2>4. 1 \in 1 .. Len(anyQ) /\ 1 - 1 = 0
    BY <1>2
  <2>5. anyQ[1].type = "reorg" => Continues(anyQ[1].new, T, 1 - 1, best)
    BY <2>1, <2>4
  <2> QED BY <1>2, <1>6, <2>3, <2>4, <2>5
<1> QED BY <1>7, <1>8

\* When superQueue takes a message, the tips are in step, and the last one is
\* about dcrd's best block.
LEMMA TakenFacts ==
    ASSUME NotifierInv, PipelineOK, NEW type, Receive(type), UNCHANGED <<best, told>>
    PROVE  /\ task = Idle /\ task.kind = "idle" /\ anyQ # <<>> /\ anyQ' = Tail(anyQ)
           /\ Queue(anyQ) /\ Queue(anyQ') /\ Head(anyQ) = anyQ[1] /\ Head(anyQ).type = type
           /\ best \in Block /\ previous \in Block /\ bestBlock \in Block /\ stakeTip \in Block
           /\ Height(best) \in Nat /\ Height(previous) \in Nat /\ InStep
           /\ Head(anyQ) \in Message /\ Known(Head(anyQ), best)
           /\ told /\ anyQ' = <<>> => Target(Head(anyQ)) = best
           /\ told /\ anyQ' # <<>> => Target(anyQ'[Len(anyQ')]) = best
<1>1. task = Idle /\ task.kind = "idle" /\ anyQ # <<>> /\ anyQ' = Tail(anyQ) /\ Head(anyQ).type = type
  BY DEF Receive, Idle
<1>2. /\ Queue(anyQ) /\ best \in Block /\ Height(best) \in Nat /\ Len(anyQ) \in Nat
      /\ \A i \in 1 .. Len(anyQ) : anyQ[i] \in Message /\ Known(anyQ[i], best)
  BY AnyQFacts DEF NotifierInv
<1>3. /\ Queue(anyQ') /\ Head(anyQ) = anyQ[1] /\ Len(anyQ) \in Nat \ {0} /\ Len(anyQ') = Len(anyQ) - 1
      /\ \A k \in 1 .. Len(anyQ) - 1 : anyQ'[k] = anyQ[k + 1]
  BY <1>1, <1>2, TailFacts
<1>4. Head(anyQ) \in Message /\ Known(Head(anyQ), best)
  BY <1>2, <1>3
<1>5. previous \in Block /\ stakeTip \in Block /\ Height(previous) \in Nat /\ bestBlock \in Block /\ InStep
  BY <1>1, HeightFacts DEF NotifierInv, TipsInv, PipelineOK, TipsAgree
<1>6. told => Target(anyQ[Len(anyQ)]) = best
  BY <1>1 DEF PipelineOK, CaughtUp
<1>7. ASSUME anyQ' = <<>>
      PROVE  Len(anyQ) = 1
  <2>1. Len(anyQ') = 0
    BY <1>7
  <2> QED BY <1>3, <2>1
<1>8. ASSUME anyQ' # <<>>
      PROVE  anyQ'[Len(anyQ')] = anyQ[Len(anyQ)]
  <2>1. Len(anyQ') # 0 /\ Len(anyQ') \in Nat
    BY <1>3, <1>8, EmptySeq DEF Queue
  <2>2. Len(anyQ') \in 1 .. Len(anyQ) - 1 /\ Len(anyQ') + 1 = Len(anyQ)
    BY <1>3, <2>1
  <2> QED BY <1>3, <2>2
<1> QED BY <1>1, <1>2, <1>3, <1>4, <1>5, <1>6, <1>7, <1>8

\* The queue goes on, or is about to leave what superQueue has.
LEMMA TakenGapless ==
    ASSUME NotifierInv, PipelineOK, Faultless, Receive("block"), UNCHANGED <<best, told>>
    PROVE  \/ /\ Parent[Head(anyQ).block] = previous /\ Continues(Head(anyQ).block, anyQ', 0, best)
           \/ Switching(previous, anyQ')
<1>1. /\ task.kind = "idle" /\ anyQ # <<>> /\ anyQ' = Tail(anyQ) /\ Queue(anyQ)
      /\ Head(anyQ) = anyQ[1] /\ Head(anyQ).type = "block" /\ best \in Block /\ previous \in Block
  BY TakenFacts
<1>2. Waits(previous, anyQ, best)
  BY <1>1 DEF PipelineOK, TaskGapless
<1>3. CASE Switching(previous, anyQ)
  BY <1>1, <1>3, SwitchingFacts
<1>4. CASE Continues(previous, anyQ, 0, best)
  <2>1. \/ Parent[anyQ[1].block] = previous /\ Continues(anyQ[1].block, Tail(anyQ), 0, best)
        \/ Switches(previous, anyQ, 0)
    BY <1>1, <1>4, ContinuesStep
  <2>2. Switches(previous, anyQ, 0) => Switching(previous, anyQ)
    BY <1>1, OnChainFacts DEF Switching
  <2> QED BY <1>1, <1>3, <2>1, <2>2
<1> QED BY <1>2, <1>3, <1>4 DEF Waits

\* A block is run, replayed to, or discarded.
LEMMA ProcessBlockPipeline ==
    ASSUME NotifierInv, Replayable, PipelineOK, processBlock
    PROVE  PipelineOK'
<1> DEFINE bh == Head(anyQ).block
<1>1. /\ Receive("block") /\ bh # Genesis
      /\ UNCHANGED <<best, previous, stakeTip, stakeSaved, poolInfo, rows, bestBlock, overdue,
                     told, late, scenario>>
  BY DEF processBlock, stakeDB, chainDB
<1>2. /\ task = Idle /\ task.kind = "idle" /\ anyQ # <<>> /\ anyQ' = Tail(anyQ)
      /\ Queue(anyQ) /\ Queue(anyQ') /\ Head(anyQ) = anyQ[1] /\ Head(anyQ).type = "block"
      /\ best \in Block /\ previous \in Block /\ bestBlock \in Block /\ stakeTip \in Block
      /\ Height(best) \in Nat /\ Height(previous) \in Nat /\ InStep
      /\ Head(anyQ) \in Message
      /\ told /\ anyQ' = <<>> => Target(Head(anyQ)) = best
      /\ told /\ anyQ' # <<>> => Target(anyQ'[Len(anyQ')]) = best
  BY <1>1, TakenFacts
<1>3. bh \in Block /\ Target(Head(anyQ)) = bh /\ Height(bh) \in Nat
  BY <1>2, MessageFacts, HeightFacts DEF Target
<1>4. /\ ~Faultless => QueueNested' /\ Fits(bh, anyQ', 0, best) /\ Fits(stakeTip, anyQ', 0, best)
      /\ Faultless => QueueGapless' /\ stakeTip = previous /\ bestBlock = previous
      /\ Faultless' <=> Faultless
  <2>1. QueueInv
    BY DEF NotifierInv
  <2>2. /\ QueueNested => QueueNested'
        /\ QueueGapless => QueueGapless'
        /\ QueueNested => Fits(bh, anyQ', 0, best)
    BY <1>1, <1>2, <1>3, <2>1, TakenQueue
  <2>3. TaskNested => Fits(stakeTip, anyQ, 0, best)
    BY <1>2 DEF TaskNested
  <2>4. Fits(stakeTip, anyQ, 0, best) => Fits(stakeTip, anyQ', 0, best)
    BY <1>2, FitsSkip
  <2>5. TaskGapless => stakeTip = previous /\ bestBlock = previous
    BY <1>2 DEF TaskGapless
  <2> QED BY <1>1, <2>2, <2>3, <2>4, <2>5 DEF PipelineOK, Faultless
<1>5. Faultless => \/ Parent[bh] = previous /\ Continues(bh, anyQ', 0, best)
                   \/ Switching(previous, anyQ')
  BY <1>1, TakenGapless
<1>6. MainRows' = BlocksOf(bestBlock') /\ BlocksOf(stakeTip') \subseteq poolInfo' /\ InStep'
  BY <1>1, <1>2 DEF PipelineOK, TipsAgree, InStep, MainRows, RowsTip
<1> HIDE DEF bh
<1>7. CASE Connects(bh) /\ task' = Run(bh, bh, "stake")
  <2>1. task'.kind = "run" /\ task'.bh = bh /\ task'.blk = bh /\ task'.group = "stake"
    BY <1>7 DEF Run
  <2>2. Height(bh) = Height(previous) + 1 /\ Height(previous) < Height(bh) /\ Parent[bh] = previous
    <3>1. Height(bh) = Height(previous) + 1 /\ Parent[bh] = previous
      BY <1>1, <1>3, <1>7, HeightFacts DEF Connects
    <3> QED BY <1>2, <3>1
  <2>3. TipsAgree'
    BY <1>1, <1>2, <1>6, <2>1, <2>2 DEF PipelineOK, TipsAgree, RowsTip
  <2>4. CaughtUp'
    BY <1>1, <1>2, <1>3, <2>1 DEF CaughtUp
  <2>5. ~Faultless => TaskNested'
    BY <1>1, <1>4, <2>1 DEF TaskNested
  <2>6. Faultless => TaskGapless'
    BY <1>1, <1>4, <1>5, <2>1, <2>2 DEF TaskGapless, Waits
  <2> QED BY <1>4, <2>3, <2>4, <2>5, <2>6 DEF PipelineOK
<1>8. CASE ~Connects(bh) /\ CanCatchUp(bh) /\ task' = CatchUp(bh)
  <2>1. task'.kind = "catchup" /\ task'.bh = bh
    BY <1>8 DEF CatchUp
  <2>2. Height(previous) < Height(bh)
    BY <1>2, <1>3, <1>8 DEF CanCatchUp
  <2>3. TipsAgree'
    BY <1>1, <1>2, <1>6, <2>1, <2>2 DEF PipelineOK, TipsAgree, RowsTip
  <2>4. CaughtUp'
    BY <1>1, <1>2, <1>3, <2>1 DEF CaughtUp
  <2>5. ~Faultless => TaskNested'
    BY <1>1, <1>4, <2>1 DEF TaskNested
  <2>6. Faultless => TaskGapless'
    BY <1>1, <1>4, <1>5, <1>8, <2>1 DEF TaskGapless, Connects
  <2> QED BY <1>4, <2>3, <2>4, <2>5, <2>6 DEF PipelineOK
<1>9. ASSUME task' = Idle, ~Faultless \/ ~Connects(bh), clean' /\ told /\ anyQ' = <<>> => bestBlock = best
      PROVE  PipelineOK'
  <2>1. task'.kind = "idle"
    BY <1>9 DEF Idle
  <2>2. TipsAgree'
    BY <1>1, <1>2, <1>6, <2>1 DEF PipelineOK, TipsAgree, RowsTip
  <2>3. CaughtUp'
    BY <1>1, <1>2, <1>9, <2>1 DEF CaughtUp
  <2>4. ~Faultless => TaskNested'
    BY <1>1, <1>4, <2>1 DEF TaskNested
  <2>5. Faultless => TaskGapless'
    BY <1>1, <1>4, <1>5, <1>9, <2>1 DEF TaskGapless, Connects, Waits
  <2> QED BY <1>4, <2>2, <2>3, <2>4, <2>5 DEF PipelineOK
<1>10. CASE ~Connects(bh) /\ ~CanCatchUp(bh) /\ task' = Idle /\ clean' = ~TooManyMissed(bh)
  <2>1. ASSUME clean', told, anyQ' = <<>>
        PROVE  bestBlock = best
    <3>1. bh = best /\ ~TooManyMissed(bh) /\ Len(anyQ') = 0
      BY <1>2, <1>3, <1>10, <2>1
    <3>2. CASE Faultless
      <4>1. Switching(previous, anyQ')
        BY <1>5, <1>10, <3>2 DEF Connects
      <4> QED BY <1>2, <2>1, <4>1, SwitchingFacts
    <3>3. CASE ~Faultless
      <4>1. Fits(stakeTip, anyQ', 0, best)
        BY <1>4, <3>3
      <4>2. OnChain(stakeTip, best)
        BY <3>1, <4>1 DEF Fits
      <4>3. OnChain(bestBlock, best) /\ OnChain(previous, best) /\ OnChain(previous, bestBlock)
        BY <1>2, <4>2, OnChainFacts DEF InStep
      <4>4. BlockAt(best, Height(previous)) = previous /\ Height(previous) <= Height(best)
        BY <4>3 DEF OnChain
      <4>5. ~(Height(best) > Height(previous) + 1)
        BY <1>10, <3>1, <4>4 DEF CanCatchUp
      <4>6. Height(best) # Height(previous) + 1
        BY <1>2, <1>10, <3>1, <4>3, ChildFacts DEF Connects
      <4>7. Height(previous) >= Height(best)
        BY <1>2, <4>4, <4>5, <4>6
      <4>8. previous = best
        BY <1>2, <4>3, <4>7, OnChainFacts
      <4>9. Height(bestBlock) >= Height(best)
        BY <4>3, <4>8 DEF OnChain
      <4> QED BY <1>2, <4>3, <4>9, OnChainFacts
    <3> QED BY <3>2, <3>3
  <2> QED BY <1>9, <1>10, <2>1
<1>11. CASE May("rpc") /\ clean' = FALSE /\ task' = task
  <2>1. ~Faultless
    BY <1>11, ReplayFacts
  <2> QED BY <1>2, <1>9, <1>11, <2>1
<1>12. \/ Connects(bh) /\ task' = Run(bh, bh, "stake")
       \/ ~Connects(bh) /\ CanCatchUp(bh) /\ task' = CatchUp(bh)
       \/ ~Connects(bh) /\ ~CanCatchUp(bh) /\ task' = Idle /\ clean' = ~TooManyMissed(bh)
       \/ May("rpc") /\ clean' = FALSE /\ task' = task
  BY DEF processBlock, bh
<1> QED BY <1>7, <1>8, <1>10, <1>11, <1>12
-----------------------------------------------------------------------------
(* Reorganisations.                                                        *)

\* A reorganisation is taken up.
LEMMA SignalReorgPipeline ==
    ASSUME NotifierInv, Replayable, PipelineOK, signalReorg
    PROVE  PipelineOK'
<1> DEFINE r == Head(anyQ)
<1>1. /\ Receive("reorg") /\ task' = Reorg(r, "stakeRewind", <<>>)
      /\ UNCHANGED <<best, previous, stakeTip, stakeSaved, poolInfo, rows, bestBlock, overdue,
                     told, late, scenario>>
  BY ReplayFacts DEF signalReorg, stakeDB, chainDB
<1>2. /\ task.kind = "idle" /\ anyQ # <<>> /\ anyQ' = Tail(anyQ)
      /\ Queue(anyQ) /\ Queue(anyQ') /\ r = anyQ[1] /\ r.type = "reorg"
      /\ best \in Block /\ previous \in Block /\ bestBlock \in Block /\ stakeTip \in Block
      /\ InStep /\ r \in Message /\ Known(r, best)
      /\ told /\ anyQ' = <<>> => Target(r) = best
      /\ told /\ anyQ' # <<>> => Target(anyQ'[Len(anyQ')]) = best
  BY <1>1, TakenFacts
<1> HIDE DEF r
<1>3. r \in ReorgMessages /\ Target(r) = r.new
  BY <1>2, MessageFacts DEF Target
<1>4. r.old \in Block /\ Anc(r) \in Block /\ OnChain(Anc(r), r.old)
  BY <1>2, <1>3, AncFacts
<1>5. /\ ~Faultless => QueueNested' /\ Fits(r.new, anyQ', 0, best)
      /\ Faultless => QueueGapless' /\ Continues(r.new, anyQ', 0, best)
      /\ Faultless' <=> Faultless
  <2>1. QueueInv
    BY DEF NotifierInv
  <2>2. /\ QueueNested => QueueNested' /\ Fits(r.new, anyQ', 0, best)
        /\ QueueGapless => QueueGapless' /\ Continues(r.new, anyQ', 0, best)
    BY <1>1, <1>2, <1>3, <2>1, TakenQueue DEF r
  <2> QED BY <1>1, <2>2 DEF PipelineOK, Faultless
<1>6. 1 \in 1 .. Len(anyQ) /\ 1 \in 0 + 1 .. Len(anyQ)
  <2>1. Len(anyQ) \in Nat \ {0}
    BY <1>2, TailFacts
  <2> QED BY <2>1
<1>7. ~Faultless => Nested(r, best) /\ Reachable(stakeTip, r) /\ Reachable(bestBlock, r)
  <2> SUFFICES ASSUME ~Faultless
               PROVE  Nested(r, best) /\ Reachable(stakeTip, r) /\ Reachable(bestBlock, r)
    OBVIOUS
  <2>1. Nested(r, best)
    BY <1>2, <1>6 DEF PipelineOK, QueueNested
  <2>2. OnChain(Anc(r), best)
    BY <1>2, <2>1 DEF Nested
  <2>3. First(anyQ, 0, 1)
    BY <1>2 DEF First
  <2>4. Comparable(stakeTip, Anc(r))
    BY <1>2, <1>6, <2>3 DEF PipelineOK, TaskNested, Fits
  <2>5. Comparable(bestBlock, Anc(r))
    BY <1>2, <1>4, <2>4, ComparableFacts DEF InStep
  <2> QED BY <2>1, <2>2, <2>4, <2>5 DEF Comparable, Reachable
<1>8. Faultless => Reachable(stakeTip, r) /\ Reachable(bestBlock, r)
  <2> SUFFICES ASSUME Faultless
               PROVE  Reachable(stakeTip, r) /\ Reachable(bestBlock, r)
    OBVIOUS
  <2>1. stakeTip = previous /\ bestBlock = previous /\ Waits(previous, anyQ, best)
    BY <1>2 DEF PipelineOK, TaskGapless
  <2>2. OnChain(r.old, previous)
    BY <1>2, <2>1, WaitsForReorg
  <2>3. OnChain(Anc(r), previous)
    BY <1>2, <1>4, <2>2, OnChainFacts
  <2> QED BY <2>1, <2>3 DEF Reachable
<1>9. task'.kind = "reorg" /\ task'.tips = r /\ task'.step = "stakeRewind"
  BY <1>1 DEF Reorg
<1>10. TipsAgree'
  <2>1. MainRows' = BlocksOf(bestBlock') /\ BlocksOf(stakeTip') \subseteq poolInfo'
    BY <1>1, <1>2 DEF PipelineOK, TipsAgree, MainRows, RowsTip
  <2>2. ReorgInv(task.tips)'
    BY <1>1, <1>5, <1>7, <1>8, <1>9 DEF ReorgInv, Reachable
  <2>3. RowsTip' = bestBlock'
    BY <1>9 DEF RowsTip
  <2> QED BY <1>1, <1>2, <1>9, <2>1, <2>2, <2>3 DEF PipelineOK, TipsAgree
<1>11. CaughtUp'
  BY <1>1, <1>2, <1>3, <1>9 DEF CaughtUp
<1>12. ~Faultless => TaskNested'
  BY <1>1, <1>5, <1>7, <1>9 DEF TaskNested, Nested
<1>13. Faultless => TaskGapless'
  BY <1>1, <1>5, <1>9 DEF TaskGapless
<1> QED BY <1>5, <1>10, <1>11, <1>12, <1>13 DEF PipelineOK
-----------------------------------------------------------------------------
(* The blocks that a reorganisation connects.                              *)

\* The blocks above a height, one by one.
LEMMA BlocksAboveHead ==
    ASSUME NEW b \in Block, NEW h \in 0 .. Height(b)
    PROVE  LET todo == BlocksAbove(b, h)
               c == Head(todo)
           IN  /\ todo = <<>> => Height(b) = h
               /\ todo # <<>> =>
                     /\ c \in Block \ {Genesis} /\ Height(c) = h + 1 /\ OnChain(c, b)
                     /\ BlockAt(c, h) = BlockAt(b, h)
                     /\ Tail(todo) = BlocksAbove(b, Height(c))
<1> DEFINE todo == BlocksAbove(b, h)
           c == Head(todo)
<1>1. h \in Nat /\ Height(b) \in Nat /\ h <= Height(b)
  BY HeightFacts
<1>2. /\ todo \in Seq(Block) /\ Len(todo) = Height(b) - h
      /\ \A i \in 1 .. Height(b) - h : todo[i] = BlockAt(b, h + i)
  BY <1>1, BlocksAboveFacts
<1>3. ASSUME todo = <<>>
      PROVE  Height(b) = h
  <2>1. Height(b) - h = 0
    BY <1>2, <1>3
  <2> QED BY <1>1, <2>1
<1>4. ASSUME todo # <<>>
      PROVE  /\ c \in Block \ {Genesis} /\ Height(c) = h + 1 /\ OnChain(c, b)
             /\ BlockAt(c, h) = BlockAt(b, h)
             /\ Tail(todo) = BlocksAbove(b, Height(c))
  <2> HIDE DEF todo
  <2>1. Len(todo) # 0 /\ Len(todo) \in Nat /\ c = todo[1]
    BY <1>2, <1>4, EmptySeq
  <2>2. h + 1 \in 0 .. Height(b) /\ 1 \in 1 .. Height(b) - h /\ h \in 0 .. h + 1
    BY <1>1, <1>2, <2>1
  <2>3. c = BlockAt(b, h + 1)
    BY <1>2, <2>1, <2>2
  <2> HIDE DEF c
  <2>4. c \in Block /\ Height(c) = h + 1 /\ BlockAt(c, h) = BlockAt(b, h)
    BY <2>2, <2>3, BlockAtFacts
  <2>5. OnChain(c, b)
    BY <1>1, <2>2, <2>3, <2>4 DEF OnChain
  <2>6. c # Genesis
    BY <1>1, <2>4, HeightFacts
  <2> DEFINE t == Tail(todo)
             u == BlocksAbove(b, h + 1)
  <2>8. /\ u \in Seq(Block) /\ Len(u) = Height(b) - (h + 1)
        /\ \A i \in 1 .. Height(b) - (h + 1) : u[i] = BlockAt(b, h + 1 + i)
    BY <2>2, BlocksAboveFacts
  <2>9. t \in Seq(Block) /\ Len(t) = Len(todo) - 1 /\ \A i \in 1 .. Len(t) : t[i] = todo[i + 1]
    BY <1>2, <1>4, HeadTailProperties
  <2> HIDE DEF t, u
  <2>10. Len(t) = Len(u)
    BY <1>1, <1>2, <2>8, <2>9
  <2>11. ASSUME NEW i \in 1 .. Len(t)
         PROVE  t[i] = u[i]
    <3>1. i + 1 \in 1 .. Height(b) - h /\ h + (i + 1) = h + 1 + i /\ i \in 1 .. Height(b) - (h + 1)
      BY <1>1, <1>2, <2>9
    <3>2. todo[i + 1] = BlockAt(b, h + (i + 1))
      BY <1>2, <3>1
    <3> QED BY <2>8, <2>9, <3>1, <3>2
  <2>12. t = u
    BY <2>8, <2>9, <2>10, <2>11, SeqEqual
  <2> QED BY <2>4, <2>5, <2>6, <2>12 DEF t, u
<1> QED BY <1>3, <1>4

\* The blocks between a block and a higher one of its chain, one by one.
LEMMA BlocksAboveStep ==
    ASSUME NEW a \in Block, NEW b \in Block, OnChain(a, b)
    PROVE  LET todo == BlocksAbove(b, Height(a))
               c == Head(todo)
           IN  /\ todo = <<>> => a = b
               /\ todo # <<>> =>
                     /\ c \in Block \ {Genesis} /\ Parent[c] = a /\ OnChain(c, b)
                     /\ Tail(todo) = BlocksAbove(b, Height(c))
<1> DEFINE h == Height(a)
           todo == BlocksAbove(b, h)
           c == Head(todo)
<1>1. h \in Nat /\ Height(b) \in Nat /\ h <= Height(b) /\ h \in 0 .. Height(b)
  BY HeightFacts DEF OnChain
<1>2. /\ todo = <<>> => Height(b) = h
      /\ todo # <<>> =>
            /\ c \in Block \ {Genesis} /\ Height(c) = h + 1 /\ OnChain(c, b)
            /\ BlockAt(c, h) = BlockAt(b, h)
            /\ Tail(todo) = BlocksAbove(b, Height(c))
  BY <1>1, BlocksAboveHead
<1> HIDE DEF todo, c
<1>3. todo = <<>> => a = b
  BY <1>1, <1>2, OnChainFacts
<1>4. ASSUME todo # <<>>
      PROVE  Parent[c] = a
  <2>1. OnChain(a, c)
    BY <1>1, <1>2, <1>4 DEF OnChain, h
  <2> QED BY <1>2, <1>4, <2>1, ChildFacts DEF h
<1> QED BY <1>2, <1>3, <1>4 DEF todo, c, h

\* The missing blocks up to the ancestor, then those of the new chain.
LEMMA BlocksAboveJoin ==
    ASSUME NEW g \in Nat, NEW a \in Block, NEW n \in Block, NEW top \in Block,
           g < Height(a), OnChain(a, n), OnChain(a, top)
    PROVE  SubSeq(Chain[top], g + 2, Height(a) + 1) \o BlocksAbove(n, Height(a)) = BlocksAbove(n, g)
<1> DEFINE h == Height(a)
           s == SubSeq(Chain[top], g + 2, h + 1)
           t == BlocksAbove(n, h)
           u == BlocksAbove(n, g)
<1>1. /\ g \in Nat /\ h \in Nat /\ Height(n) \in Nat /\ Height(top) \in Nat
      /\ g < h /\ h <= Height(n) /\ h <= Height(top)
  BY HeightFacts DEF OnChain
<1>2. Chain[top] \in Seq(Block) /\ Len(Chain[top]) = Height(top) + 1
  BY ChainEquation, HeightFacts
<1>3. \A k \in 0 .. h : BlockAt(top, k) = BlockAt(n, k)
  <2>1. h \in 0 .. Height(top) /\ h \in 0 .. Height(n) /\ BlockAt(top, h) = a /\ BlockAt(n, h) = a
    BY <1>1 DEF OnChain
  <2>2. \A k \in 0 .. h : BlockAt(a, k) = BlockAt(top, k)
    BY <2>1, BlockAtFacts
  <2>3. \A k \in 0 .. h : BlockAt(a, k) = BlockAt(n, k)
    BY <2>1, BlockAtFacts
  <2> QED BY <2>2, <2>3
<1> HIDE DEF h
<1>4. /\ t \in Seq(Block) /\ Len(t) = Height(n) - h
      /\ \A i \in 1 .. Height(n) - h : t[i] = BlockAt(n, h + i)
  BY <1>1, BlocksAboveFacts
<1>5. /\ u \in Seq(Block) /\ Len(u) = Height(n) - g
      /\ \A i \in 1 .. Height(n) - g : u[i] = BlockAt(n, g + i)
  <2>1. g \in 0 .. Height(n)
    BY <1>1
  <2> QED BY <2>1, BlocksAboveFacts
<1>6. /\ s \in Seq(Block) /\ Len(s) = h - g
      /\ \A i \in 1 .. h - g : s[i] = BlockAt(top, g + i)
  <2>1. g + 2 \in Int /\ h + 1 \in Int /\ g + 2 <= h + 1 /\ (h + 1) - (g + 2) + 1 = h - g
    BY <1>1
  <2>2. \A i \in g + 2 .. h + 1 : i \in 1 .. Len(Chain[top])
    BY <1>1, <1>2
  <2>3. \A i \in g + 2 .. h + 1 : Chain[top][i] \in Block
    BY <1>2, <2>2, ElementOfSeq
  <2>4. /\ s \in Seq(Block) /\ Len(s) = h - g
        /\ \A i \in 1 .. h - g : s[i] = Chain[top][g + 2 + i - 1]
    BY <2>1, <2>3, SubSeqProperties
  <2>5. \A i \in 1 .. h - g : g + 2 + i - 1 = g + i + 1
    BY <1>1
  <2> HIDE DEF s
  <2> QED BY <2>4, <2>5 DEF BlockAt
<1> HIDE DEF s, t, u
<1>7. /\ s \o t \in Seq(Block) /\ Len(s \o t) = Len(s) + Len(t)
      /\ \A i \in 1 .. Len(s) : (s \o t)[i] = s[i]
      /\ \A i \in 1 .. Len(t) : (s \o t)[Len(s) + i] = t[i]
      /\ \A i \in 1 .. Len(s \o t) : i \in 1 .. Len(s) \/ \E j \in 1 .. Len(t) : i = Len(s) + j
  <2>1. ASSUME NEW p \in Seq(Block), NEW q \in Seq(Block)
        PROVE  /\ p \o q \in Seq(Block) /\ Len(p \o q) = Len(p) + Len(q)
               /\ \A i \in 1 .. Len(p) : (p \o q)[i] = p[i]
               /\ \A i \in 1 .. Len(q) : (p \o q)[Len(p) + i] = q[i]
               /\ \A i \in 1 .. Len(p \o q) : i \in 1 .. Len(p) \/ \E j \in 1 .. Len(q) : i = Len(p) + j
    BY ConcatParts
  <2> QED BY <1>4, <1>6, <2>1
<1> DEFINE v == s \o t
<1> HIDE DEF v
<1>8. Len(v) = Len(u)
  <2>1. Len(v) = Len(s) + Len(t)
    BY <1>7 DEF v
  <2>2. Len(s) = h - g /\ Len(t) = Height(n) - h /\ Len(u) = Height(n) - g
    BY <1>4, <1>5, <1>6
  <2> QED BY <1>1, <2>1, <2>2
<1>9. ASSUME NEW i \in 1 .. Len(v)
      PROVE  v[i] = u[i]
  <2>1. i \in 1 .. Height(n) - g
    BY <1>5, <1>8
  <2>2. u[i] = BlockAt(n, g + i)
    BY <1>5, <2>1
  <2>3. CASE i \in 1 .. Len(s)
    <3>1. i \in 1 .. h - g /\ g + i \in 0 .. h
      BY <1>1, <1>6, <2>3
    <3>2. v[i] = BlockAt(top, g + i)
      BY <1>6, <1>7, <2>3, <3>1 DEF v
    <3> QED BY <1>3, <2>2, <3>1, <3>2
  <2>4. CASE \E j \in 1 .. Len(t) : i = Len(s) + j
    <3>1. PICK j \in 1 .. Len(t) : i = Len(s) + j
      BY <2>4
    <3>2. j \in 1 .. Height(n) - h /\ h + j = g + i
      BY <1>1, <1>4, <1>6, <3>1
    <3>3. v[i] = t[j]
      BY <1>7, <3>1 DEF v
    <3> QED BY <1>4, <2>2, <3>2, <3>3
  <2> QED BY <1>7, <2>3, <2>4 DEF v
<1>10. v = u
  BY <1>5, <1>7, <1>8, <1>9, SeqEqual DEF v
<1> QED BY <1>10 DEF v, u, s, t, h
\* What holds while a reorganisation is carried out.
LEMMA ReorgPipeline ==
    ASSUME NotifierInv, PipelineOK, NEW s, At("main", s)
    PROVE  /\ task \in ReorgTasks /\ task.kind = "reorg" /\ task.step = s
           /\ task.tips.new \in Block /\ Anc(task.tips) \in Block
           /\ OnChain(Anc(task.tips), task.tips.new)
           /\ Height(Anc(task.tips)) = AncestorHeight(task.tips) /\ AncestorHeight(task.tips) \in Nat
           /\ ReorgInv(task.tips)
           /\ best \in Block /\ bestBlock \in Block /\ stakeTip \in Block
           /\ Height(best) \in Nat /\ Height(bestBlock) \in Nat /\ Height(stakeTip) \in Nat
           /\ s \notin {"flagged", "chainStored"} => MainRows = BlocksOf(bestBlock)
           /\ MainRows = BlocksOf(RowsTip) /\ BlocksOf(stakeTip) \subseteq poolInfo
<1>1. task.kind = "reorg" /\ task.step = s /\ Alive
  BY DEF At, Doing
<1>2. task \in ReorgTasks /\ KnownTask(task, best) /\ best \in Block /\ stakeTip \in Block
  BY <1>1, TaskFacts DEF NotifierInv, TasksInv, QueueInv, TipsInv
<1>3. task.tips \in ReorgMessages /\ Known(task.tips, best)
  BY <1>1, <1>2 DEF ReorgTasks, KnownTask
<1>4. /\ task.tips.new \in Block /\ Anc(task.tips) \in Block
      /\ OnChain(Anc(task.tips), task.tips.new)
      /\ Height(Anc(task.tips)) = AncestorHeight(task.tips) /\ AncestorHeight(task.tips) \in Nat
  BY <1>2, <1>3, AncFacts
<1>5. ReorgInv(task.tips) /\ bestBlock \in Block
      /\ MainRows = BlocksOf(RowsTip) /\ BlocksOf(stakeTip) \subseteq poolInfo
  BY <1>1 DEF PipelineOK, TipsAgree
<1>6. s \notin {"flagged", "chainStored"} => RowsTip = bestBlock
  BY <1>1 DEF RowsTip
<1> QED BY <1>1, <1>2, <1>4, <1>5, <1>6, HeightFacts

\* The stake database is on disk.
LEMMA StakeIsSaved == PipelineOK => stakeSaved = TRUE
  BY DEF PipelineOK, TipsAgree

\* A step of a reorganisation.
LEMMA ReorgStepPipeline ==
    ASSUME PipelineOK, task.kind = "reorg", task'.kind = "reorg", task'.tips = task.tips,
           UNCHANGED <<best, anyQ, late, overdue, clean, told, scenario>>,
           stakeSaved' = TRUE, bestBlock' \in Block, MainRows' = BlocksOf(RowsTip'),
           BlocksOf(stakeTip') \subseteq poolInfo', ReorgInv(task.tips)'
    PROVE  PipelineOK'
<1>1. TipsAgree'
  BY DEF PipelineOK, TipsAgree
<1>2. CaughtUp'
  BY DEF PipelineOK, CaughtUp
<1>3. TaskNested => TaskNested'
  BY DEF TaskNested, Nested
<1>4. TaskGapless => TaskGapless'
  BY DEF TaskGapless
<1> QED BY <1>1, <1>2, <1>3, <1>4, SameQueue DEF PipelineOK

\* The task after a step of superQueue's own reorg handler.
LEMMA NextReorgTask ==
    ASSUME task \in ReorgTasks, NEW step, NEW todo, GoTo("main", step, todo) \/ GroupEnds("main", step)
    PROVE  /\ late' = late /\ task'.kind = "reorg" /\ task'.tips = task.tips /\ task'.step = step
           /\ GoTo("main", step, todo) => task'.todo = todo
<1>1. CASE GoTo("main", step, todo)
  <2>1. task' = [task EXCEPT !.step = step, !.todo = todo] /\ late' = late
    BY <1>1 DEF GoTo, Becomes, Doing
  <2> QED BY <2>1 DEF ReorgTasks
<1>2. CASE GroupEnds("main", step) /\ ~GoTo("main", step, todo)
  <2>1. task' = Reorg(task.tips, step, <<>>) /\ late' = late
    BY <1>2 DEF GroupEnds, Becomes
  <2> QED BY <1>2, <2>1 DEF Reorg
<1> QED BY <1>1, <1>2

\* The ancestor is on the chain of who is not below it.
LEMMA ReachableAbove ==
    ASSUME NEW x \in Block, NEW r, Anc(r) \in Block, Reachable(x, r)
    PROVE  /\ Height(x) >= Height(Anc(r)) => OnChain(Anc(r), x)
           /\ Height(x) < Height(Anc(r)) => OnChain(x, Anc(r)) /\ OnChain(Anc(r), best)
<1>1. Height(x) \in Nat /\ Height(Anc(r)) \in Nat
  BY HeightFacts
<1>2. CASE OnChain(Anc(r), x)
  BY <1>1, <1>2 DEF OnChain
<1>3. CASE OnChain(x, Anc(r)) /\ OnChain(Anc(r), best)
  BY <1>3, OnChainFacts
<1> QED BY <1>2, <1>3 DEF Reachable

\* The stake database gets to the ancestor.
LEMMA StakeRewindPipeline ==
    ASSUME NotifierInv, Replayable, PipelineOK, stakeRewind("main")
    PROVE  PipelineOK'
<1> DEFINE r == task.tips
           h == AncestorHeight(r)
           b == BlockAt(best, Height(stakeTip) + 1)
<1>1. /\ At("main", "stakeRewind")
      /\ UNCHANGED <<best, anyQ, rows, bestBlock, overdue, told, scenario>>
  BY DEF stakeRewind, node, chainDB
<1>2. /\ task \in ReorgTasks /\ task.kind = "reorg" /\ task.step = "stakeRewind"
      /\ r.new \in Block /\ Anc(r) \in Block /\ OnChain(Anc(r), r.new)
      /\ Height(Anc(r)) = h /\ h \in Nat /\ ReorgInv(r)
      /\ best \in Block /\ bestBlock \in Block /\ stakeTip \in Block
      /\ Height(best) \in Nat /\ Height(stakeTip) \in Nat
      /\ MainRows = BlocksOf(bestBlock) /\ BlocksOf(stakeTip) \subseteq poolInfo
  BY <1>1, ReorgPipeline
<1>3. Reachable(stakeTip, r) /\ Reachable(bestBlock, r)
  BY <1>2 DEF ReorgInv
<1>4. MainRows' = BlocksOf(bestBlock') /\ bestBlock' \in Block
  BY <1>1, <1>2 DEF MainRows
<1>5. ~May("reorg")
  BY ReplayFacts
<1>6. CASE /\ Height(stakeTip) >= h /\ stakeTip' = BlockAt(stakeTip, h)
           /\ GoTo("main", "stakeConnect", BlocksAbove(r.new, h))
           /\ UNCHANGED <<stakeSaved, poolInfo, clean>>
  <2>1. OnChain(Anc(r), stakeTip)
    BY <1>2, <1>3, <1>6, ReachableAbove
  <2>2. stakeTip' = Anc(r)
    BY <1>2, <1>6, <2>1 DEF OnChain
  <2>3. BlocksOf(stakeTip') \subseteq poolInfo'
    BY <1>2, <1>6, <2>1, <2>2, ChainBlocks
  <2>4. /\ late' = late /\ task'.kind = "reorg" /\ task'.tips = task.tips /\ task'.step = "stakeConnect"
        /\ task'.todo = BlocksAbove(r.new, h)
    BY <1>2, <1>6, NextReorgTask
  <2>5. OnChain(Anc(r), Anc(r))
    BY <1>2, OnChainFacts
  <2>6. ReorgInv(task.tips)'
    BY <1>1, <1>2, <1>3, <2>2, <2>4, <2>5 DEF ReorgInv, Reachable, Faultless
  <2>7. RowsTip' = bestBlock'
    BY <2>4 DEF RowsTip
  <2> QED BY <1>1, <1>2, <1>4, <1>6, <2>3, <2>4, <2>6, <2>7, StakeIsSaved, ReorgStepPipeline
<1>7. CASE Height(stakeTip) < h
  <2>1. OnChain(stakeTip, Anc(r)) /\ OnChain(Anc(r), best) /\ ~Faultless
    <3>1. OnChain(stakeTip, Anc(r)) /\ OnChain(Anc(r), best)
      BY <1>2, <1>3, <1>7, ReachableAbove
    <3>2. ~OnChain(Anc(r), stakeTip)
      BY <1>2, <1>7 DEF OnChain
    <3> QED BY <1>3, <3>1, <3>2 DEF Reachable
  <2>2. OnChain(stakeTip, best) /\ h <= Height(best)
    BY <1>2, <2>1, OnChainFacts DEF OnChain
  <2>3. Height(stakeTip) + 1 \in 0 .. Height(best) /\ Height(stakeTip) \in 0 .. Height(stakeTip) + 1
    BY <1>2, <1>7, <2>2
  <2>4. b \in Block /\ Height(b) = Height(stakeTip) + 1 /\ BlockAt(b, Height(stakeTip)) = BlockAt(best, Height(stakeTip))
    BY <1>2, <2>3, BlockAtFacts
  <2>5. OnChain(b, best) /\ OnChain(stakeTip, b)
    BY <1>2, <2>2, <2>3, <2>4 DEF OnChain
  <2>6. b # Genesis /\ Parent[b] = stakeTip /\ OnChain(b, Anc(r))
    <3>1. Height(b) <= Height(Anc(r))
      BY <1>2, <1>7, <2>4
    <3> QED BY <1>2, <2>1, <2>4, <2>5, <3>1, ChildFacts, OnChainFacts
  <2>7. StakeAccepts(b)
    BY <2>6 DEF StakeAccepts
  <2>8. /\ stakeTip' = b /\ poolInfo' = poolInfo \cup {b} /\ stakeSaved' = TRUE
        /\ UNCHANGED <<task, late, clean>>
    <3>1. Disconnects(h) /\ ~(Height(stakeTip) >= h)
      BY <1>2, <1>7, StakeIsSaved DEF Disconnects
    <3>2. StakeConnect(b) /\ UNCHANGED <<task, late, clean>>
      BY <1>5, <2>7, <3>1 DEF stakeRewind, Doing
    <3> QED BY <3>2 DEF StakeConnect
  <2> HIDE DEF b
  <2>9. BlocksOf(stakeTip') \subseteq poolInfo'
    BY <1>2, <2>4, <2>6, <2>8, ChainBlocks
  <2>10. ReorgInv(task.tips)'
    BY <1>1, <1>2, <1>3, <2>1, <2>6, <2>8 DEF ReorgInv, Reachable, Faultless
  <2>11. RowsTip' = bestBlock'
    BY <1>2, <2>8 DEF RowsTip
  <2> QED BY <1>1, <1>2, <1>4, <2>8, <2>9, <2>10, <2>11, StakeIsSaved, ReorgStepPipeline
<1>8. \/ /\ Height(stakeTip) >= h /\ stakeTip' = BlockAt(stakeTip, h)
         /\ GoTo("main", "stakeConnect", BlocksAbove(r.new, h))
         /\ UNCHANGED <<stakeSaved, poolInfo, clean>>
      \/ Height(stakeTip) < h
  BY <1>2, <1>5, StakeIsSaved DEF stakeRewind, Disconnects, Doing
<1> QED BY <1>6, <1>7, <1>8

\* The stake database gets to the new head.
LEMMA StakeConnectPipeline ==
    ASSUME NotifierInv, Replayable, PipelineOK, stakeConnect("main")
    PROVE  PipelineOK'
<1> DEFINE r == task.tips
           todo == task.todo
           b == Head(todo)
<1>1. /\ At("main", "stakeConnect")
      /\ UNCHANGED <<best, anyQ, rows, bestBlock, overdue, told, scenario>>
  BY DEF stakeConnect, node, chainDB
<1>2. /\ task \in ReorgTasks /\ task.kind = "reorg" /\ task.step = "stakeConnect"
      /\ r.new \in Block /\ Anc(r) \in Block /\ ReorgInv(r)
      /\ bestBlock \in Block /\ stakeTip \in Block
      /\ MainRows = BlocksOf(bestBlock) /\ BlocksOf(stakeTip) \subseteq poolInfo
  BY <1>1, ReorgPipeline
<1>3. /\ OnChain(Anc(r), stakeTip) /\ OnChain(stakeTip, r.new)
      /\ todo = BlocksAbove(r.new, Height(stakeTip)) /\ Reachable(bestBlock, r)
  BY <1>2 DEF ReorgInv
<1>4. MainRows' = BlocksOf(bestBlock') /\ bestBlock' \in Block
  BY <1>1, <1>2 DEF MainRows
<1>5. ~May("reorg") /\ ~May("disk")
  BY ReplayFacts
<1>6. /\ todo = <<>> => stakeTip = r.new
      /\ todo # <<>> =>
            /\ b \in Block \ {Genesis} /\ Parent[b] = stakeTip /\ OnChain(b, r.new)
            /\ Tail(todo) = BlocksAbove(r.new, Height(b))
  BY <1>2, <1>3, BlocksAboveStep
<1>7. CASE todo = <<>> /\ GroupEnds("main", "chainRewind") /\ UNCHANGED <<stakeDB, clean>>
  <2>1. late' = late /\ task'.kind = "reorg" /\ task'.tips = task.tips /\ task'.step = "chainRewind"
    BY <1>2, <1>7, NextReorgTask
  <2>2. ReorgInv(task.tips)'
    BY <1>1, <1>2, <1>3, <1>6, <1>7, <2>1 DEF ReorgInv, Reachable, Faultless, stakeDB
  <2>3. RowsTip' = bestBlock'
    BY <2>1 DEF RowsTip
  <2> QED BY <1>1, <1>2, <1>4, <1>7, <2>1, <2>2, <2>3, StakeIsSaved, ReorgStepPipeline DEF stakeDB
<1>8. CASE todo # <<>> /\ StakeConnect(b) /\ GoTo("main", "stakeConnect", Tail(todo)) /\ clean' = clean
  <2>1. stakeTip' = b /\ poolInfo' = poolInfo \cup {b} /\ stakeSaved' = TRUE
    BY <1>8 DEF StakeConnect
  <2>2. /\ late' = late /\ task'.kind = "reorg" /\ task'.tips = task.tips /\ task'.step = "stakeConnect"
        /\ task'.todo = Tail(todo)
    BY <1>2, <1>8, NextReorgTask
  <2>3. BlocksOf(stakeTip') \subseteq poolInfo'
    BY <1>2, <1>6, <1>8, <2>1, ChainBlocks
  <2>4. OnChain(Anc(r), b)
    BY <1>2, <1>3, <1>6, <1>8, OnChainFacts
  <2>5. b \in Block /\ OnChain(b, r.new) /\ Tail(todo) = BlocksAbove(r.new, Height(b))
    BY <1>6, <1>8
  <2> HIDE DEF b, todo
  <2>6. ReorgInv(task.tips)'
    BY <1>1, <1>2, <1>3, <2>1, <2>2, <2>4, <2>5 DEF ReorgInv, Reachable, Faultless
  <2>7. RowsTip' = bestBlock'
    BY <2>2 DEF RowsTip
  <2> QED BY <1>1, <1>2, <1>4, <1>8, <2>1, <2>2, <2>3, <2>6, <2>7, StakeIsSaved, ReorgStepPipeline
<1>9. todo # <<>> => StakeAccepts(b)
  BY <1>6 DEF StakeAccepts
<1>10. \/ todo = <<>> /\ GroupEnds("main", "chainRewind") /\ UNCHANGED <<stakeDB, clean>>
       \/ todo # <<>> /\ StakeConnect(b) /\ GoTo("main", "stakeConnect", Tail(todo)) /\ clean' = clean
  BY <1>5, <1>9 DEF stakeConnect, StakeConnectUnsaved, Doing
<1> QED BY <1>7, <1>8, <1>10

\* TipToSideChain takes the last block off the main chain.
LEMMA FlaggedRows ==
    ASSUME RowsInv, NEW b \in Block \ {Genesis}, MainRows = BlocksOf(b)
    PROVE  /\ previousHash(b) = <<Parent[b]>>
           /\ FlagAsSideChain(b) => MainRows' = BlocksOf(Parent[b])
<1>1. /\ BlocksOf(b) = BlocksOf(Parent[b]) \cup {b} /\ b \in BlocksOf(b) /\ Parent[b] \in Block
      /\ rows \in [Block -> {"absent", "main", "side"}]
  BY ChainBlocks, HeightFacts DEF RowsInv
<1>2. b \notin BlocksOf(Parent[b])
  <2>1. Height(b) = Height(Parent[b]) + 1 /\ Height(Parent[b]) \in Nat
    BY HeightFacts
  <2>2. ~OnChain(b, Parent[b])
    BY <2>1 DEF OnChain
  <2> QED BY <1>1, <2>2, BlocksOfFacts
<1>3. rows[b] = "main"
  BY <1>1 DEF MainRows
<1>4. ASSUME FlagAsSideChain(b)
      PROVE  MainRows' = MainRows \ {b}
  <2>1. rows' = [rows EXCEPT ![b] = "side"]
    BY <1>3, <1>4 DEF FlagAsSideChain
  <2> QED BY <1>1, <2>1 DEF MainRows
<1> QED BY <1>1, <1>2, <1>3, <1>4 DEF previousHash

\* ChainDB is below the ancestor, or goes back to it.
LEMMA ChainRewindPipeline ==
    ASSUME NotifierInv, Replayable, PipelineOK, chainRewind("main")
    PROVE  PipelineOK'
<1> DEFINE r == task.tips
           h == AncestorHeight(r)
           root == CommonAncestor(r.new, r.old)
           newChain == BlocksAbove(r.new, h)
           missing == SubSeq(Chain[best], Height(bestBlock) + 2, h + 1)
<1>1. /\ At("main", "chainRewind") /\ clean' = clean
      /\ UNCHANGED <<best, anyQ, stakeTip, stakeSaved, poolInfo, rows, bestBlock, overdue, told, scenario>>
  BY DEF chainRewind, node, stakeDB, chainDB
<1>2. /\ task \in ReorgTasks /\ task.kind = "reorg" /\ task.step = "chainRewind"
      /\ r.new \in Block /\ root \in Block /\ OnChain(root, r.new)
      /\ Height(root) = h /\ h \in Nat /\ ReorgInv(r) /\ root = Anc(r)
      /\ best \in Block /\ bestBlock \in Block /\ stakeTip \in Block /\ Height(bestBlock) \in Nat
      /\ MainRows = BlocksOf(bestBlock) /\ BlocksOf(stakeTip) \subseteq poolInfo
  BY <1>1, ReorgPipeline DEF Anc
<1>3. stakeTip = r.new /\ Reachable(bestBlock, r)
  BY <1>2 DEF ReorgInv
<1>4. \/ Height(bestBlock) < h /\ GoTo("main", "chainConnect", missing \o newChain)
      \/ Height(bestBlock) >= h /\ GoTo("main", "toSideChain", <<bestBlock>>)
  BY <1>2 DEF chainRewind, Doing
<1>5. MainRows' = BlocksOf(bestBlock')
  BY <1>1, <1>2 DEF MainRows
<1> HIDE DEF root, h
<1>6. CASE Height(bestBlock) < h /\ GoTo("main", "chainConnect", missing \o newChain)
  <2>1. OnChain(bestBlock, root) /\ OnChain(root, best)
    BY <1>2, <1>3, <1>6, ReachableAbove
  <2>2. missing \o newChain = BlocksAbove(r.new, Height(bestBlock))
    <3>1. OnChain(root, r.new) /\ Height(bestBlock) < Height(root)
      BY <1>2, <1>6
    <3>2. ASSUME NEW n \in Block, OnChain(root, n)
          PROVE  SubSeq(Chain[best], Height(bestBlock) + 2, Height(root) + 1) \o BlocksAbove(n, Height(root))
                     = BlocksAbove(n, Height(bestBlock))
      <4>1. Height(bestBlock) \in Nat /\ root \in Block /\ best \in Block
        BY <1>2
      <4> QED BY <2>1, <3>1, <3>2, <4>1, BlocksAboveJoin
    <3> QED BY <1>2, <3>1, <3>2
  <2> HIDE DEF missing, newChain
  <2>3. /\ late' = late /\ task'.kind = "reorg" /\ task'.tips = task.tips /\ task'.step = "chainConnect"
        /\ task'.todo = BlocksAbove(r.new, Height(bestBlock))
    BY <1>2, <1>6, <2>2, NextReorgTask
  <2>4. OnChain(bestBlock, r.new)
    BY <1>2, <2>1, OnChainFacts
  <2>5. ReorgInv(task.tips)'
    BY <1>1, <1>3, <2>3, <2>4 DEF ReorgInv
  <2>6. RowsTip' = bestBlock'
    BY <2>3 DEF RowsTip
  <2> QED BY <1>1, <1>2, <1>5, <2>3, <2>5, <2>6, StakeIsSaved, ReorgStepPipeline
<1>7. CASE Height(bestBlock) >= h /\ GoTo("main", "toSideChain", <<bestBlock>>)
  <2>1. OnChain(Anc(r), bestBlock)
    BY <1>2, <1>3, <1>7, ReachableAbove
  <2>2. /\ late' = late /\ task'.kind = "reorg" /\ task'.tips = task.tips /\ task'.step = "toSideChain"
        /\ task'.todo = <<bestBlock>>
    BY <1>2, <1>7, NextReorgTask
  <2>3. ReorgInv(task.tips)'
    BY <1>1, <1>3, <2>1, <2>2 DEF ReorgInv
  <2>4. RowsTip' = bestBlock'
    BY <2>2 DEF RowsTip
  <2> QED BY <1>1, <1>2, <1>5, <2>2, <2>3, <2>4, StakeIsSaved, ReorgStepPipeline
<1> QED BY <1>4, <1>6, <1>7

\* The last row is flagged, or the ancestor is reached.
LEMMA TipToSideChainPipeline ==
    ASSUME NotifierInv, Replayable, PipelineOK, TipToSideChain("main")
    PROVE  PipelineOK'
<1> DEFINE r == task.tips
<1>1. /\ At("main", "toSideChain")
      /\ UNCHANGED <<best, anyQ, stakeTip, stakeSaved, poolInfo, bestBlock, overdue, told, scenario>>
  BY DEF TipToSideChain, node, stakeDB
<1>2. /\ task \in ReorgTasks /\ task.kind = "reorg" /\ task.step = "toSideChain"
      /\ r.new \in Block /\ Anc(r) \in Block /\ OnChain(Anc(r), r.new)
      /\ Height(Anc(r)) = AncestorHeight(r) /\ ReorgInv(r)
      /\ bestBlock \in Block /\ stakeTip \in Block
      /\ MainRows = BlocksOf(bestBlock) /\ BlocksOf(stakeTip) \subseteq poolInfo
      /\ RowsInv
  BY <1>1, ReorgPipeline DEF NotifierInv
<1>3. /\ stakeTip = r.new /\ OnChain(Anc(r), bestBlock) /\ task.todo = <<bestBlock>>
      /\ Head(task.todo) = bestBlock /\ CommonAncestor(r.new, r.old) = Anc(r)
  BY <1>2 DEF ReorgInv, Anc
<1>4. CASE /\ bestBlock = Anc(r) /\ UNCHANGED <<rows, clean>>
           /\ GoTo("main", "chainConnect", BlocksAbove(r.new, AncestorHeight(r)))
  <2>1. /\ late' = late /\ task'.kind = "reorg" /\ task'.tips = task.tips /\ task'.step = "chainConnect"
        /\ task'.todo = BlocksAbove(r.new, Height(bestBlock))
    BY <1>2, <1>4, NextReorgTask
  <2>2. ReorgInv(task.tips)'
    BY <1>1, <1>2, <1>3, <1>4, <2>1 DEF ReorgInv
  <2>3. MainRows' = BlocksOf(bestBlock') /\ RowsTip' = bestBlock'
    BY <1>1, <1>2, <1>4, <2>1 DEF MainRows, RowsTip
  <2> QED BY <1>1, <1>2, <1>4, <2>1, <2>2, <2>3, StakeIsSaved, ReorgStepPipeline
<1>5. CASE /\ bestBlock # Anc(r) /\ FlagAsSideChain(bestBlock) /\ clean' = clean
           /\ GoTo("main", "flagged", previousHash(bestBlock))
  <2>1. bestBlock # Genesis
    BY <1>2, <1>3, <1>5, OnlyGenesis
  <2>2. previousHash(bestBlock) = <<Parent[bestBlock]>> /\ MainRows' = BlocksOf(Parent[bestBlock])
    BY <1>2, <1>5, <2>1, FlaggedRows
  <2>3. /\ late' = late /\ task'.kind = "reorg" /\ task'.tips = task.tips /\ task'.step = "flagged"
        /\ task'.todo = <<Parent[bestBlock]>>
    BY <1>2, <1>5, <2>2, NextReorgTask
  <2>4. ReorgInv(task.tips)'
    BY <1>1, <1>2, <1>3, <1>5, <2>3 DEF ReorgInv
  <2>5. RowsTip' = Parent[bestBlock]
    BY <2>3 DEF RowsTip
  <2> QED BY <1>1, <1>2, <1>5, <2>2, <2>3, <2>4, <2>5, StakeIsSaved, ReorgStepPipeline
<1>6. \/ /\ bestBlock = Anc(r) /\ UNCHANGED <<rows, clean>>
         /\ GoTo("main", "chainConnect", BlocksAbove(r.new, AncestorHeight(r)))
      \/ /\ bestBlock # Anc(r) /\ FlagAsSideChain(bestBlock) /\ clean' = clean
         /\ GoTo("main", "flagged", previousHash(bestBlock))
  BY <1>2, <1>3, ReplayFacts DEF TipToSideChain, Doing
<1> QED BY <1>4, <1>5, <1>6

\* bestBlock follows to the parent.
LEMMA TipMovedPipeline ==
    ASSUME NotifierInv, Replayable, PipelineOK, TipMoved("main")
    PROVE  PipelineOK'
<1> DEFINE r == task.tips
<1>1. /\ At("main", "flagged")
      /\ UNCHANGED <<best, anyQ, stakeTip, stakeSaved, poolInfo, overdue, clean, told, scenario>>
  BY DEF TipMoved, node, stakeDB
<1>2. /\ task \in ReorgTasks /\ task.kind = "reorg" /\ task.step = "flagged"
      /\ r.new \in Block /\ Anc(r) \in Block /\ ReorgInv(r)
      /\ bestBlock \in Block /\ stakeTip \in Block
      /\ MainRows = BlocksOf(RowsTip) /\ BlocksOf(stakeTip) \subseteq poolInfo
  BY <1>1, ReorgPipeline
<1>3. /\ stakeTip = r.new /\ OnChain(Anc(r), bestBlock) /\ bestBlock # Anc(r)
      /\ task.todo = <<Parent[bestBlock]>>
  BY <1>2 DEF ReorgInv
<1>4. RowsTip = Parent[bestBlock]
  BY <1>2, <1>3 DEF RowsTip
<1>5. bestBlock # Genesis /\ Parent[bestBlock] \in Block /\ OnChain(Anc(r), Parent[bestBlock])
  <2>1. bestBlock # Genesis
    BY <1>2, <1>3, OnlyGenesis
  <2> QED BY <1>2, <1>3, <2>1, OnChainFacts, HeightFacts
<1>6. /\ bestBlock' = Parent[bestBlock] /\ rows' = rows
      /\ GoTo("main", "toSideChain", <<Parent[bestBlock]>>)
  BY <1>3 DEF TipMoved, SetBestBlock, Doing
<1>7. /\ late' = late /\ task'.kind = "reorg" /\ task'.tips = task.tips /\ task'.step = "toSideChain"
      /\ task'.todo = <<bestBlock'>>
  BY <1>2, <1>6, NextReorgTask
<1>8. ReorgInv(task.tips)'
  BY <1>1, <1>3, <1>5, <1>6, <1>7 DEF ReorgInv
<1>9. MainRows' = BlocksOf(bestBlock') /\ RowsTip' = bestBlock'
  BY <1>2, <1>4, <1>6, <1>7 DEF MainRows, RowsTip
<1> QED BY <1>1, <1>2, <1>5, <1>6, <1>7, <1>8, <1>9, StakeIsSaved, ReorgStepPipeline

\* ChainDB gets to the new head.
LEMMA ChainConnectPipeline ==
    ASSUME NotifierInv, Replayable, PipelineOK, chainConnect("main")
    PROVE  PipelineOK'
<1> DEFINE r == task.tips
           todo == task.todo
           b == Head(todo)
<1>1. /\ At("main", "chainConnect")
      /\ UNCHANGED <<best, anyQ, stakeTip, stakeSaved, poolInfo, overdue, told, scenario>>
  BY DEF chainConnect, node, stakeDB
<1>2. /\ task \in ReorgTasks /\ task.kind = "reorg" /\ task.step = "chainConnect"
      /\ r.new \in Block /\ ReorgInv(r)
      /\ bestBlock \in Block /\ stakeTip \in Block
      /\ MainRows = BlocksOf(bestBlock) /\ BlocksOf(stakeTip) \subseteq poolInfo
  BY <1>1, ReorgPipeline
<1>3. /\ stakeTip = r.new /\ OnChain(bestBlock, r.new)
      /\ todo = BlocksAbove(r.new, Height(bestBlock))
  BY <1>2 DEF ReorgInv
<1>4. ~May("reorg") /\ ~May("store")
  BY ReplayFacts
<1>5. /\ todo = <<>> => bestBlock = r.new
      /\ todo # <<>> =>
            /\ b \in Block \ {Genesis} /\ Parent[b] = bestBlock /\ OnChain(b, r.new)
            /\ Tail(todo) = BlocksAbove(r.new, Height(b))
  BY <1>2, <1>3, BlocksAboveStep
<1>6. CASE todo = <<>> /\ GroupEnds("main", "record") /\ UNCHANGED <<rows, bestBlock, clean>>
  <2>1. late' = late /\ task'.kind = "reorg" /\ task'.tips = task.tips /\ task'.step = "record"
    BY <1>2, <1>6, NextReorgTask
  <2>2. ReorgInv(task.tips)'
    BY <1>1, <1>3, <1>5, <1>6, <2>1 DEF ReorgInv
  <2>3. MainRows' = BlocksOf(bestBlock') /\ RowsTip' = bestBlock'
    BY <1>2, <1>6, <2>1 DEF MainRows, RowsTip
  <2> QED BY <1>1, <1>2, <1>6, <2>1, <2>2, <2>3, StakeIsSaved, ReorgStepPipeline
<1>7. CASE todo # <<>> /\ InsertBlock(b, b) /\ GoTo("main", "chainStored", todo) /\ clean' = clean
  <2>1. b \in Block \ {Genesis} /\ bestBlock = Parent[b]
    BY <1>5, <1>7
  <2>2. /\ late' = late /\ task'.kind = "reorg" /\ task'.tips = task.tips /\ task'.step = "chainStored"
        /\ task'.todo = todo
    BY <1>2, <1>7, NextReorgTask
  <2>3. bestBlock' = bestBlock /\ RowsInv
    BY <1>7 DEF InsertBlock, NotifierInv
  <2>4. MainRows' = BlocksOf(b)
    BY <1>2, <1>7, <2>1, <2>3, StoredRows
  <2>5. ReorgInv(task.tips)'
    BY <1>1, <1>3, <2>2, <2>3 DEF ReorgInv
  <2>6. RowsTip' = b
    BY <1>7, <2>2 DEF RowsTip
  <2> QED BY <1>1, <1>2, <1>7, <2>2, <2>3, <2>4, <2>5, <2>6, StakeIsSaved, ReorgStepPipeline
<1>8. todo # <<>> => CanStore(b)
  <2> SUFFICES ASSUME todo # <<>>
               PROVE  CanStore(b)
    OBVIOUS
  <2>1. b \in Block \ {Genesis} /\ OnChain(b, r.new)
    BY <1>5
  <2>2. {b, Parent[b]} \subseteq BlocksOf(b) /\ BlocksOf(b) \subseteq BlocksOf(r.new)
    BY <1>2, <2>1, ChainBlocks
  <2> QED BY <1>2, <1>3, <2>2 DEF CanStore
<1>9. \/ todo = <<>> /\ GroupEnds("main", "record") /\ UNCHANGED <<rows, bestBlock, clean>>
      \/ todo # <<>> /\ InsertBlock(b, b) /\ GoTo("main", "chainStored", todo) /\ clean' = clean
  BY <1>4, <1>8 DEF chainConnect, Doing, chainDB
<1> QED BY <1>6, <1>7, <1>9

\* bestBlock follows to the block that is stored.
LEMMA ChainStoredPipeline ==
    ASSUME NotifierInv, Replayable, PipelineOK, chainStored("main")
    PROVE  PipelineOK'
<1> DEFINE r == task.tips
           todo == task.todo
           b == Head(todo)
<1>1. /\ At("main", "chainStored")
      /\ UNCHANGED <<best, anyQ, stakeTip, stakeSaved, poolInfo, overdue, told, scenario>>
  BY DEF chainStored, node, stakeDB
<1>2. /\ task \in ReorgTasks /\ task.kind = "reorg" /\ task.step = "chainStored"
      /\ r.new \in Block /\ ReorgInv(r)
      /\ bestBlock \in Block /\ stakeTip \in Block
      /\ MainRows = BlocksOf(RowsTip) /\ BlocksOf(stakeTip) \subseteq poolInfo
  BY <1>1, ReorgPipeline
<1>3. /\ stakeTip = r.new /\ OnChain(bestBlock, r.new)
      /\ todo = BlocksAbove(r.new, Height(bestBlock)) /\ todo # <<>>
  BY <1>1, <1>2 DEF ReorgInv, NotifierInv, TasksInv, KnownTask
<1>4. /\ b \in Block \ {Genesis} /\ OnChain(b, r.new) /\ Tail(todo) = BlocksAbove(r.new, Height(b))
  BY <1>2, <1>3, BlocksAboveStep
<1>5. RowsTip = b
  BY <1>2, <1>3 DEF RowsTip
<1>6. SetBestBlock(b) /\ GoTo("main", "chainConnect", Tail(todo)) /\ clean' = clean
  BY ReplayFacts DEF chainStored, Doing
<1>7. bestBlock' = b /\ rows' = rows
  BY <1>6 DEF SetBestBlock
<1>8. /\ late' = late /\ task'.kind = "reorg" /\ task'.tips = task.tips /\ task'.step = "chainConnect"
      /\ task'.todo = Tail(todo)
  BY <1>2, <1>6, NextReorgTask
<1> HIDE DEF b, todo
<1>9. ReorgInv(task.tips)'
  BY <1>1, <1>3, <1>4, <1>7, <1>8 DEF ReorgInv
<1>10. MainRows' = BlocksOf(bestBlock') /\ RowsTip' = bestBlock'
  BY <1>2, <1>5, <1>7, <1>8 DEF MainRows, RowsTip
<1> QED BY <1>1, <1>2, <1>4, <1>6, <1>7, <1>8, <1>9, <1>10, StakeIsSaved, ReorgStepPipeline

\* The new head is recorded: everything is there.
LEMMA RecordReorgPipeline ==
    ASSUME NotifierInv, PipelineOK, recordReorg
    PROVE  PipelineOK'
<1>1. /\ At("main", "record") /\ previous' = task.tips.new /\ task' = Idle
      /\ UNCHANGED <<best, anyQ, stakeTip, stakeSaved, poolInfo, rows, bestBlock, overdue, clean, told,
                     late, scenario>>
  BY DEF recordReorg, node, stakeDB, chainDB
<1>2. /\ task.kind = "reorg" /\ task.step = "record" /\ task.tips.new \in Block /\ ReorgInv(task.tips)
      /\ MainRows = BlocksOf(bestBlock)
  BY <1>1, ReorgPipeline
<1>3. stakeTip = task.tips.new /\ bestBlock = task.tips.new
  BY <1>2 DEF ReorgInv
<1>4. task'.kind = "idle"
  BY <1>1 DEF Idle
<1>5. TipsAgree'
  <2>1. OnChain(stakeTip, stakeTip) /\ Height(stakeTip) <= Height(stakeTip) + 1
    BY <1>2, <1>3, OnChainFacts, HeightFacts
  <2>2. InStep'
    BY <1>1, <1>3, <2>1 DEF InStep
  <2>3. MainRows' = BlocksOf(bestBlock') /\ RowsTip' = bestBlock'
    BY <1>1, <1>2, <1>4 DEF MainRows, RowsTip
  <2> QED BY <1>1, <1>4, <2>2, <2>3 DEF PipelineOK, TipsAgree
<1>6. CaughtUp'
  BY <1>1, <1>2, <1>3, <1>4 DEF PipelineOK, CaughtUp
<1>7. TaskNested => TaskNested'
  BY <1>1, <1>2, <1>3, <1>4 DEF TaskNested
<1>8. TaskGapless => TaskGapless'
  BY <1>1, <1>2, <1>3, <1>4 DEF TaskGapless, Waits
<1> QED BY <1>1, <1>5, <1>6, <1>7, <1>8, SameQueue DEF PipelineOK

\* No handler passes its deadline in these scenarios.
LEMMA NoneOverdue ==
    ASSUME Replayable, PipelineOK
    PROVE  ~HandlerOverdue /\ ~ReorgOverdue /\ ~overdueHandler
<1>1. late = Idle /\ overdue = {}
  BY DEF PipelineOK, TipsAgree
<1>2. ~reorgHandler("late")
  <2>1. Doing("late").kind = "idle"
    BY <1>1 DEF Doing, Idle
  <2> QED BY <2>1 DEF reorgHandler, stakeRewind, stakeConnect, chainRewind, TipToSideChain, TipMoved,
                         chainConnect, chainStored, At
<1> QED BY <1>1, <1>2, ReplayFacts DEF HandlerOverdue, ReorgOverdue, overdueHandler
-----------------------------------------------------------------------------
(* dcrd's steps.                                                           *)

\* dcrd's chain keeps the ancestors: of m, when dcrd goes from one block to another.
Keeps(m, from, to) ==
    /\ m.old \notin DeepBranch /\ m.new \notin DeepBranch /\ OnChain(Anc(m), from)
    => OnChain(Anc(m), to)

\* dcrd gets to block b, and its notifications follow what is in the queue.
LEMMA MovedPipeline ==
    ASSUME NotifierInv, PipelineOK, NEW b \in Block, best' = b,
           UNCHANGED <<previous, task, stakeTip, stakeSaved, poolInfo, rows, bestBlock, overdue, clean,
                       late, scenario>>,
           Prefix(anyQ, anyQ'),
           told' => anyQ' # <<>> /\ Target(anyQ'[Len(anyQ')]) = b,
           \A v \in Block, i \in 0 .. Len(anyQ) : Fits(v, anyQ, i, best) => Fits(v, anyQ', i, b),
           ~Faultless =>
               /\ b \notin DeepBranch
               /\ \A m \in ReorgMessages : Known(m, best) => Keeps(m, best, b)
               /\ \A i \in Len(anyQ) + 1 .. Len(anyQ') :
                     Fits(Target(anyQ'[i]), anyQ', i, b) /\ Nested(anyQ'[i], b),
           Faultless =>
               /\ \A v \in Block, i \in 0 .. Len(anyQ) :
                     Continues(v, anyQ, i, best) => Continues(v, anyQ', i, b)
               /\ \A i \in Len(anyQ) + 1 .. Len(anyQ') :
                     anyQ'[i].type = "reorg" => Continues(anyQ'[i].new, anyQ', i, b)
    PROVE  PipelineOK'
<1>1. /\ Queue(anyQ) /\ best \in Block /\ Len(anyQ) \in Nat
      /\ \A i \in 1 .. Len(anyQ) : anyQ[i] \in Message /\ Known(anyQ[i], best)
  BY AnyQFacts DEF NotifierInv
<1>2. Faultless' <=> Faultless
  BY DEF Faultless
<1>3. /\ Len(anyQ') \in Nat /\ Len(anyQ) <= Len(anyQ')
      /\ \A i \in 1 .. Len(anyQ) : anyQ'[i] = anyQ[i]
      /\ \A i \in 1 .. Len(anyQ') : i \in 1 .. Len(anyQ) \/ i \in Len(anyQ) + 1 .. Len(anyQ')
      /\ 0 \in 0 .. Len(anyQ) /\ \A i \in 1 .. Len(anyQ) : i \in 0 .. Len(anyQ)
  <2>1. Len(anyQ') \in Nat /\ Len(anyQ) <= Len(anyQ') /\ \A i \in 1 .. Len(anyQ) : anyQ'[i] = anyQ[i]
    BY DEF Prefix
  <2> QED BY <1>1, <2>1
<1>4. ASSUME task.kind = "reorg"
      PROVE  /\ task.tips \in ReorgMessages /\ Known(task.tips, best) /\ task.tips.new \in Block
             /\ ~Faultless => Nested(task.tips, best) /\ OnChain(Anc(task.tips), b)
  <2>1. task \in ReorgTasks /\ KnownTask(task, best)
    BY <1>4, TaskFacts DEF NotifierInv, TasksInv
  <2>2. task.tips \in ReorgMessages /\ Known(task.tips, best) /\ task.tips.new \in Block
    BY <1>4, <2>1 DEF ReorgTasks, KnownTask, ReorgMessages
  <2>3. ~Faultless => Nested(task.tips, best)
    BY <1>4 DEF PipelineOK, TaskNested
  <2>4. task.tips.type = "reorg"
    BY <2>2 DEF ReorgMessages
  <2> QED BY <2>2, <2>3, <2>4 DEF Nested, Keeps
<1>5. TipsAgree'
  <2>1. ASSUME task.kind = "reorg"
        PROVE  ReorgInv(task.tips)'
    <3>1. ASSUME NEW x, Reachable(x, task.tips)
          PROVE  \/ OnChain(Anc(task.tips), x)
                 \/ ~Faultless /\ OnChain(x, Anc(task.tips)) /\ OnChain(Anc(task.tips), b)
      BY <1>4, <2>1, <3>1 DEF Reachable
    <3>2. /\ Reachable(stakeTip, task.tips) => Reachable(stakeTip, task.tips)'
          /\ Reachable(bestBlock, task.tips) => Reachable(bestBlock, task.tips)'
      BY <1>2, <3>1 DEF Reachable
    <3>3. ReorgInv(task.tips)
      BY <2>1 DEF PipelineOK, TipsAgree
    <3> QED BY <3>2, <3>3 DEF ReorgInv
  <2>2. MainRows' = MainRows /\ RowsTip' = RowsTip /\ (InStep => InStep')
    BY DEF MainRows, RowsTip, InStep
  <2> QED BY <2>1, <2>2 DEF PipelineOK, TipsAgree
<1>6. CaughtUp'
  BY DEF CaughtUp
<1>7. ~Faultless => QueueNested' /\ TaskNested'
  <2> SUFFICES ASSUME ~Faultless
               PROVE  QueueNested' /\ TaskNested'
    OBVIOUS
  <2>1. QueueNested /\ TaskNested
    BY DEF PipelineOK
  <2>2. ASSUME NEW i \in 1 .. Len(anyQ)
        PROVE  Fits(Target(anyQ'[i]), anyQ', i, b) /\ Nested(anyQ'[i], b)
    <3>1. anyQ'[i] = anyQ[i] /\ i \in 0 .. Len(anyQ) /\ anyQ[i] \in Message /\ Known(anyQ[i], best)
      BY <1>1, <1>3
    <3>2. Fits(Target(anyQ[i]), anyQ, i, best) /\ Nested(anyQ[i], best)
      BY <2>1 DEF QueueNested
    <3>3. Target(anyQ[i]) \in Block /\ (anyQ[i].type = "reorg" => anyQ[i] \in ReorgMessages)
      BY <3>1, MessageFacts
    <3>4. Fits(Target(anyQ[i]), anyQ', i, b)
      BY <3>1, <3>2, <3>3
    <3>5. anyQ[i].type = "reorg" => OnChain(Anc(anyQ[i]), b)
      BY <3>1, <3>2, <3>3 DEF Nested, Keeps
    <3>6. Nested(anyQ'[i], b)
      BY <3>1, <3>2, <3>5 DEF Nested
    <3> QED BY <3>1, <3>4, <3>6
  <2>3. QueueNested'
    <3>1. \A i \in 1 .. Len(anyQ') : Fits(Target(anyQ'[i]), anyQ', i, b) /\ Nested(anyQ'[i], b)
      BY <1>3, <2>2
    <3> QED BY <3>1 DEF QueueNested
  <2>4. TaskNested'
    <3>1. stakeTip \in Block /\ (task.kind \in {"catchup", "run"} => task.bh \in Block)
          /\ (task.kind = "run" => task.blk \in Block)
      BY TaskFacts DEF NotifierInv, TipsInv, TasksInv, RunTasks
    <3>2. \A v \in Block : Fits(v, anyQ, 0, best) => Fits(v, anyQ', 0, b)
      BY <1>3
    <3>3. task.kind = "reorg" => Nested(task.tips, b)
      BY <1>4 DEF Nested
    <3> QED BY <1>4, <2>1, <3>1, <3>2, <3>3 DEF TaskNested
  <2> QED BY <2>3, <2>4
<1>8. Faultless => QueueGapless' /\ TaskGapless'
  <2> SUFFICES ASSUME Faultless
               PROVE  QueueGapless' /\ TaskGapless'
    OBVIOUS
  <2>1. QueueGapless /\ TaskGapless
    BY DEF PipelineOK
  <2>2. ASSUME NEW i \in 1 .. Len(anyQ), anyQ'[i].type = "reorg"
        PROVE  Continues(anyQ'[i].new, anyQ', i, b)
    <3>1. anyQ'[i] = anyQ[i] /\ i \in 0 .. Len(anyQ) /\ anyQ[i] \in Message
      BY <1>1, <1>3
    <3>2. anyQ[i].new \in Block /\ Continues(anyQ[i].new, anyQ, i, best)
      BY <2>1, <2>2, <3>1, MessageFacts DEF QueueGapless
    <3> QED BY <3>1, <3>2
  <2>3. QueueGapless'
    <3>1. \A i \in 1 .. Len(anyQ') : anyQ'[i].type = "reorg" => Continues(anyQ'[i].new, anyQ', i, b)
      BY <1>3, <2>2
    <3> QED BY <3>1 DEF QueueGapless
  <2>4. TaskGapless'
    <3>1. previous \in Block /\ (task.kind = "run" => task.blk \in Block)
      BY TaskFacts DEF NotifierInv, TipsInv, TasksInv, RunTasks
    <3>2. \A v \in Block : Continues(v, anyQ, 0, best) => Continues(v, anyQ', 0, b)
      BY <1>3
    <3>3. \A v \in Block : Switching(v, anyQ) => Switching(v, anyQ')
      BY <1>1, SwitchingFacts
    <3>4. \A v \in Block : Waits(v, anyQ, best) => Waits(v, anyQ', b)
      BY <3>2, <3>3 DEF Waits
    <3> QED BY <1>4, <2>1, <3>1, <3>2, <3>3, <3>4 DEF TaskGapless
  <2> QED BY <2>3, <2>4
<1> QED BY <1>2, <1>5, <1>6, <1>7, <1>8 DEF PipelineOK
\* The notifications of a reorganisation: the blocks it connects, then itself.
LEMMA SwitchedQueue ==
    ASSUME NotifierInv, NEW b \in Block, NodeReorganizes(b)
    PROVE  /\ Fork(best, b)
           /\ Switched(anyQ, anyQ', best, b) \/ (anyQ' = anyQ /\ May("lostReorg"))
<1> DEFINE h == CommonHeight(b, best)
           c == BlocksAbove(b, h)
           news == [i \in DOMAIN c |-> NewBlock(c[i])]
           last == <<BranchTips(best, b)>>
           msgs == news \o last
<1>1. /\ best \in Block /\ anyQ \in Seq(Message) /\ Height(best) \in Nat /\ Height(b) \in Nat
      /\ Height(best) < Height(b) /\ ~OnChain(best, b)
  BY HeightFacts DEF NotifierInv, QueueInv, NodeReorganizes
<1>2. anyQ' = anyQ \o msgs \/ (anyQ' = anyQ /\ May("lostReorg"))
  BY DEF NodeReorganizes, Notify
<1>3. h \in 0 .. Height(best) - 1
  BY <1>1, ForkAncestor
<1>4. h \in 0 .. Height(b) /\ h \in Nat
  BY <1>1, <1>3
<1> HIDE DEF h
<1>5. /\ c \in Seq(Block) /\ Len(c) \in Nat
      /\ \A i \in 1 .. Len(c) : c[i] \in Block /\ OnChain(c[i], b)
  <2>1. /\ c \in Seq(Block) /\ Len(c) \in Nat /\ Len(c) = Height(b) - h
        /\ \A i \in 1 .. Height(b) - h : c[i] = BlockAt(b, h + i)
    BY <1>4, BlocksAboveFacts
  <2>2. ASSUME NEW i \in 1 .. Len(c)
        PROVE  c[i] \in Block /\ OnChain(c[i], b)
    <3>1. h + i \in 0 .. Height(b) /\ c[i] = BlockAt(b, h + i) /\ h + i <= Height(b)
      BY <1>1, <1>4, <2>1
    <3>2. c[i] \in Block /\ Height(c[i]) = h + i
      BY <3>1, BlockAtFacts
    <3> QED BY <3>1, <3>2 DEF OnChain
  <2> QED BY <2>1, <2>2
<1> HIDE DEF c
<1>6. /\ news \in Seq(Message) /\ Len(news) = Len(c)
      /\ \A i \in 1 .. Len(c) : news[i] = NewBlock(c[i])
  <2>1. DOMAIN c = 1 .. Len(c)
    BY <1>5
  <2>2. \A i \in 1 .. Len(c) : NewBlock(c[i]) \in Message
    BY <1>5 DEF NewBlock, Message, BlockMessages
  <2>3. news \in [1 .. Len(c) -> Message]
    BY <2>1, <2>2
  <2>4. news \in Seq(Message) /\ Len(news) = Len(c)
    BY <1>5, <2>3
  <2> QED BY <2>1, <2>4
<1>7. last \in Seq(Message) /\ Len(last) = 1 /\ last[1] = BranchTips(best, b)
  BY <1>1 DEF BranchTips, Message, ReorgMessages
<1> HIDE DEF news, last
<1>8. ASSUME NEW s \in Seq(Message), NEW t \in Seq(Message)
      PROVE  /\ s \o t \in Seq(Message) /\ Len(s \o t) = Len(s) + Len(t) /\ Len(s) \in Nat /\ Len(t) \in Nat
             /\ \A j \in 1 .. Len(s) : (s \o t)[j] = s[j]
             /\ \A j \in 1 .. Len(t) : (s \o t)[Len(s) + j] = t[j]
  BY ConcatParts
<1>9. /\ msgs \in Seq(Message) /\ Len(msgs) = Len(news) + 1 /\ Len(news) \in Nat
      /\ \A j \in 1 .. Len(news) : msgs[j] = news[j]
      /\ msgs[Len(news) + 1] = last[1]
  BY <1>6, <1>7, <1>8
<1> HIDE DEF msgs
<1> SUFFICES ASSUME anyQ' = anyQ \o msgs
             PROVE  Switched(anyQ, anyQ', best, b)
  BY <1>1, <1>2 DEF Fork
<1>10. /\ anyQ' \in Seq(Message) /\ Len(anyQ') = Len(anyQ) + Len(msgs) /\ Len(anyQ) \in Nat
       /\ \A j \in 1 .. Len(anyQ) : anyQ'[j] = anyQ[j]
       /\ \A j \in 1 .. Len(msgs) : anyQ'[Len(anyQ) + j] = msgs[j]
  BY <1>1, <1>8, <1>9
<1>11. Len(anyQ') = Len(anyQ) + (Len(news) + 1) /\ Len(anyQ') > Len(anyQ) /\ Len(anyQ) <= Len(anyQ')
  BY <1>9, <1>10
<1>12. anyQ'[Len(anyQ')] = BranchTips(best, b)
  <2>1. Len(news) + 1 \in 1 .. Len(msgs)
    BY <1>9
  <2> QED BY <1>7, <1>9, <1>10, <1>11, <2>1
<1>13. ASSUME NEW k \in Len(anyQ) + 1 .. Len(anyQ') - 1
       PROVE  anyQ'[k].type = "block" /\ OnChain(anyQ'[k].block, b)
  <2> DEFINE j == k - Len(anyQ)
  <2>1. j \in 1 .. Len(news) /\ j \in 1 .. Len(msgs) /\ Len(anyQ) + j = k
    BY <1>9, <1>10, <1>11
  <2> HIDE DEF j
  <2>2. anyQ'[k] = NewBlock(c[j])
    BY <1>6, <1>9, <1>10, <2>1
  <2>3. OnChain(c[j], b)
    BY <1>5, <1>6, <2>1
  <2> QED BY <2>2, <2>3 DEF NewBlock
<1> QED BY <1>1, <1>10, <1>11, <1>12, <1>13 DEF Switched, Prefix

\* Where dcrd goes outside the deeper branches, it keeps the ancestors.
LEMMA ForkKeeps ==
    ASSUME NEW a \in Block \ DeepBranch, NEW b \in Block \ DeepBranch, Fork(a, b),
           NEW m \in ReorgMessages, Known(m, a)
    PROVE  Keeps(m, a, b)
<1>1. m.old \in Block /\ m.new \in Block /\ Fork(m.old, m.new) /\ m.type = "reorg"
  BY AncFacts
<1>2. Height(m.new) <= Height(a)
  BY <1>1 DEF Known
<1> QED BY <1>1, <1>2, NestedForksAssumption DEF Keeps, Anc

\* dcrd switches to another branch.
LEMMA NodeReorganizesPipeline ==
    ASSUME NotifierInv, Replayable, PipelineOK, NEW b \in Block, NodeReorganizes(b)
    PROVE  PipelineOK'
<1> DEFINE p == anyQ'
<1>1. /\ best' = b /\ b \in scenario.reach
      /\ UNCHANGED <<previous, task, stakeTip, stakeSaved, poolInfo, rows, bestBlock, overdue, clean,
                     late, scenario>>
  BY DEF NodeReorganizes, MayReach, stakeDB, chainDB
<1>2. Fork(best, b) /\ Switched(anyQ, anyQ', best, b)
  BY SwitchedQueue, ReplayFacts
<1>3. best \in Block /\ Queue(anyQ)
  BY AnyQFacts DEF NotifierInv
<1>4. /\ Len(anyQ) \in Nat /\ Len(p) \in Nat /\ Len(anyQ) < Len(p) /\ Prefix(anyQ, p)
      /\ p[Len(p)].type = "reorg" /\ p[Len(p)].old = best /\ p[Len(p)].new = b
      /\ Anc(p[Len(p)]) \in Block /\ OnChain(Anc(p[Len(p)]), b)
      /\ \A j \in Len(anyQ) + 1 .. Len(p) : p[j].type = "reorg" => j = Len(p)
  BY <1>2, <1>3, SwitchedFacts
<1>5. Queue(p)
  <2>1. p \in Seq(Message)
    BY <1>4 DEF Prefix
  <2>2. ASSUME NEW i \in 1 .. Len(p), p[i].type = "reorg"
        PROVE  Anc(p[i]) \in Block
    <3>1. CASE i \in 1 .. Len(anyQ)
      BY <1>3, <1>4, <2>2, <3>1 DEF Queue, Prefix
    <3>2. CASE i \in Len(anyQ) + 1 .. Len(p)
      BY <1>4, <2>2, <3>2
    <3> QED BY <1>4, <3>1, <3>2
  <2> QED BY <2>1, <2>2 DEF Queue
<1>6. p # <<>> /\ Target(p[Len(p)]) = b
  <2>1. p # <<>>
    <3>1. Len(<<>>) = 0
      OBVIOUS
    <3> QED BY <1>4, <3>1
  <2> QED BY <1>4, <2>1 DEF Target
<1>7. \A v \in Block, i \in 0 .. Len(anyQ) : Fits(v, anyQ, i, best) => Fits(v, p, i, b)
  BY <1>2, <1>3, FitsSwitched
<1>8. ASSUME ~Faultless
      PROVE  /\ b \notin DeepBranch
             /\ \A m \in ReorgMessages : Known(m, best) => Keeps(m, best, b)
             /\ \A i \in Len(anyQ) + 1 .. Len(p) : Fits(Target(p[i]), p, i, b) /\ Nested(p[i], b)
  <2>1. b \notin DeepBranch
    BY <1>1, <1>8, ReplayFacts DEF NestedForks
  <2>2. best \notin DeepBranch
    BY <1>8 DEF PipelineOK, QueueNested
  <2>3. \A m \in ReorgMessages : Known(m, best) => Keeps(m, best, b)
    BY <1>2, <1>3, <2>1, <2>2, ForkKeeps
  <2>4. \A i \in Len(anyQ) + 1 .. Len(p) : Fits(Target(p[i]), p, i, b)
    BY <1>2, <1>3, FitsNotified
  <2>5. \A i \in Len(anyQ) + 1 .. Len(p) : Nested(p[i], b)
    BY <1>4, <2>1, <2>2 DEF Nested
  <2> QED BY <2>1, <2>3, <2>4, <2>5
<1>9. /\ \A v \in Block, i \in 0 .. Len(anyQ) : Continues(v, anyQ, i, best) => Continues(v, p, i, b)
      /\ \A i \in Len(anyQ) + 1 .. Len(p) : p[i].type = "reorg" => Continues(p[i].new, p, i, b)
  <2>1. \A v \in Block, i \in 0 .. Len(anyQ) : Continues(v, anyQ, i, best) => Continues(v, p, i, b)
    BY <1>2, <1>3, ContinuesSwitched
  <2>2. Continues(b, p, Len(p), b)
    BY <1>5, ContinuesEnd
  <2> QED BY <1>4, <2>1, <2>2
<1> QED BY <1>1, <1>4, <1>6, <1>7, <1>8, <1>9, MovedPipeline

\* The notification of the next block, if it is not lost.
LEMMA ExtendedQueue ==
    ASSUME NotifierInv, NEW b \in Block, NodeExtends(b)
    PROVE  /\ Extended(anyQ, anyQ', b) \/ (anyQ' = anyQ /\ told' = FALSE /\ May("lost"))
           /\ Prefix(anyQ, anyQ') /\ Len(anyQ') \in Nat /\ Len(anyQ') <= Len(anyQ) + 1
           /\ \A i \in Len(anyQ) + 1 .. Len(anyQ') : i = Len(anyQ') /\ anyQ'[i] = NewBlock(b)
<1> DEFINE p == anyQ'
<1>2. best \in Block /\ Queue(anyQ) /\ anyQ \in Seq(Message) /\ Len(anyQ) \in Nat
  BY AnyQFacts DEF NotifierInv, QueueInv
<1>4. \/ Extended(anyQ, p, b)
      \/ p = anyQ /\ told' = FALSE /\ May("lost")
  <2>1. CASE anyQ' = anyQ \o <<NewBlock(b)>>
    <3> DEFINE t == <<NewBlock(b)>>
    <3>1. t \in Seq(Message) /\ Len(t) = 1 /\ t[1] = NewBlock(b) /\ p = anyQ \o t
      BY <2>1 DEF NewBlock, Message, BlockMessages
    <3> HIDE DEF t
    <3>2. /\ p \in Seq(Message) /\ Len(p) = Len(anyQ) + Len(t)
          /\ \A i \in 1 .. Len(anyQ) : p[i] = anyQ[i]
          /\ \A i \in 1 .. Len(t) : p[Len(anyQ) + i] = t[i]
      <4>1. ASSUME NEW s \in Seq(Message), NEW u \in Seq(Message)
            PROVE  /\ s \o u \in Seq(Message) /\ Len(s \o u) = Len(s) + Len(u)
                   /\ \A i \in 1 .. Len(s) : (s \o u)[i] = s[i]
                   /\ \A i \in 1 .. Len(u) : (s \o u)[Len(s) + i] = u[i]
        BY ConcatParts
      <4> QED BY <1>2, <3>1, <4>1
    <3>3. Len(p) = Len(anyQ) + 1 /\ Len(anyQ) <= Len(p) /\ 1 \in 1 .. Len(t)
      BY <1>2, <3>1, <3>2
    <3>4. p[Len(p)] = NewBlock(b)
      BY <3>1, <3>2, <3>3
    <3> QED BY <1>2, <3>2, <3>3, <3>4 DEF Extended, Prefix
  <2>2. CASE May("lost") /\ UNCHANGED anyQ /\ told' = FALSE
    BY <2>2
  <2> QED BY <2>1, <2>2 DEF NodeExtends, Notify
<1>5. /\ Prefix(anyQ, p) /\ Len(p) \in Nat /\ Len(p) <= Len(anyQ) + 1
      /\ \A i \in Len(anyQ) + 1 .. Len(p) : i = Len(p) /\ p[i] = NewBlock(b)
  <2>1. CASE Extended(anyQ, p, b)
    <3>1. Prefix(anyQ, p) /\ Len(p) = Len(anyQ) + 1 /\ p[Len(p)] = NewBlock(b)
      BY <2>1 DEF Extended
    <3>2. \A i \in Len(anyQ) + 1 .. Len(p) : i = Len(p)
      BY <1>2, <3>1
    <3> QED BY <1>2, <3>1, <3>2
  <2>2. CASE p = anyQ
    <3>1. Prefix(anyQ, p)
      BY <1>2, <2>2 DEF Prefix
    <3>2. Len(p) = Len(anyQ) /\ Len(anyQ) + 1 .. Len(anyQ) = {}
      BY <1>2, <2>2
    <3> QED BY <1>2, <3>1, <3>2
  <2> QED BY <1>4, <2>1, <2>2
<1> QED BY <1>4, <1>5

\* dcrd's chain grows by a block, which is notified or not.
LEMMA NodeExtendsPipeline ==
    ASSUME NotifierInv, Replayable, PipelineOK, NEW b \in Block, NodeExtends(b)
    PROVE  PipelineOK'
<1> DEFINE p == anyQ'
<1>1. /\ best' = b /\ b \in scenario.reach /\ b # Genesis /\ Parent[b] = best
      /\ UNCHANGED <<previous, task, stakeTip, stakeSaved, poolInfo, rows, bestBlock, overdue, clean,
                     late, scenario>>
  BY DEF NodeExtends, MayReach, stakeDB, chainDB
<1>2. best \in Block /\ Queue(anyQ) /\ anyQ \in Seq(Message) /\ Len(anyQ) \in Nat
  BY AnyQFacts DEF NotifierInv, QueueInv
<1>3. OnChain(best, b) /\ \A a \in Block : OnChain(a, best) => OnChain(a, b)
  BY <1>1, <1>2, OnChainFacts
<1>4. \/ Extended(anyQ, p, b)
      \/ p = anyQ /\ told' = FALSE /\ May("lost")
  BY ExtendedQueue
<1>5. /\ Prefix(anyQ, p) /\ Len(p) \in Nat /\ Len(p) <= Len(anyQ) + 1
      /\ \A i \in Len(anyQ) + 1 .. Len(p) : i = Len(p) /\ p[i] = NewBlock(b)
  BY ExtendedQueue
<1>6. \A i \in Len(anyQ) + 1 .. Len(p) : p[i].type = "block" /\ Target(p[i]) = b
  BY <1>5 DEF NewBlock, Target
<1>7. told' => p # <<>> /\ Target(p[Len(p)]) = b
  <2>1. CASE Extended(anyQ, p, b)
    <3>1. Len(p) = Len(anyQ) + 1 /\ p[Len(p)] = NewBlock(b)
      BY <2>1 DEF Extended
    <3>2. Len(p) # 0 /\ Len(<<>>) = 0
      BY <1>2, <3>1
    <3> QED BY <3>1, <3>2 DEF NewBlock, Target
  <2> QED BY <1>4, <2>1
<1>8. \A v \in Block, i \in 0 .. Len(anyQ) : Fits(v, anyQ, i, best) => Fits(v, p, i, b)
  BY <1>2, <1>3, <1>5, <1>6, FitsExtended
<1>9. ASSUME ~Faultless
      PROVE  /\ b \notin DeepBranch
             /\ \A m \in ReorgMessages : Known(m, best) => Keeps(m, best, b)
             /\ \A i \in Len(anyQ) + 1 .. Len(p) : Fits(Target(p[i]), p, i, b) /\ Nested(p[i], b)
  <2>1. b \notin DeepBranch
    BY <1>1, <1>9, ReplayFacts DEF NestedForks
  <2>2. ASSUME NEW m \in ReorgMessages, Known(m, best)
        PROVE  Keeps(m, best, b)
    <3>1. Anc(m) \in Block
      BY <1>2, <2>2, AncFacts
    <3> QED BY <1>3, <3>1 DEF Keeps
  <2>3. ASSUME NEW i \in Len(anyQ) + 1 .. Len(p)
        PROVE  Fits(Target(p[i]), p, i, b) /\ Nested(p[i], b)
    <3>1. i = Len(p) /\ p[i].type = "block" /\ Target(p[i]) = b /\ OnChain(b, b)
      BY <1>5, <1>6, OnChainFacts
    <3>2. i + 1 .. Len(p) = {}
      BY <1>5, <3>1
    <3> QED BY <3>1, <3>2 DEF Fits, Nested
  <2> QED BY <2>1, <2>2, <2>3
<1>10. ASSUME Faultless
       PROVE  /\ \A v \in Block, i \in 0 .. Len(anyQ) : Continues(v, anyQ, i, best) => Continues(v, p, i, b)
              /\ \A i \in Len(anyQ) + 1 .. Len(p) : p[i].type = "reorg" => Continues(p[i].new, p, i, b)
  <2>1. Extended(anyQ, p, b)
    BY <1>4, <1>10, ReplayFacts
  <2>2. \A v \in Block, i \in 0 .. Len(anyQ) : Continues(v, anyQ, i, best) => Continues(v, p, i, b)
    BY <1>1, <1>2, <2>1, ContinuesExtended
  <2> QED BY <1>6, <2>2
<1> QED BY <1>1, <1>5, <1>7, <1>8, <1>9, <1>10, MovedPipeline
-----------------------------------------------------------------------------
\* What may go wrong does not change.
LEMMA SameScenario == [Next]_vars => scenario' = scenario
  BY DEF Next, superQueue, overdueHandler, reorgHandler, vars, processBlock, catchUpMissedBlocks,
         stakeConnectBlock, collectOnce, blockdataConnectBlock, blockdataBlockStored, signalReorg,
         recordReorg, OverdueConnects, OverdueCollects, OverdueInserts, OverdueStored, HandlerOverdue,
         ReorgOverdue, blockdataReorgFails, NodeExtends, NodeReorganizes, stakeRewind, stakeConnect,
         chainRewind, TipToSideChain, TipMoved, chainConnect, chainStored

\* Every step preserves the invariant of these scenarios.
LEMMA NextPipeline == NotifierInv /\ PipelineInv /\ [Next]_vars => PipelineInv'
<1> SUFFICES ASSUME NotifierInv, PipelineInv, [Next]_vars, Replayable'
             PROVE  PipelineOK'
  BY DEF PipelineInv
<1>1. scenario' = scenario
  BY SameScenario
<1>2. Replayable /\ PipelineOK
  BY <1>1 DEF Replayable, NestedForks, PipelineInv
<1>3. CASE superQueue
  BY <1>2, <1>3, ProcessBlockPipeline, CatchUpPipeline, StakeConnectBlockPipeline,
     CollectOncePipeline, BlockdataConnectBlockPipeline, BlockdataBlockStoredPipeline,
     SignalReorgPipeline, StakeRewindPipeline, StakeConnectPipeline, ChainRewindPipeline,
     TipToSideChainPipeline, TipMovedPipeline, ChainConnectPipeline, ChainStoredPipeline,
     RecordReorgPipeline
  DEF superQueue, reorgHandler
<1>4. CASE overdueHandler \/ HandlerOverdue \/ ReorgOverdue
  BY <1>2, <1>4, NoneOverdue
<1>5. CASE blockdataReorgFails
  <2>1. UNCHANGED <<best, anyQ, previous, task, late, stakeTip, stakeSaved, poolInfo, rows, bestBlock,
                    overdue, clean, told, scenario>>
    BY <1>5 DEF blockdataReorgFails, node, stakeDB, chainDB
  <2> QED BY <1>2, <2>1, SamePipeline
<1>6. CASE \E b \in Block : NodeExtends(b) \/ NodeReorganizes(b)
  BY <1>2, <1>6, NodeExtendsPipeline, NodeReorganizesPipeline
<1>7. CASE UNCHANGED vars
  <2>1. UNCHANGED <<best, anyQ, previous, task, late, stakeTip, stakeSaved, poolInfo, rows, bestBlock,
                    overdue, clean, told, scenario>>
    BY <1>7 DEF vars, node, stakeDB, chainDB
  <2> QED BY <1>2, <2>1, SamePipeline
<1> QED BY <1>3, <1>4, <1>5, <1>6, <1>7 DEF Next

\* The two invariants hold in every state.
LEMMA PipelineInvariance == Spec => [](NotifierInv /\ PipelineInv)
<1>1. NotifierInv /\ PipelineInv /\ [Next]_vars => (NotifierInv /\ PipelineInv)'
  BY NextInv, NextPipeline
<1> QED BY <1>1, InitInv, InitPipeline, PTL DEF Spec

\* The rows lead to bestBlock, or to its child or its parent.
LEMMA RowsAndBest ==
    ASSUME NotifierInv, PipelineOK
    PROVE  /\ RowsTip \in Block /\ bestBlock \in Block
           /\ \/ RowsTip = bestBlock
              \/ RowsTip # Genesis /\ Parent[RowsTip] = bestBlock
              \/ bestBlock # Genesis /\ Parent[bestBlock] = RowsTip
<1>1. bestBlock \in Block
  BY DEF PipelineOK, TipsAgree
<1>2. CASE task.kind = "run" /\ task.group = "stored"
  <2>1. task.blk \in Block \ {Genesis} /\ bestBlock \in {task.blk, Parent[task.blk]}
    BY <1>2, StoresNext
  <2> QED BY <1>1, <1>2, <2>1 DEF RowsTip
<1>3. CASE task.kind = "reorg" /\ task.step \in {"flagged", "chainStored"}
  <2>1. /\ task.tips.new \in Block /\ Anc(task.tips) \in Block /\ ReorgInv(task.tips)
        /\ task.step = "chainStored" => task.todo # <<>>
    <3>1. task \in ReorgTasks /\ KnownTask(task, best) /\ best \in Block
      BY <1>3, TaskFacts DEF NotifierInv, TasksInv, QueueInv
    <3>2. task.tips \in ReorgMessages /\ Known(task.tips, best)
      BY <1>3, <3>1 DEF ReorgTasks, KnownTask
    <3>3. task.step = "chainStored" => task.todo # <<>>
      BY <1>3, <3>1 DEF KnownTask
    <3> QED BY <1>3, <3>1, <3>2, <3>3, AncFacts DEF PipelineOK, TipsAgree
  <2>2. CASE task.step = "flagged"
    <3>1. bestBlock # Anc(task.tips) /\ OnChain(Anc(task.tips), bestBlock) /\ task.todo = <<Parent[bestBlock]>>
      BY <2>1, <2>2 DEF ReorgInv
    <3>2. bestBlock # Genesis /\ Parent[bestBlock] \in Block
      BY <1>1, <2>1, <3>1, OnlyGenesis, HeightFacts
    <3>3. RowsTip = Parent[bestBlock]
      BY <1>3, <2>2, <3>1 DEF RowsTip
    <3> QED BY <1>1, <3>2, <3>3
  <2>3. CASE task.step = "chainStored"
    <3>1. OnChain(bestBlock, task.tips.new) /\ task.todo = BlocksAbove(task.tips.new, Height(bestBlock))
      BY <2>1, <2>3 DEF ReorgInv
    <3>2. Head(task.todo) \in Block \ {Genesis} /\ Parent[Head(task.todo)] = bestBlock
      BY <1>1, <2>1, <2>3, <3>1, BlocksAboveStep
    <3>3. RowsTip = Head(task.todo)
      BY <1>3, <2>1, <2>3 DEF RowsTip
    <3> QED BY <1>1, <3>2, <3>3
  <2> QED BY <1>3, <2>2, <2>3
<1>4. CASE ~(task.kind = "run" /\ task.group = "stored")
           /\ ~(task.kind = "reorg" /\ task.step \in {"flagged", "chainStored"})
  BY <1>1, <1>4 DEF RowsTip
<1> QED BY <1>2, <1>3, <1>4

(***************************************************************************)
(* The rows flagged is_mainchain are always exactly one chain, and it ends *)
(* at bestBlock or, between the statement that writes a row and the        *)
(* assignment of bestBlock (StoreBlock, TipToSideChain), one block beside  *)
(* it: whatever handlers of blocks fail, whatever notifications of blocks  *)
(* are lost, in the middle of a reorganisation (switchToSideChain) and     *)
(* while blocks are replayed (catchUpMissedBlocks).                        *)
(***************************************************************************)
THEOREM MainChainIsAlwaysBestChain == Spec => []MainChainIsBestChain
<1>1. NotifierInv /\ PipelineInv => MainChainIsBestChain
  <2> SUFFICES ASSUME NotifierInv, PipelineOK
               PROVE  /\ MainRows = BlocksOf(RowsTip)
                      /\ \/ RowsTip = bestBlock
                         \/ RowsTip # Genesis /\ Parent[RowsTip] = bestBlock
                         \/ bestBlock # Genesis /\ Parent[bestBlock] = RowsTip
    BY DEF PipelineInv, MainChainIsBestChain
  <2>1. MainRows = BlocksOf(RowsTip)
    BY DEF PipelineOK, TipsAgree
  <2> QED BY <2>1, RowsAndBest
<1> QED BY <1>1, PipelineInvariance, PTL

(***************************************************************************)
(* What notifier.previous records is always on the chains of the stake     *)
(* database and of ChainDB, and neither is more than one block ahead.      *)
(***************************************************************************)
THEOREM RecordedIsAlwaysProcessed == Spec => []RecordedIsProcessed
<1>1. PipelineInv => RecordedIsProcessed
  <2>1. task = Idle => task.kind = "idle"
    BY DEF Idle
  <2> QED BY <2>1 DEF PipelineInv, PipelineOK, TipsAgree, InStep, RecordedIsProcessed, Settled
<1> QED BY <1>1, PipelineInvariance, PTL

(***************************************************************************)
(* Once the last notification has been handled without a fault, ChainDB is *)
(* at dcrd's best block, whatever failed or got lost before, and           *)
(* TipToSideChain has never gone round for ever.                           *)
(***************************************************************************)
THEOREM ReplayAlwaysCatchesUp == Spec => []ReplayCatchesUp
<1>1. PipelineInv => ReplayCatchesUp
  <2> SUFFICES ASSUME PipelineOK
               PROVE  ~Hung /\ (task = Idle /\ anyQ = <<>> /\ clean /\ told => bestBlock = best)
    BY DEF PipelineInv, ReplayCatchesUp, TipToSideChainEnds
  <2>1. late = Idle /\ (task.kind = "reorg" => task.step # "hung")
    BY DEF PipelineOK, TipsAgree, ReorgInv
  <2>2. ~Hung
    BY <2>1 DEF Hung, Idle
  <2>3. task = Idle => task.kind = "idle"
    BY DEF Idle
  <2> QED BY <2>2, <2>3 DEF PipelineOK, CaughtUp
<1> QED BY <1>1, PipelineInvariance, PTL

\* A row comes or goes at the end of the chain, or bestBlock follows the rows.
LEMMA ChainMoves ==
    ASSUME NotifierInv, Replayable, PipelineOK, [Next]_vars
    PROVE  \/ MainRows' = MainRows /\ bestBlock' \in {bestBlock, RowsTip}
           \/ /\ bestBlock' = bestBlock /\ RowsTip = bestBlock
              /\ \E b \in Block \ {Genesis} : Parent[b] = bestBlock /\ MainRows' = MainRows \cup {b}
           \/ /\ bestBlock' = bestBlock /\ RowsTip = bestBlock
              /\ bestBlock # Genesis /\ MainRows' = MainRows \ {bestBlock}
<1>1. /\ rows \in [Block -> {"absent", "main", "side"}] /\ bestBlock \in Block
      /\ MainRows = BlocksOf(RowsTip) /\ bestBlock \in BlocksOf(bestBlock)
  <2>1. bestBlock \in Block
    BY DEF PipelineOK, TipsAgree
  <2> QED BY <2>1, BlocksOfFacts, OnChainFacts DEF NotifierInv, RowsInv, PipelineOK, TipsAgree
<1>2. ASSUME NEW b \in Block, NEW d, InsertBlock(b, d)
      PROVE  bestBlock' = bestBlock /\ MainRows' = MainRows \cup {b}
  BY <1>1, <1>2 DEF InsertBlock, MainRows
<1>3. CASE blockdataConnectBlock
  <2>1. task.kind = "run" /\ task.group \in {"hash", "best"}
    BY <1>3 DEF blockdataConnectBlock, Running, Collecting
  <2>2. UNCHANGED chainDB \/ InsertBlock(task.blk, Data(task))
    BY <1>3 DEF blockdataConnectBlock
  <2>3. task.blk \in Block \ {Genesis} /\ bestBlock \in {task.blk, Parent[task.blk]}
    BY <2>1, StoresNext
  <2>4. RowsTip = bestBlock
    BY <2>1 DEF RowsTip
  <2>5. CASE UNCHANGED chainDB
    BY <2>5 DEF chainDB, MainRows
  <2>6. CASE InsertBlock(task.blk, Data(task))
    <3>1. bestBlock' = bestBlock /\ MainRows' = MainRows \cup {task.blk}
      BY <1>2, <2>3, <2>6
    <3> QED BY <1>1, <2>3, <2>4, <3>1
  <2> QED BY <2>2, <2>5, <2>6
<1>4. CASE chainConnect("main")
  <2> DEFINE b == Head(task.todo)
  <2>1. /\ At("main", "chainConnect")
        /\ UNCHANGED chainDB \/ (task.todo # <<>> /\ InsertBlock(b, b))
    BY <1>4 DEF chainConnect, Doing
  <2>2. task.tips.new \in Block /\ ReorgInv(task.tips) /\ task.step = "chainConnect"
    BY <2>1, ReorgPipeline
  <2>3. OnChain(bestBlock, task.tips.new) /\ task.todo = BlocksAbove(task.tips.new, Height(bestBlock))
    BY <2>2 DEF ReorgInv
  <2>4. task.todo # <<>> => b \in Block \ {Genesis} /\ Parent[b] = bestBlock
    BY <1>1, <2>2, <2>3, BlocksAboveStep
  <2>5. RowsTip = bestBlock
    BY <2>1, <2>2 DEF RowsTip, At, Doing
  <2> HIDE DEF b
  <2>6. CASE UNCHANGED chainDB
    BY <2>6 DEF chainDB, MainRows
  <2>7. CASE task.todo # <<>> /\ InsertBlock(b, b)
    <3>1. b \in Block \ {Genesis} /\ Parent[b] = bestBlock
      BY <2>4, <2>7
    <3>2. bestBlock' = bestBlock /\ MainRows' = MainRows \cup {b}
      BY <1>2, <2>7, <3>1
    <3> QED BY <2>5, <3>1, <3>2
  <2> QED BY <2>1, <2>6, <2>7
<1>5. CASE TipToSideChain("main")
  <2>1. At("main", "toSideChain") /\ bestBlock' = bestBlock
    BY <1>5 DEF TipToSideChain
  <2>2. /\ Anc(task.tips) \in Block /\ ReorgInv(task.tips) /\ task.step = "toSideChain"
        /\ task.kind = "reorg"
    BY <2>1, ReorgPipeline
  <2>3. OnChain(Anc(task.tips), bestBlock) /\ Head(task.todo) = bestBlock
    BY <2>2 DEF ReorgInv
  <2>4. rows' = rows \/ (bestBlock # Anc(task.tips) /\ FlagAsSideChain(bestBlock))
    BY <1>5, <2>3 DEF TipToSideChain, Doing, Anc
  <2>5. RowsTip = bestBlock
    BY <2>2 DEF RowsTip
  <2>6. CASE rows' = rows
    BY <2>1, <2>6 DEF MainRows
  <2>7. CASE bestBlock # Anc(task.tips) /\ FlagAsSideChain(bestBlock)
    <3>1. bestBlock # Genesis
      BY <1>1, <2>2, <2>3, <2>7, OnlyGenesis
    <3>2. rows[bestBlock] = "main"
      BY <1>1, <2>5 DEF MainRows
    <3>3. rows' = [rows EXCEPT ![bestBlock] = "side"]
      BY <2>7, <3>2 DEF FlagAsSideChain
    <3>4. MainRows' = MainRows \ {bestBlock}
      BY <1>1, <3>3 DEF MainRows
    <3> QED BY <2>1, <2>5, <3>1, <3>4
  <2> QED BY <2>4, <2>6, <2>7
<1>6. CASE blockdataBlockStored
  <2>1. task.kind = "run" /\ task.group = "stored"
    BY <1>6 DEF blockdataBlockStored, Running
  <2>2. RowsTip = task.blk
    BY <2>1 DEF RowsTip
  <2> QED BY <1>6, <2>2 DEF blockdataBlockStored, SetBestBlock, chainDB, MainRows
<1>7. CASE TipMoved("main")
  <2>1. At("main", "flagged")
    BY <1>7 DEF TipMoved
  <2>2. ReorgInv(task.tips) /\ task.step = "flagged" /\ task.kind = "reorg"
    BY <2>1, ReorgPipeline
  <2>3. task.todo = <<Parent[bestBlock]>>
    BY <2>2 DEF ReorgInv
  <2>4. RowsTip = Head(task.todo)
    BY <2>2, <2>3 DEF RowsTip
  <2>5. rows' = rows /\ bestBlock' = Head(task.todo)
    BY <1>7, <2>3 DEF TipMoved, SetBestBlock, Doing
  <2> QED BY <2>4, <2>5 DEF MainRows
<1>8. CASE chainStored("main")
  <2>1. At("main", "chainStored") /\ rows' = rows /\ bestBlock' \in {bestBlock, Head(task.todo)}
    BY <1>8 DEF chainStored, SetBestBlock, Doing, chainDB
  <2>2. task.step = "chainStored" /\ task.kind = "reorg"
    BY <2>1, ReorgPipeline
  <2>3. task.todo # <<>>
    BY <2>2 DEF NotifierInv, TasksInv, KnownTask
  <2>4. RowsTip = Head(task.todo)
    BY <2>2, <2>3 DEF RowsTip
  <2> QED BY <2>1, <2>4 DEF MainRows
<1>9. CASE overdueHandler \/ HandlerOverdue \/ ReorgOverdue
  BY <1>9, NoneOverdue
<1>10. CASE \/ processBlock \/ catchUpMissedBlocks \/ stakeConnectBlock \/ collectOnce \/ signalReorg
            \/ stakeRewind("main") \/ stakeConnect("main") \/ chainRewind("main") \/ recordReorg
            \/ blockdataReorgFails \/ UNCHANGED vars
            \/ \E b \in Block : NodeExtends(b) \/ NodeReorganizes(b)
  <2>1. rows' = rows /\ bestBlock' = bestBlock
    BY <1>10 DEF processBlock, catchUpMissedBlocks, stakeConnectBlock, collectOnce, signalReorg,
                 stakeRewind, stakeConnect, chainRewind, recordReorg, blockdataReorgFails, vars, chainDB,
                 NodeExtends, NodeReorganizes
  <2> QED BY <2>1 DEF MainRows
<1> QED BY <1>3, <1>4, <1>5, <1>6, <1>7, <1>8, <1>9, <1>10 DEF Next, superQueue, reorgHandler

\* FollowedChain is about the same tree.
LEMMA SameTree == \A b : Followed!BlocksOf(b) = BlocksOf(b)
  BY DEF Followed!BlocksOf, Followed!ChainSet, Followed!Chain, Followed!ChainTo,
         BlocksOf, ChainSet, Chain, ChainTo

(***************************************************************************)
(* The pipeline implements FollowedChain: as long as only what the replay  *)
(* makes good fails, ChainDB's readers see one chain of dcrd's tree, where *)
(* StoreBlock adds the row of a child and TipToSideChain takes the last    *)
(* row off, one at a time, and bestBlock follows before the next row.      *)
(***************************************************************************)
THEOREM PipelineImplementsFollowedChain == Spec => ImplementsFollowedChain
<1> DEFINE main == IF Replayable THEN MainRows ELSE {Genesis}
           tip  == IF Replayable THEN bestBlock ELSE Genesis
<1>1. Init => Followed!Init
  <2> SUFFICES ASSUME Init
               PROVE  main = {Genesis} /\ tip = Genesis
    BY DEF Followed!Init
  <2>1. MainRows = {Genesis} /\ bestBlock = Genesis
    BY GenesisAssumption DEF Init, MainRows
  <2> QED BY <2>1
<1>2. ASSUME NotifierInv, PipelineInv, [Next]_vars
      PROVE  [Followed!Next]_<<main, tip>>
  <2>1. Replayable' <=> Replayable
    <3>1. scenario' = scenario
      BY <1>2, SameScenario
    <3> QED BY <3>1 DEF Replayable, NestedForks
  <2>2. CASE ~Replayable
    BY <2>1, <2>2
  <2>3. CASE Replayable
    <3>1. PipelineOK
      BY <1>2, <2>3 DEF PipelineInv
    <3>2. main = MainRows /\ main' = MainRows' /\ tip = bestBlock /\ tip' = bestBlock'
      BY <2>1, <2>3
    <3>3. main = BlocksOf(RowsTip) /\ RowsTip \in Block
      BY <1>2, <3>1, <3>2, RowsAndBest DEF PipelineOK, TipsAgree
    <3> HIDE DEF main, tip
    <3>4. \/ MainRows' = MainRows /\ bestBlock' \in {bestBlock, RowsTip}
          \/ /\ bestBlock' = bestBlock /\ RowsTip = bestBlock
             /\ \E b \in Block \ {Genesis} : Parent[b] = bestBlock /\ MainRows' = MainRows \cup {b}
          \/ /\ bestBlock' = bestBlock /\ RowsTip = bestBlock
             /\ bestBlock # Genesis /\ MainRows' = MainRows \ {bestBlock}
      BY <1>2, <2>3, <3>1, ChainMoves
    <3>5. CASE MainRows' = MainRows /\ bestBlock' = bestBlock
      BY <3>2, <3>5
    <3>6. CASE MainRows' = MainRows /\ bestBlock' = RowsTip
      <4>1. Followed!Settle(RowsTip)
        BY <3>2, <3>3, <3>6, SameTree DEF Followed!Settle, main, tip
      <4> QED BY <3>3, <4>1 DEF Followed!Next
    <3>7. CASE /\ bestBlock' = bestBlock /\ RowsTip = bestBlock
               /\ \E b \in Block \ {Genesis} : Parent[b] = bestBlock /\ MainRows' = MainRows \cup {b}
      <4>1. PICK b \in Block \ {Genesis} : Parent[b] = bestBlock /\ MainRows' = MainRows \cup {b}
        BY <3>7
      <4>2. Followed!Insert(b)
        BY <3>2, <3>3, <3>7, <4>1, SameTree DEF Followed!Insert, main, tip
      <4> QED BY <4>2 DEF Followed!Next
    <3>8. CASE /\ bestBlock' = bestBlock /\ RowsTip = bestBlock
               /\ bestBlock # Genesis /\ MainRows' = MainRows \ {bestBlock}
      <4>1. Followed!Remove
        BY <3>2, <3>3, <3>8, SameTree DEF Followed!Remove, main, tip
      <4> QED BY <4>1 DEF Followed!Next
    <3> QED BY <3>4, <3>5, <3>6, <3>7, <3>8
  <2> QED BY <2>2, <2>3
<1> QED BY <1>1, <1>2, PipelineInvariance, PTL DEF Spec, ImplementsFollowedChain, Followed!Spec

-----------------------------------------------------------------------------
(***************************************************************************)
(* One main chain block per height.  What follows is about the scenarios   *)
(* where nothing runs beside superQueue: also reorganisations fail half    *)
(* way, are given up or are never notified.  The main chain rows need not  *)
(* be one chain then, and the tips need not be on the same branch.         *)
(***************************************************************************)

UpTo(v, n) == v = n \/ Height(v) < Height(n)

\* Block v is not beside or above the head of a reorganisation after position i.
Behind(v, q, i) == \A j \in i + 1 .. Len(q) : q[j].type = "reorg" => UpTo(v, q[j].new)

\* No reorganisation after position i goes back further than f.
Below(f, q, i) == \A j \in i + 1 .. Len(q) : q[j].type = "reorg" => OnChain(f, Anc(q[j]))

(***************************************************************************)
(* The inductive invariant of these scenarios, in parts.  The queue leads  *)
(* to ever higher blocks, and back to ever higher ancestors.               *)
(***************************************************************************)
Rising(m, q, i) ==
    /\ Behind(Target(m), q, i)
    /\ m.type = "reorg" => Below(Anc(m), q, i)

QueueRising ==
    /\ best \notin DeepBranch
    /\ \A i \in 1 .. Len(anyQ) : Rising(anyQ[i], anyQ, i) /\ Nested(anyQ[i], best)

\* What is being handled comes before what is in the queue.
TipsBehind ==
    /\ Behind(stakeTip, anyQ, 0) /\ Height(stakeTip) <= Height(best)
    /\ task.kind \in {"catchup", "run"} =>
          Behind(task.bh, anyQ, 0) /\ Height(previous) < Height(task.bh)
    /\ task.kind = "run" =>
          /\ Height(task.blk) = Height(previous) + 1 /\ UpTo(task.blk, task.bh)
          /\ task.group # "stake" => stakeTip = task.blk
    /\ task.kind = "reorg" =>
          /\ Behind(task.tips.new, anyQ, 0) /\ Nested(task.tips, best)
          /\ UpTo(stakeTip, task.tips.new)

\* f is where some reorganisation went back to.
Root(f, top) ==
    f = Genesis \/ \E m \in ReorgMessages : Known(m, top) /\ Nested(m, top) /\ f = Anc(m)

\* Block f is the ancestor of the last reorganisation that was taken up: no
\* later one goes back further.
Floor(f) ==
    /\ OnChain(f, best) /\ Root(f, best) /\ Below(f, anyQ, 0)
    /\ task.kind = "reorg" => f = Anc(task.tips)

\* No row is above t, and those above f are on its chain.
LowRows(f, t) ==
    \A x \in MainRows : Height(x) <= Height(t) /\ (Height(x) > Height(f) => OnChain(x, t))

(***************************************************************************)
(* Either the stake database is too low for the next block to be connected *)
(* or it is in line: the next block stored is bestBlock again, or higher   *)
(* and, if bestBlock is above f, on top of bestBlock's chain.              *)
(***************************************************************************)
InLine(f) ==
    \/ Height(stakeTip) < Height(previous)
    \/ /\ OnChain(previous, stakeTip) /\ Height(stakeTip) <= Height(previous) + 1
       /\ \/ bestBlock = stakeTip /\ bestBlock \in MainRows
          \/ /\ Height(bestBlock) <= Height(previous)
             /\ Height(bestBlock) <= Height(f) \/ OnChain(bestBlock, stakeTip)

\* StoreBlock has inserted the row of a block that is in line.
RowInserted(f) ==
    LowRows(f, task.blk) /\ task.blk \in MainRows /\ OnChain(previous, task.blk)

(***************************************************************************)
(* During reorganisation r: what is still to be connected is on its new    *)
(* chain.  TipToSideChain has the rows of bestBlock's chain to flag until  *)
(* it is below the ancestor, where it gets lost.                           *)
(***************************************************************************)
ReorgRows(r) ==
    /\ task.step = "stakeConnect" => \A i \in 1 .. Len(task.todo) : OnChain(task.todo[i], r.new)
    /\ task.step \notin {"toSideChain", "flagged", "chainStored"} => LowRows(Anc(r), bestBlock)
    /\ task.step = "toSideChain" =>
          /\ task.todo = <<bestBlock>>
          /\ Height(bestBlock) >= Height(Anc(r)) => LowRows(Anc(r), bestBlock)
    /\ task.step = "flagged" /\ task.todo # <<>> =>
          /\ Head(task.todo) \in Block /\ task.todo = <<Head(task.todo)>>
          /\ Height(Head(task.todo)) >= Height(Anc(r)) => LowRows(Anc(r), Head(task.todo))
    /\ task.step = "chainConnect" =>
          Height(bestBlock) <= Height(r.new) /\ task.todo = BlocksAbove(r.new, Height(bestBlock))
    /\ task.step = "chainStored" =>
          /\ Head(task.todo) \in Block /\ OnChain(Head(task.todo), r.new)
          /\ Tail(task.todo) = BlocksAbove(r.new, Height(Head(task.todo)))
          /\ LowRows(Anc(r), Head(task.todo))
    /\ task.step \in {"chainConnect", "record"} =>
          Height(bestBlock) <= Height(Anc(r)) \/ OnChain(bestBlock, r.new)

RowsAbove(f) ==
    /\ task.kind = "run" /\ task.group = "stored" => RowInserted(f)
    /\ task.kind # "reorg" /\ (task.kind = "run" => task.group # "stored") =>
          LowRows(f, bestBlock) /\ InLine(f)
    /\ task.kind = "reorg" => ReorgRows(task.tips)

SingleOK ==
    /\ late = Idle /\ overdue = {} /\ OneMainRow /\ QueueRising /\ TipsBehind
    /\ \E f \in Block : Floor(f) /\ (~Hung => RowsAbove(f))

SingleInv == OneAtATime => SingleOK

-----------------------------------------------------------------------------
(* Queues that rise.                                                       *)

\* What comes after a position of a queue comes one earlier in its tail.
LEMMA RisingTail ==
    ASSUME NEW q, Queue(q), q # <<>>, NEW i \in 1 .. Len(q), NEW v
    PROVE  /\ Behind(v, q, i) => Behind(v, Tail(q), i - 1)
           /\ Below(v, q, i) => Below(v, Tail(q), i - 1)
           /\ Behind(v, q, 0) => Behind(v, Tail(q), 0)
           /\ Below(v, q, 0) => Below(v, Tail(q), 0)
<1>1. /\ Len(q) \in Nat \ {0} /\ Len(Tail(q)) = Len(q) - 1
      /\ \A k \in 1 .. Len(q) - 1 : Tail(q)[k] = q[k + 1]
  BY TailFacts
<1>2. ASSUME NEW j \in i - 1 + 1 .. Len(Tail(q))
      PROVE  j + 1 \in i + 1 .. Len(q) /\ Tail(q)[j] = q[j + 1]
  BY <1>1
<1>3. ASSUME NEW j \in 0 + 1 .. Len(Tail(q))
      PROVE  j + 1 \in 0 + 1 .. Len(q) /\ Tail(q)[j] = q[j + 1]
  BY <1>1
<1> QED BY <1>2, <1>3 DEF Behind, Below

\* The first message of a queue, and what is before it.
LEMMA RisingHead ==
    ASSUME NEW q, Queue(q), q # <<>>, q[1].type = "reorg", NEW v
    PROVE  /\ Behind(v, q, 0) => UpTo(v, q[1].new)
           /\ Below(v, q, 0) => OnChain(v, Anc(q[1]))
<1>1. Len(q) \in Nat \ {0}
  BY TailFacts
<1>2. 1 \in 0 + 1 .. Len(q)
  BY <1>1
<1> QED BY <1>2 DEF Behind, Below

\* Lower blocks come before what is in the queue, too.
LEMMA BehindLower ==
    ASSUME NEW q, Queue(q), NEW i \in Nat, NEW n \in Block, NEW v \in Block,
           UpTo(v, n), Behind(n, q, i)
    PROVE  Behind(v, q, i)
<1>1. ASSUME NEW j \in i + 1 .. Len(q), q[j].type = "reorg"
      PROVE  UpTo(v, q[j].new)
  <2>1. j \in 1 .. Len(q) /\ q \in Seq(Message)
    BY DEF Queue
  <2>2. q[j] \in Message
    BY <2>1
  <2>3. q[j].new \in Block /\ UpTo(n, q[j].new)
    BY <1>1, <2>2, MessageFacts DEF Behind
  <2>4. Height(v) \in Nat /\ Height(n) \in Nat /\ Height(q[j].new) \in Nat
    BY <2>3, HeightFacts
  <2> QED BY <2>3, <2>4 DEF UpTo
<1> QED BY <1>1 DEF Behind

\* A block of a chain is its head or lower.
LEMMA UpToFacts ==
    /\ \A a, b \in Block : OnChain(a, b) => UpTo(a, b)
    /\ \A a, b, c \in Block : UpTo(a, b) /\ UpTo(b, c) => UpTo(a, c)
    /\ \A a, b \in Block : UpTo(a, b) => Height(a) <= Height(b)
<1>1. ASSUME NEW a \in Block, NEW b \in Block, OnChain(a, b)
      PROVE  UpTo(a, b)
  <2>1. Height(a) \in Nat /\ Height(b) \in Nat
    BY HeightFacts
  <2>2. Height(a) >= Height(b) => a = b
    BY <1>1, OnChainFacts
  <2> QED BY <2>1, <2>2 DEF UpTo
<1>2. \A a \in Block : Height(a) \in Nat
  BY HeightFacts
<1> QED BY <1>1, <1>2 DEF UpTo

\* The queue still rises when its first message is taken.
LEMMA TakenRising ==
    ASSUME QueueInv, QueueRising, anyQ # <<>>, anyQ' = Tail(anyQ), best' = best
    PROVE  /\ QueueRising' /\ Queue(anyQ) /\ Queue(anyQ')
           /\ Head(anyQ) = anyQ[1] /\ Head(anyQ) \in Message /\ Known(Head(anyQ), best)
           /\ Nested(Head(anyQ), best) /\ Rising(Head(anyQ), anyQ', 0)
<1>1. /\ Queue(anyQ) /\ Len(anyQ) \in Nat /\ best \in Block
      /\ \A i \in 1 .. Len(anyQ) : anyQ[i] \in Message /\ Known(anyQ[i], best)
  BY AnyQFacts
<1>2. /\ Len(anyQ) \in Nat \ {0} /\ Len(anyQ') = Len(anyQ) - 1 /\ Head(anyQ) = anyQ[1]
      /\ \A k \in 1 .. Len(anyQ) - 1 : anyQ'[k] = anyQ[k + 1]
      /\ Queue(anyQ')
  BY <1>1, TailFacts
<1>3. 1 \in 1 .. Len(anyQ)
  BY <1>2
<1>4. ASSUME NEW i \in 1 .. Len(anyQ)
      PROVE  Rising(anyQ[i], anyQ', i - 1) /\ Nested(anyQ[i], best)
  <2>1. Rising(anyQ[i], anyQ, i) /\ Nested(anyQ[i], best)
    BY DEF QueueRising
  <2>2. \A v : /\ Behind(v, anyQ, i) => Behind(v, anyQ', i - 1)
               /\ Below(v, anyQ, i) => Below(v, anyQ', i - 1)
    BY <1>1, RisingTail
  <2> QED BY <2>1, <2>2 DEF Rising
<1>5. ASSUME NEW k \in 1 .. Len(anyQ')
      PROVE  Rising(anyQ'[k], anyQ', k) /\ Nested(anyQ'[k], best')
  <2>1. k + 1 \in 1 .. Len(anyQ) /\ anyQ'[k] = anyQ[k + 1] /\ k + 1 - 1 = k
    BY <1>2
  <2>2. Rising(anyQ[k + 1], anyQ', k + 1 - 1) /\ Nested(anyQ[k + 1], best)
    BY <1>4, <2>1
  <2> QED BY <2>1, <2>2
<1>6. QueueRising'
  <2>1. best' \notin DeepBranch
    BY DEF QueueRising
  <2> QED BY <1>5, <2>1 DEF QueueRising
<1>7. Rising(anyQ[1], anyQ', 0)
  BY <1>3, <1>4
<1> QED BY <1>1, <1>2, <1>3, <1>4, <1>6, <1>7
-----------------------------------------------------------------------------
(* The pipeline, where nothing runs beside superQueue.                     *)

\* At the start.
LEMMA InitSingle == Init => SingleInv
<1> SUFFICES ASSUME Init
             PROVE  SingleOK
  BY DEF SingleInv
<1>1. /\ best = Genesis /\ anyQ = <<>> /\ previous = Genesis /\ task = Idle /\ late = Idle
      /\ stakeTip = Genesis /\ bestBlock = Genesis /\ overdue = {}
      /\ rows = [b \in Block |-> IF b = Genesis THEN "main" ELSE "absent"]
  BY DEF Init
<1>2. MainRows = {Genesis} /\ task.kind = "idle" /\ Genesis \in Block
  BY <1>1, GenesisAssumption DEF MainRows, Idle
<1>3. OnChain(Genesis, Genesis) /\ Height(Genesis) = 0
  BY <1>2, OnChainFacts, HeightFacts
<1>4. 0 + 1 .. Len(anyQ) = {} /\ 1 .. Len(anyQ) = {}
  BY <1>1
<1>5. QueueRising /\ TipsBehind
  BY <1>1, <1>2, <1>3, <1>4, NestedForksAssumption DEF QueueRising, TipsBehind, Behind
<1>6. Floor(Genesis)
  BY <1>1, <1>2, <1>3, <1>4 DEF Floor, Root, Below
<1>7. RowsAbove(Genesis)
  BY <1>1, <1>2, <1>3 DEF RowsAbove, LowRows, InLine, Idle
<1> QED BY <1>1, <1>2, <1>5, <1>6, <1>7 DEF SingleOK, OneMainRow

\* What the invariant says of a process that runs.
LEMMA SingleFacts ==
    ASSUME NotifierInv, SingleOK, Alive
    PROVE  /\ late = Idle /\ overdue = {} /\ OneMainRow /\ QueueRising /\ TipsBehind
           /\ best \in Block /\ previous \in Block /\ stakeTip \in Block /\ bestBlock \in Block
           /\ Height(best) \in Nat /\ Height(previous) \in Nat
           /\ Height(stakeTip) \in Nat /\ Height(bestBlock) \in Nat
           /\ Queue(anyQ) /\ MainRows \subseteq Block
           /\ \E f \in Block : Floor(f) /\ RowsAbove(f)
<1>1. best \in Block /\ previous \in Block /\ stakeTip \in Block /\ bestBlock \in Block
  BY AliveFacts DEF NotifierInv, QueueInv, TipsInv
<1>2. Queue(anyQ)
  BY AnyQFacts DEF NotifierInv
<1> QED BY <1>1, <1>2, HeightFacts DEF SingleOK, Alive, MainRows

\* A step that leaves the queue and the floor.
LEMMA SingleStep ==
    ASSUME SingleOK, UNCHANGED <<best, anyQ, overdue>>, late' = late,
           NEW f \in Block, Floor(f), OneMainRow', TipsBehind',
           task'.kind = "reorg" => f = Anc(task'.tips),
           ~Hung' => RowsAbove(f)'
    PROVE  SingleOK'
<1>1. QueueRising'
  BY DEF SingleOK, QueueRising
<1>2. Floor(f)'
  BY DEF Floor
<1> QED BY <1>1, <1>2 DEF SingleOK

\* Nothing that counts changes.
LEMMA SameSingle ==
    ASSUME SingleOK,
           UNCHANGED <<best, anyQ, previous, task, late, stakeTip, rows, bestBlock, overdue>>
    PROVE  SingleOK'
<1>1. PICK f \in Block : Floor(f) /\ (~Hung => RowsAbove(f))
  BY DEF SingleOK
<1>2. OneMainRow' /\ TipsBehind'
  BY DEF SingleOK, OneMainRow, MainRows, TipsBehind
<1>3. Hung' <=> Hung
  BY DEF Hung
<1>4. RowsAbove(f) => RowsAbove(f)'
  BY DEF RowsAbove, LowRows, MainRows, InLine, RowInserted, ReorgRows
<1>5. task'.kind = "reorg" => f = Anc(task'.tips)
  BY <1>1 DEF Floor
<1> QED BY <1>1, <1>2, <1>3, <1>4, <1>5, SingleStep

\* A block or a reorganisation is taken from the queue, and no reorganisation begins.
LEMMA TakenSingle ==
    ASSUME NotifierInv, SingleOK, NEW type, Receive(type),
           UNCHANGED <<best, previous, stakeTip, rows, bestBlock, overdue, late>>,
           task'.kind # "reorg",
           task'.kind \in {"catchup", "run"} =>
               type = "block" /\ task'.bh = Head(anyQ).block /\ Height(previous) < Height(task'.bh),
           task'.kind = "run" =>
               Height(task'.blk) = Height(previous) + 1 /\ task'.blk = task'.bh /\ task'.group = "stake"
    PROVE  SingleOK'
<1>1. /\ Alive /\ task = Idle /\ task.kind = "idle" /\ anyQ # <<>> /\ anyQ' = Tail(anyQ)
      /\ Head(anyQ).type = type /\ QueueInv
  BY DEF Receive, Idle, NotifierInv
<1>2. late = Idle /\ overdue = {} /\ OneMainRow /\ QueueRising /\ TipsBehind /\ Queue(anyQ)
  BY <1>1, SingleFacts
<1>3. QueueRising' /\ Rising(Head(anyQ), anyQ', 0)
  BY <1>1, <1>2, TakenRising
<1>4. PICK f \in Block : Floor(f) /\ RowsAbove(f)
  BY <1>1, SingleFacts
<1>5. 1 \in 1 .. Len(anyQ)
  <2>1. Len(anyQ) \in Nat \ {0}
    BY <1>1, <1>2, TailFacts
  <2> QED BY <2>1
<1>6. Below(f, anyQ', 0) /\ Behind(stakeTip, anyQ', 0)
  <2>1. Below(f, anyQ, 0) /\ Behind(stakeTip, anyQ, 0)
    BY <1>2, <1>4 DEF Floor, TipsBehind
  <2> QED BY <1>1, <1>2, <1>5, <2>1, RisingTail
<1>7. type = "block" => Behind(Head(anyQ).block, anyQ', 0)
  BY <1>1, <1>3 DEF Rising, Target
<1>8. TipsBehind'
  <2>1. task'.kind \in {"catchup", "run"} => Behind(task'.bh, anyQ', 0)
    BY <1>7
  <2> QED BY <1>2, <1>6, <2>1 DEF TipsBehind, UpTo
<1>9. Floor(f)'
  BY <1>4, <1>6 DEF Floor
<1>10. RowsAbove(f)'
  BY <1>1, <1>4 DEF RowsAbove, LowRows, MainRows, InLine
<1>11. OneMainRow'
  BY <1>2 DEF OneMainRow, MainRows
<1> QED BY <1>2, <1>3, <1>8, <1>9, <1>10, <1>11 DEF SingleOK

\* A block is run, replayed to, or discarded.
LEMMA ProcessBlockSingle ==
    ASSUME NotifierInv, SingleOK, processBlock
    PROVE  SingleOK'
<1> DEFINE bh == Head(anyQ).block
<1>1. /\ Receive("block") /\ bh # Genesis /\ task = Idle /\ Alive
      /\ UNCHANGED <<best, previous, stakeTip, rows, bestBlock, overdue, late>>
  BY DEF processBlock, stakeDB, chainDB, Receive
<1>2. bh \in Block
  <2>1. Head(anyQ) \in Message /\ Head(anyQ).type = "block"
    BY <1>1, ReceiveInv
  <2> QED BY <2>1, MessageFacts
<1>3. Height(bh) \in Nat /\ Height(previous) \in Nat
  BY <1>1, <1>2, HeightFacts, SingleFacts
<1>4. \/ Connects(bh) /\ task' = Run(bh, bh, "stake")
      \/ CanCatchUp(bh) /\ task' = CatchUp(bh)
      \/ task' = Idle
  BY <1>1 DEF processBlock
<1> HIDE DEF bh
<1>5. CASE Connects(bh) /\ task' = Run(bh, bh, "stake")
  <2>1. task'.kind = "run" /\ task'.bh = bh /\ task'.blk = bh /\ task'.group = "stake"
    BY <1>5 DEF Run
  <2>2. Height(bh) = Height(previous) + 1
    BY <1>1, <1>2, <1>5, HeightFacts DEF Connects
  <2>3. Height(previous) < Height(bh)
    BY <1>3, <2>2
  <2>4. bh = Head(anyQ).block
    BY DEF bh
  <2> QED BY <1>1, <2>1, <2>2, <2>3, <2>4, TakenSingle
<1>6. CASE CanCatchUp(bh) /\ task' = CatchUp(bh)
  <2>1. task'.kind = "catchup" /\ task'.bh = bh
    BY <1>6 DEF CatchUp
  <2>2. Height(previous) < Height(bh)
    BY <1>3, <1>6 DEF CanCatchUp
  <2>3. bh = Head(anyQ).block
    BY DEF bh
  <2> QED BY <1>1, <2>1, <2>2, <2>3, TakenSingle
<1>7. CASE task' = Idle
  <2>1. task'.kind = "idle"
    BY <1>7 DEF Idle
  <2> QED BY <1>1, <2>1, TakenSingle
<1> QED BY <1>4, <1>5, <1>6, <1>7

\* A step of superQueue with a block: what it has stays in line.
LEMMA BlockStepSingle ==
    ASSUME NotifierInv, SingleOK, Alive, task.kind \in {"catchup", "run"},
           UNCHANGED <<best, anyQ, overdue, late>>, task'.kind # "reorg",
           task'.kind = "run" => task'.group # "stored",
           NEW f \in Block, Floor(f), OneMainRow', LowRows(f, bestBlock)', InLine(f)', TipsBehind'
    PROVE  SingleOK'
<1>1. RowsAbove(f)'
  BY DEF RowsAbove
<1> QED BY <1>1, SingleStep

\* One iteration of the replay.
LEMMA CatchUpSingle ==
    ASSUME NotifierInv, SingleOK, catchUpMissedBlocks
    PROVE  SingleOK'
<1> DEFINE h == Height(previous) + 1
<1>1. /\ Alive /\ task.kind = "catchup"
      /\ UNCHANGED <<best, anyQ, previous, stakeTip, rows, bestBlock, overdue, late>>
  BY DEF catchUpMissedBlocks, node, stakeDB, chainDB
<1>2. /\ OneMainRow /\ TipsBehind /\ best \in Block /\ Height(best) \in Nat /\ Height(previous) \in Nat
      /\ stakeTip \in Block /\ Height(stakeTip) \in Nat
  BY <1>1, SingleFacts
<1>3. task.bh \in Block /\ Height(task.bh) <= Height(best)
  BY <1>1, TaskFacts DEF NotifierInv, TasksInv, KnownTask
<1>4. Height(task.bh) \in Nat /\ Behind(task.bh, anyQ, 0) /\ Height(previous) < Height(task.bh)
  BY <1>1, <1>2, <1>3, HeightFacts DEF TipsBehind
<1>5. PICK f \in Block : Floor(f) /\ RowsAbove(f)
  BY <1>1, SingleFacts
<1>6. OneMainRow' /\ LowRows(f, bestBlock)' /\ InLine(f)'
  BY <1>1, <1>2, <1>5 DEF OneMainRow, RowsAbove, LowRows, MainRows, InLine
<1>7. \/ h < Height(task.bh) /\ task' = Run(task.bh, BlockAt(best, h), "stake")
      \/ Connects(task.bh) /\ task' = Run(task.bh, task.bh, "stake")
      \/ task' = Idle
  BY DEF catchUpMissedBlocks
<1>8. CASE h < Height(task.bh) /\ task' = Run(task.bh, BlockAt(best, h), "stake")
  <2> DEFINE c == BlockAt(best, h)
  <2>1. task'.kind = "run" /\ task'.bh = task.bh /\ task'.blk = c /\ task'.group = "stake"
    BY <1>8 DEF Run
  <2>2. h \in 0 .. Height(best)
    BY <1>2, <1>3, <1>4, <1>8
  <2>3. Height(c) = Height(previous) + 1
    BY <1>2, <2>2, BlockAtFacts
  <2> HIDE DEF c
  <2>4. UpTo(c, task.bh)
    BY <1>8, <2>3 DEF UpTo
  <2>5. TipsBehind'
    BY <1>1, <1>2, <1>4, <2>1, <2>3, <2>4 DEF TipsBehind
  <2> QED BY <1>1, <1>5, <1>6, <2>1, <2>5, BlockStepSingle
<1>9. CASE Connects(task.bh) /\ task' = Run(task.bh, task.bh, "stake")
  <2>1. task'.kind = "run" /\ task'.bh = task.bh /\ task'.blk = task.bh /\ task'.group = "stake"
    BY <1>9 DEF Run
  <2>2. task.bh # Genesis
    BY <1>2, <1>4, HeightFacts
  <2>3. Height(task.bh) = Height(previous) + 1
    BY <1>3, <1>9, <2>2, HeightFacts DEF Connects
  <2>4. TipsBehind'
    BY <1>1, <1>2, <1>4, <2>1, <2>3 DEF TipsBehind, UpTo
  <2> QED BY <1>1, <1>5, <1>6, <2>1, <2>4, BlockStepSingle
<1>10. CASE task' = Idle
  <2>1. task'.kind = "idle"
    BY <1>10 DEF Idle
  <2>2. TipsBehind'
    BY <1>1, <1>2, <2>1 DEF TipsBehind
  <2> QED BY <1>1, <1>5, <1>6, <2>1, <2>2, BlockStepSingle
<1> QED BY <1>7, <1>8, <1>9, <1>10

\* What superQueue has of the block whose handlers it runs.
LEMMA RunSingle ==
    ASSUME NotifierInv, SingleOK, Alive, task.kind = "run"
    PROVE  /\ task \in RunTasks /\ task.blk \in Block /\ task.bh \in Block
           /\ Height(task.blk) \in Nat /\ Height(task.bh) \in Nat
           /\ Height(task.blk) = Height(previous) + 1 /\ task.blk # Genesis
           /\ UpTo(task.blk, task.bh) /\ Behind(task.blk, anyQ, 0)
           /\ Height(task.blk) <= Height(best)
           /\ task.group # "stake" => stakeTip = task.blk
<1>1. task \in RunTasks /\ task.blk \in Block /\ task.bh \in Block /\ Height(task.bh) <= Height(best)
  BY RunFacts
<1>2. /\ Height(task.blk) = Height(previous) + 1 /\ UpTo(task.blk, task.bh)
      /\ Behind(task.bh, anyQ, 0) /\ (task.group # "stake" => stakeTip = task.blk)
  BY SingleFacts DEF TipsBehind
<1>3. Height(task.blk) \in Nat /\ Height(task.bh) \in Nat /\ Height(best) \in Nat /\ Height(previous) \in Nat
  BY <1>1, HeightFacts, SingleFacts
<1>4. Behind(task.blk, anyQ, 0)
  BY <1>1, <1>2, SingleFacts, BehindLower
<1>5. Height(task.blk) <= Height(best)
  <2>1. Height(task.blk) <= Height(task.bh)
    BY <1>1, <1>2, UpToFacts
  <2> QED BY <1>1, <1>3, <2>1
<1>6. task.blk # Genesis
  BY <1>2, <1>3, HeightFacts
<1> QED BY <1>1, <1>2, <1>3, <1>4, <1>5, <1>6

\* A handler of a block fails: superQueue is idle again.
LEMMA FailedSingle ==
    ASSUME NotifierInv, SingleOK, Alive, task.kind = "run", task' = Idle,
           UNCHANGED <<best, anyQ, previous, overdue, late>>,
           NEW f \in Block, Floor(f), OneMainRow', LowRows(f, bestBlock)', InLine(f)',
           stakeTip' \in {stakeTip, task.blk}
    PROVE  SingleOK'
<1>1. task'.kind = "idle"
  BY DEF Idle
<1>2. Behind(stakeTip', anyQ, 0) /\ Height(stakeTip') <= Height(best)
  BY RunSingle, SingleFacts DEF TipsBehind
<1>3. TipsBehind'
  BY <1>1, <1>2 DEF TipsBehind
<1> QED BY <1>1, <1>3, BlockStepSingle

\* The stake database connects the block only where it is in line.
LEMMA AcceptedInLine ==
    ASSUME NotifierInv, SingleOK, Alive, task.kind = "run", NEW f \in Block, InLine(f),
           StakeAccepts(task.blk), stakeTip' = task.blk,
           UNCHANGED <<previous, rows, bestBlock>>
    PROVE  InLine(f)'
<1> DEFINE b == task.blk
<1>1. /\ b \in Block \ {Genesis} /\ Height(b) \in Nat /\ Height(b) = Height(previous) + 1
      /\ previous \in Block /\ stakeTip \in Block /\ bestBlock \in Block
      /\ Height(previous) \in Nat /\ Height(stakeTip) \in Nat /\ Height(bestBlock) \in Nat
      /\ Height(f) \in Nat
  BY RunSingle, SingleFacts, HeightFacts
<1>2. b = stakeTip \/ Parent[b] = stakeTip
  BY DEF StakeAccepts
<1> HIDE DEF b
<1>3. CASE b = stakeTip
  BY <1>3 DEF InLine, MainRows, b
<1>4. CASE Parent[b] = stakeTip
  <2>1. Height(stakeTip) = Height(previous)
    <3>1. Height(b) = Height(stakeTip) + 1
      BY <1>1, <1>4, HeightFacts
    <3> QED BY <1>1, <3>1
  <2>2. ~(Height(stakeTip) < Height(previous))
    BY <1>1, <2>1
  <2>3. /\ OnChain(previous, stakeTip)
        /\ \/ bestBlock = stakeTip
           \/ /\ Height(bestBlock) <= Height(previous)
              /\ Height(bestBlock) <= Height(f) \/ OnChain(bestBlock, stakeTip)
    BY <2>2 DEF InLine
  <2>4. OnChain(stakeTip, b) /\ OnChain(previous, b) /\ (OnChain(bestBlock, stakeTip) => OnChain(bestBlock, b))
    BY <1>1, <1>4, <2>3, OnChainFacts
  <2>5. bestBlock = stakeTip => Height(bestBlock) <= Height(previous) /\ OnChain(bestBlock, b)
    BY <1>1, <2>1, <2>4
  <2>6. Height(b) <= Height(previous) + 1
    BY <1>1
  <2>7. \/ Height(bestBlock) <= Height(previous) /\ Height(bestBlock) <= Height(f)
        \/ Height(bestBlock) <= Height(previous) /\ OnChain(bestBlock, b)
    BY <2>3, <2>4, <2>5
  <2> QED BY <2>4, <2>6, <2>7 DEF InLine, b
<1> QED BY <1>2, <1>3, <1>4

\* The first group of handlers.
LEMMA StakeConnectBlockSingle ==
    ASSUME NotifierInv, SingleOK, stakeConnectBlock
    PROVE  SingleOK'
<1>1. /\ Alive /\ task.kind = "run" /\ task.group = "stake"
      /\ UNCHANGED <<best, anyQ, rows, bestBlock, overdue, late>>
  BY DEF stakeConnectBlock, Running, node, chainDB
<1>2. PICK f \in Block : Floor(f) /\ RowsAbove(f)
  BY <1>1, SingleFacts
<1>3. LowRows(f, bestBlock) /\ InLine(f) /\ OneMainRow
  BY <1>1, <1>2, SingleFacts DEF RowsAbove
<1>4. OneMainRow' /\ LowRows(f, bestBlock)'
  BY <1>1, <1>3 DEF OneMainRow, LowRows, MainRows
<1>5. ASSUME StakeAccepts(task.blk), stakeTip' = task.blk, previous' = previous
      PROVE  InLine(f)'
  BY <1>1, <1>3, <1>5, AcceptedInLine
<1>6. CASE /\ StakeAccepts(task.blk) /\ stakeTip' = task.blk
           /\ task' = [task EXCEPT !.group = "collect"] /\ previous' = previous
  <2>1. /\ task \in RunTasks /\ Height(task.blk) = Height(previous) + 1 /\ UpTo(task.blk, task.bh)
        /\ Behind(task.blk, anyQ, 0) /\ Height(task.blk) <= Height(best)
    BY <1>1, RunSingle
  <2>2. task'.kind = "run" /\ task'.bh = task.bh /\ task'.blk = task.blk /\ task'.group = "collect"
    BY <1>6, <2>1 DEF RunTasks
  <2>3. Behind(task.bh, anyQ, 0) /\ Height(previous) < Height(task.bh)
    BY <1>1, SingleFacts DEF TipsBehind
  <2>4. TipsBehind'
    BY <1>1, <1>6, <2>1, <2>2, <2>3 DEF TipsBehind
  <2> QED BY <1>1, <1>2, <1>4, <1>5, <1>6, <2>2, <2>4, BlockStepSingle
<1>7. CASE StakeAccepts(task.blk) /\ stakeTip' = task.blk /\ task' = Idle /\ previous' = previous
  BY <1>1, <1>2, <1>4, <1>5, <1>7, FailedSingle
<1>8. CASE stakeTip' = stakeTip /\ task' = Idle /\ previous' = previous
  <2>1. InLine(f)'
    BY <1>1, <1>3, <1>8 DEF InLine, MainRows
  <2> QED BY <1>1, <1>2, <1>4, <1>8, <2>1, FailedSingle
<1>9. \/ /\ StakeAccepts(task.blk) /\ stakeTip' = task.blk
         /\ task' = [task EXCEPT !.group = "collect"] /\ previous' = previous
      \/ StakeAccepts(task.blk) /\ stakeTip' = task.blk /\ task' = Idle /\ previous' = previous
      \/ stakeTip' = stakeTip /\ task' = Idle /\ previous' = previous
  BY DEF stakeConnectBlock, StakeConnect, StakeConnectUnsaved, HandlersFail, stakeDB
<1> QED BY <1>6, <1>7, <1>8, <1>9

\* blockdata gets reorgLock.
LEMMA CollectOnceSingle ==
    ASSUME NotifierInv, SingleOK, collectOnce
    PROVE  SingleOK'
<1>1. /\ Alive /\ task.kind = "run" /\ task.group = "collect"
      /\ task' = [task EXCEPT !.group = CollectBy(task.blk)]
      /\ UNCHANGED <<best, anyQ, previous, stakeTip, rows, bestBlock, overdue, late>>
  BY DEF collectOnce, Running, node, stakeDB, chainDB
<1>2. PICK f \in Block : Floor(f) /\ RowsAbove(f)
  BY <1>1, SingleFacts
<1>3. OneMainRow' /\ LowRows(f, bestBlock)' /\ InLine(f)'
  BY <1>1, <1>2, SingleFacts DEF OneMainRow, RowsAbove, LowRows, MainRows, InLine
<1>4. task \in RunTasks /\ stakeTip = task.blk /\ TipsBehind
  BY <1>1, RunSingle, SingleFacts
<1>5. /\ task'.kind = "run" /\ task'.bh = task.bh /\ task'.blk = task.blk
      /\ task'.group \notin {"stake", "stored"}
  BY <1>1, <1>4 DEF RunTasks, CollectBy
<1>6. TipsBehind'
  BY <1>1, <1>4, <1>5 DEF TipsBehind
<1> QED BY <1>1, <1>2, <1>3, <1>5, <1>6, BlockStepSingle

\* The rows after a block is stored.
LEMMA InsertedRows ==
    ASSUME RowsInv, NEW b \in Block, NEW d, InsertBlock(b, d)
    PROVE  MainRows' = MainRows \cup {b}
<1>1. rows' = [rows EXCEPT ![b] = "main"]
  BY DEF InsertBlock
<1>2. \A x \in Block : rows'[x] = IF x = b THEN "main" ELSE rows[x]
  BY <1>1 DEF RowsInv
<1> QED BY <1>2 DEF MainRows

\* The row of the block that is in line is inserted beside no other.
LEMMA InsertedInLine ==
    ASSUME NotifierInv, SingleOK, Alive, task.kind = "run", stakeTip = task.blk,
           NEW f \in Block, LowRows(f, bestBlock), InLine(f), NEW d, InsertBlock(task.blk, d),
           task'.blk = task.blk
    PROVE  /\ OneMainRow' /\ LowRows(f, task.blk)' /\ MainRows' = MainRows \cup {task.blk}
           /\ OnChain(previous, task.blk)
<1>1. PICK b \in Block : b = task.blk
  BY RunSingle
<1>2. /\ Height(b) \in Nat /\ Height(b) = Height(previous) + 1
      /\ previous \in Block /\ bestBlock \in Block /\ MainRows \subseteq Block
      /\ Height(previous) \in Nat /\ Height(bestBlock) \in Nat /\ Height(f) \in Nat
      /\ stakeTip = b /\ OneMainRow /\ RowsInv
  BY <1>1, RunSingle, SingleFacts, HeightFacts DEF NotifierInv
<1>3. MainRows' = MainRows \cup {b}
  BY <1>1, <1>2, InsertedRows
<1>4. ~(Height(stakeTip) < Height(previous))
  BY <1>2
<1>5. /\ OnChain(previous, b)
      /\ \/ bestBlock = b /\ b \in MainRows
         \/ /\ Height(bestBlock) <= Height(previous)
            /\ Height(bestBlock) <= Height(f) \/ OnChain(bestBlock, b)
  BY <1>2, <1>4 DEF InLine
<1>6. OneMainRow' /\ \A x \in MainRows' : Height(x) <= Height(b) /\ (Height(x) > Height(f) => OnChain(x, b))
  <2>1. CASE bestBlock = b /\ b \in MainRows
    <3>1. MainRows' = MainRows
      BY <1>3, <2>1
    <3> QED BY <1>2, <2>1, <3>1 DEF OneMainRow, LowRows
  <2>2. CASE Height(bestBlock) <= Height(previous) /\ (Height(bestBlock) <= Height(f) \/ OnChain(bestBlock, b))
    <3>1. ASSUME NEW x \in MainRows
          PROVE  /\ Height(x) < Height(b)
                 /\ Height(x) > Height(f) => OnChain(x, b)
      <4>1. /\ Height(x) <= Height(bestBlock) /\ (Height(x) > Height(f) => OnChain(x, bestBlock))
            /\ x \in Block /\ Height(x) \in Nat
        BY <1>2, HeightFacts DEF LowRows
      <4>2. Height(x) < Height(b)
        BY <1>2, <2>2, <4>1
      <4>3. Height(x) > Height(f) => OnChain(bestBlock, b)
        BY <1>2, <2>2, <4>1
      <4> QED BY <1>2, <4>1, <4>2, <4>3, OnChainFacts
    <3>2. \A x \in MainRows : Height(x) <= Height(b) /\ Height(x) # Height(b)
      BY <1>2, <3>1, HeightFacts
    <3>3. OnChain(b, b) /\ Height(b) <= Height(b)
      BY <1>2, OnChainFacts
    <3> QED BY <1>2, <1>3, <3>1, <3>2, <3>3 DEF OneMainRow
  <2> QED BY <1>5, <2>1, <2>2
<1>7. LowRows(f, task.blk)'
  BY <1>1, <1>6 DEF LowRows
<1> QED BY <1>1, <1>3, <1>5, <1>6, <1>7

\* ChainDB inserts the row of the block, or a handler fails before.
LEMMA BlockdataConnectBlockSingle ==
    ASSUME NotifierInv, SingleOK, blockdataConnectBlock
    PROVE  SingleOK'
<1>1. /\ Alive /\ task.kind = "run" /\ task.group \in Collecting /\ task.group # "stored"
      /\ UNCHANGED <<best, anyQ, stakeTip, overdue, late, previous>>
  BY DEF blockdataConnectBlock, Running, node, stakeDB, Collecting, HandlersFail
<1>2. stakeTip = task.blk /\ task \in RunTasks
  BY <1>1, RunSingle DEF Collecting
<1>3. PICK f \in Block : Floor(f) /\ RowsAbove(f)
  BY <1>1, SingleFacts
<1>4. LowRows(f, bestBlock) /\ InLine(f)
  BY <1>1, <1>3 DEF RowsAbove
<1>5. CASE InsertBlock(task.blk, Data(task)) /\ task' = [task EXCEPT !.group = "stored"]
  <2>1. task'.kind = "run" /\ task'.bh = task.bh /\ task'.blk = task.blk /\ task'.group = "stored"
    BY <1>2, <1>5 DEF RunTasks
  <2>2. /\ OneMainRow' /\ MainRows' = MainRows \cup {task.blk} /\ OnChain(previous, task.blk)
        /\ LowRows(f, task.blk)'
    BY <1>1, <1>2, <1>3, <1>4, <1>5, <2>1, InsertedInLine
  <2>3. RowsAbove(f)'
    BY <1>1, <2>1, <2>2 DEF RowsAbove, RowInserted
  <2>4. TipsBehind'
    BY <1>1, <1>2, <2>1, SingleFacts DEF TipsBehind
  <2> QED BY <1>1, <1>3, <2>1, <2>2, <2>3, <2>4, SingleStep
<1>6. CASE UNCHANGED chainDB /\ HandlersFail
  <2>1. previous' = previous /\ task' = Idle /\ UNCHANGED <<rows, bestBlock>>
    BY <1>6 DEF HandlersFail, chainDB
  <2>2. OneMainRow' /\ LowRows(f, bestBlock)' /\ InLine(f)'
    BY <1>1, <1>4, <2>1, SingleFacts DEF OneMainRow, LowRows, MainRows, InLine
  <2> QED BY <1>1, <1>3, <2>1, <2>2, FailedSingle
<1> QED BY <1>5, <1>6 DEF blockdataConnectBlock

\* bestBlock follows, and the block is done or a later handler fails.
LEMMA BlockdataBlockStoredSingle ==
    ASSUME NotifierInv, OneAtATime, SingleOK, blockdataBlockStored
    PROVE  SingleOK'
<1>1. /\ Alive /\ task.kind = "run" /\ task.group = "stored"
      /\ UNCHANGED <<best, anyQ, stakeTip, overdue, late>>
  BY DEF blockdataBlockStored, Running, node, stakeDB
<1>2. stakeTip = task.blk /\ task \in RunTasks /\ task.blk \in Block
  BY <1>1, RunSingle
<1>3. PICK f \in Block : Floor(f) /\ RowsAbove(f)
  BY <1>1, SingleFacts
<1>4. LowRows(f, task.blk) /\ task.blk \in MainRows /\ OnChain(previous, task.blk)
  BY <1>1, <1>3 DEF RowsAbove, RowInserted
<1>5. ~May("store")
  BY DEF OneAtATime, May
<1>6. /\ bestBlock' = task.blk /\ rows' = rows
      /\ HandlersDone \/ HandlersFail
  BY <1>5 DEF blockdataBlockStored, SetBestBlock
<1>7. previous' \in {previous, task.blk}
  BY <1>6 DEF HandlersDone, HandlersFail
<1>8. OneMainRow' /\ LowRows(f, bestBlock)' /\ InLine(f)'
  <2>1. MainRows' = MainRows /\ OneMainRow'
    BY <1>1, <1>6, SingleFacts DEF OneMainRow, MainRows
  <2>2. /\ OnChain(task.blk, task.blk) /\ Height(task.blk) <= Height(task.blk) + 1
        /\ Height(task.blk) <= Height(previous) + 1
    BY <1>1, <1>2, RunSingle, OnChainFacts
  <2>3. OnChain(previous', stakeTip') /\ Height(stakeTip') <= Height(previous') + 1
    BY <1>1, <1>2, <1>4, <1>7, <2>2
  <2> QED BY <1>1, <1>2, <1>4, <1>6, <2>1, <2>3 DEF InLine, LowRows
<1>9. CASE HandlersDone
  <2>1. previous' = task.blk /\ task' = IF task.blk = task.bh THEN Idle ELSE CatchUp(task.bh)
    BY <1>9 DEF HandlersDone
  <2>2. /\ task'.kind \in {"idle", "catchup"}
        /\ task'.kind = "catchup" => task'.bh = task.bh /\ task.blk # task.bh
    BY <2>1 DEF Idle, CatchUp
  <2>3. task'.kind = "catchup" => Height(previous') < Height(task'.bh)
    BY <1>1, <2>1, <2>2, RunSingle DEF UpTo
  <2>4. TipsBehind
    BY <1>1, SingleFacts
  <2>5. TipsBehind'
    BY <1>1, <2>2, <2>3, <2>4 DEF TipsBehind
  <2> QED BY <1>1, <1>3, <1>8, <2>2, <2>5, BlockStepSingle
<1>10. CASE HandlersFail
  <2>1. previous' = previous /\ task' = Idle
    BY <1>10 DEF HandlersFail
  <2> QED BY <1>1, <1>3, <1>8, <2>1, FailedSingle
<1> QED BY <1>6, <1>9, <1>10
-----------------------------------------------------------------------------
(* Reorganisations.                                                        *)

\* A reorganisation is taken up, and its ancestor is the floor, or it is dropped.
LEMMA SignalReorgSingle ==
    ASSUME NotifierInv, SingleOK, signalReorg
    PROVE  SingleOK'
<1> DEFINE r == Head(anyQ)
<1>1. /\ Receive("reorg")
      /\ task' = Reorg(r, "stakeRewind", <<>>) \/ task' = task
      /\ UNCHANGED <<best, previous, stakeTip, rows, bestBlock, overdue, late>>
  BY DEF signalReorg, stakeDB, chainDB
<1>2. /\ Alive /\ task.kind = "idle" /\ anyQ # <<>> /\ anyQ' = Tail(anyQ) /\ r.type = "reorg" /\ QueueInv
  BY <1>1 DEF Receive, Idle, NotifierInv
<1>3. CASE task' = task
  BY <1>1, <1>2, <1>3, TakenSingle
<1>4. CASE task' = Reorg(r, "stakeRewind", <<>>)
  <2>1. /\ late = Idle /\ overdue = {} /\ OneMainRow /\ QueueRising /\ TipsBehind /\ Queue(anyQ)
        /\ stakeTip \in Block /\ best \in Block /\ MainRows \subseteq Block
    BY <1>2, SingleFacts
  <2>2. /\ QueueRising' /\ r = anyQ[1] /\ r \in Message /\ Known(r, best)
        /\ Nested(r, best) /\ Rising(r, anyQ', 0)
    BY <1>1, <1>2, <2>1, TakenRising
  <2> HIDE DEF r
  <2>3. PICK f \in Block : Floor(f) /\ RowsAbove(f)
    BY <1>2, SingleFacts
  <2>4. r \in ReorgMessages /\ Target(r) = r.new
    BY <1>2, <2>2, MessageFacts DEF Target
  <2>5. PICK g \in Block : g = Anc(r)
    <3>1. Anc(r) \in Block
      BY <2>1, <2>2, <2>4, AncFacts
    <3> QED BY <3>1
  <2>6. task'.kind = "reorg" /\ task'.tips = r /\ task'.step = "stakeRewind"
    BY <1>4 DEF Reorg
  <2>7. 1 \in 1 .. Len(anyQ)
    <3>1. Len(anyQ) \in Nat \ {0}
      BY <1>2, <2>1, TailFacts
    <3> QED BY <3>1
  <2>8. UpTo(stakeTip, r.new) /\ OnChain(f, Anc(r)) /\ Behind(stakeTip, anyQ', 0)
    <3>1. Behind(stakeTip, anyQ, 0) /\ Below(f, anyQ, 0)
      BY <2>1, <2>3 DEF TipsBehind, Floor
    <3>2. UpTo(stakeTip, r.new) /\ OnChain(f, Anc(r))
      BY <1>2, <2>1, <2>2, <3>1, RisingHead
    <3>3. Behind(stakeTip, anyQ', 0)
      BY <1>2, <2>1, <2>7, <3>1, RisingTail
    <3> QED BY <3>2, <3>3
  <2>9. TipsBehind'
    BY <1>1, <2>1, <2>2, <2>4, <2>6, <2>8 DEF TipsBehind, Rising, Nested
  <2>10. Floor(g)'
    <3>1. OnChain(g, best) /\ Below(g, anyQ', 0)
      BY <1>2, <2>2, <2>5 DEF Nested, Rising
    <3>2. Root(g, best)
      BY <2>2, <2>4, <2>5 DEF Root
    <3> QED BY <1>1, <2>5, <2>6, <3>1, <3>2 DEF Floor
  <2>11. LowRows(g, bestBlock)
    <3>1. Height(f) \in Nat /\ Height(g) \in Nat /\ Height(f) <= Height(g)
      BY <2>5, <2>8, HeightFacts DEF OnChain
    <3>2. \A x \in MainRows : Height(x) \in Nat
      BY <2>1, HeightFacts
    <3>3. \A x \in MainRows : Height(x) > Height(g) => Height(x) > Height(f)
      BY <3>1, <3>2
    <3> QED BY <1>2, <2>3, <3>3 DEF RowsAbove, LowRows
  <2>12. RowsAbove(g)'
    <3>1. LowRows(g, bestBlock)'
      BY <1>1, <2>11 DEF LowRows, MainRows
    <3> QED BY <2>5, <2>6, <3>1 DEF RowsAbove, ReorgRows
  <2>13. OneMainRow' /\ late' = Idle /\ overdue' = {}
    BY <1>1, <2>1 DEF OneMainRow, MainRows
  <2> QED BY <2>2, <2>9, <2>10, <2>12, <2>13 DEF SingleOK
<1> QED BY <1>1, <1>3, <1>4

\* What holds while a reorganisation is carried out.
LEMMA ReorgSingle ==
    ASSUME NotifierInv, SingleOK, NEW s, At("main", s)
    PROVE  /\ Alive /\ task \in ReorgTasks /\ task.kind = "reorg" /\ task.step = s
           /\ task.tips \in ReorgMessages /\ Known(task.tips, best) /\ task.tips.new \in Block
           /\ Anc(task.tips) \in Block /\ OnChain(Anc(task.tips), task.tips.new)
           /\ OnChain(Anc(task.tips), best)
           /\ Height(Anc(task.tips)) = AncestorHeight(task.tips) /\ AncestorHeight(task.tips) \in Nat
           /\ AncestorHeight(task.tips) < Height(task.tips.new)
           /\ Height(task.tips.new) \in Nat /\ Height(task.tips.new) <= Height(best)
           /\ UpTo(stakeTip, task.tips.new)
           /\ Floor(Anc(task.tips)) /\ ReorgRows(task.tips)
<1>1. task.kind = "reorg" /\ task.step = s /\ Alive
  BY DEF At, Doing
<1>2. task \in ReorgTasks /\ KnownTask(task, best) /\ best \in Block
  BY <1>1, TaskFacts DEF NotifierInv, TasksInv, QueueInv
<1>3. task.tips \in ReorgMessages /\ Known(task.tips, best)
  BY <1>1, <1>2 DEF ReorgTasks, KnownTask
<1>4. /\ task.tips.new \in Block /\ Anc(task.tips) \in Block /\ task.tips.type = "reorg"
      /\ OnChain(Anc(task.tips), task.tips.new)
      /\ Height(Anc(task.tips)) = AncestorHeight(task.tips) /\ AncestorHeight(task.tips) \in Nat
      /\ AncestorHeight(task.tips) < Height(task.tips.new) /\ Height(task.tips.new) \in Nat
  BY <1>2, <1>3, AncFacts
<1>5. Height(task.tips.new) <= Height(best)
  BY <1>3, <1>4 DEF Known
<1>6. UpTo(stakeTip, task.tips.new) /\ Nested(task.tips, best)
  BY <1>1, SingleFacts DEF TipsBehind
<1>7. OnChain(Anc(task.tips), best)
  BY <1>4, <1>6 DEF Nested
<1>8. Floor(Anc(task.tips)) /\ ReorgRows(task.tips)
  <2>1. PICK f \in Block : Floor(f) /\ RowsAbove(f)
    BY <1>1, SingleFacts
  <2>2. f = Anc(task.tips)
    BY <1>1, <2>1 DEF Floor
  <2> QED BY <1>1, <2>1, <2>2 DEF RowsAbove
<1> QED BY <1>1, <1>2, <1>3, <1>4, <1>5, <1>6, <1>7, <1>8

\* A step of a reorganisation.
LEMMA ReorgStepSingle ==
    ASSUME NotifierInv, SingleOK, NEW s, At("main", s), late' = late,
           task'.kind = "reorg", task'.tips = task.tips, UNCHANGED <<best, anyQ, overdue>>,
           stakeTip' \in Block, UpTo(stakeTip', task.tips.new), OneMainRow',
           ~Hung' => ReorgRows(task.tips)'
    PROVE  SingleOK'
<1> DEFINE r == task.tips
<1>1. /\ Alive /\ task.kind = "reorg" /\ r.new \in Block /\ Anc(r) \in Block /\ Floor(Anc(r))
      /\ Height(r.new) \in Nat /\ Height(r.new) <= Height(best)
  BY ReorgSingle
<1>2. TipsBehind /\ Queue(anyQ) /\ Height(best) \in Nat
  BY <1>1, SingleFacts
<1>3. Behind(r.new, anyQ, 0) /\ Nested(r, best)
  BY <1>1, <1>2 DEF TipsBehind
<1>4. Behind(stakeTip', anyQ, 0)
  BY <1>1, <1>2, <1>3, BehindLower
<1>5. Height(stakeTip') <= Height(best)
  <2>1. Height(stakeTip') <= Height(r.new) /\ Height(stakeTip') \in Nat
    BY <1>1, UpToFacts, HeightFacts
  <2> QED BY <1>1, <1>2, <2>1
<1>6. TipsBehind'
  BY <1>3, <1>4, <1>5 DEF TipsBehind, Nested
<1>7. PICK f \in Block : f = Anc(r)
  BY <1>1
<1>8. Floor(f) /\ f = Anc(task'.tips)
  BY <1>1, <1>7
<1>9. ASSUME ~Hung'
      PROVE  RowsAbove(f)'
  BY <1>8, <1>9 DEF RowsAbove
<1> QED BY <1>6, <1>8, <1>9, SingleStep

\* The stake database gets to the height of the ancestor, or fails on the way.
LEMMA StakeRewindSingle ==
    ASSUME NotifierInv, SingleOK, stakeRewind("main")
    PROVE  SingleOK'
<1> DEFINE r == task.tips
           h == AncestorHeight(r)
           above == BlocksAbove(r.new, h)
           b == BlockAt(best, Height(stakeTip) + 1)
<1>1. /\ At("main", "stakeRewind")
      /\ UNCHANGED <<best, anyQ, rows, bestBlock, overdue>>
  BY DEF stakeRewind, node, chainDB
<1>2. /\ Alive /\ task \in ReorgTasks /\ task.kind = "reorg" /\ task.step = "stakeRewind"
      /\ r.new \in Block /\ h \in Nat /\ h < Height(r.new) /\ Height(r.new) \in Nat
      /\ Height(r.new) <= Height(best) /\ UpTo(stakeTip, r.new) /\ ReorgRows(r)
  BY <1>1, ReorgSingle
<1>3. stakeTip \in Block /\ Height(stakeTip) \in Nat /\ best \in Block /\ Height(best) \in Nat /\ OneMainRow
  BY <1>2, SingleFacts
<1>4. OneMainRow'
  BY <1>1, <1>3 DEF OneMainRow, MainRows
<1>5. ASSUME task'.tips = task.tips, task'.step \in {"stakeRewind", "chainRewind"}
      PROVE  ReorgRows(task.tips)'
  BY <1>1, <1>2, <1>5 DEF LowRows, MainRows, ReorgRows
<1>6. \/ /\ Height(stakeTip) >= h /\ stakeTip' = BlockAt(stakeTip, h)
         /\ GoTo("main", "stakeConnect", above)
      \/ /\ Height(stakeTip) < h /\ stakeTip' = b /\ UNCHANGED <<task, late>>
      \/ stakeTip' = stakeTip /\ GroupEnds("main", "chainRewind")
      \/ stakeTip' = stakeTip /\ UNCHANGED <<task, late>>
      \/ /\ \E k \in 0 .. Height(stakeTip) : stakeTip' = BlockAt(stakeTip, k)
         /\ GroupEnds("main", "chainRewind")
  BY DEF stakeRewind, Doing, StakeConnect, ReorgStepFails, stakeDB
<1>7. CASE /\ Height(stakeTip) >= h /\ stakeTip' = BlockAt(stakeTip, h)
           /\ GoTo("main", "stakeConnect", above)
  <2>1. h \in 0 .. Height(stakeTip) /\ h \in 0 .. Height(r.new)
    BY <1>2, <1>3, <1>7
  <2>2. stakeTip' \in Block /\ Height(stakeTip') = h
    BY <1>3, <1>7, <2>1, BlockAtFacts
  <2>3. UpTo(stakeTip', r.new)
    BY <1>2, <2>2 DEF UpTo
  <2>4. /\ late' = late /\ task'.kind = "reorg" /\ task'.tips = task.tips /\ task'.step = "stakeConnect"
        /\ task'.todo = above
    BY <1>2, <1>7, NextReorgTask
  <2>5. ASSUME NEW i \in 1 .. Len(above)
        PROVE  OnChain(above[i], r.new)
    <3>1. i \in 1 .. Height(r.new) - h /\ above[i] = BlockAt(r.new, h + i)
      BY <1>2, <2>1, BlocksAboveFacts
    <3>2. h + i \in 0 .. Height(r.new)
      BY <1>2, <3>1
    <3>3. Height(BlockAt(r.new, h + i)) = h + i /\ h + i <= Height(r.new)
      BY <1>2, <3>2, BlockAtFacts
    <3> QED BY <3>1, <3>3 DEF OnChain
  <2> HIDE DEF above
  <2>6. ReorgRows(task.tips)'
    BY <1>1, <1>2, <2>4, <2>5 DEF LowRows, MainRows, ReorgRows
  <2> QED BY <1>1, <1>4, <2>2, <2>3, <2>4, <2>6, ReorgStepSingle
<1>8. CASE Height(stakeTip) < h /\ stakeTip' = b /\ UNCHANGED <<task, late>>
  <2>1. Height(stakeTip) + 1 \in 0 .. Height(best)
    BY <1>2, <1>3, <1>8
  <2>2. b \in Block /\ Height(b) = Height(stakeTip) + 1
    BY <1>3, <2>1, BlockAtFacts
  <2>3. UpTo(b, r.new)
    BY <1>2, <1>3, <1>8, <2>2 DEF UpTo
  <2> HIDE DEF b
  <2>4. task'.tips = task.tips /\ task'.step = "stakeRewind" /\ task'.kind = "reorg"
    BY <1>2, <1>8
  <2>5. ReorgRows(task.tips)'
    BY <1>5, <2>4
  <2> QED BY <1>1, <1>4, <1>8, <2>2, <2>3, <2>4, <2>5, ReorgStepSingle
<1>9. ASSUME stakeTip' \in Block, UpTo(stakeTip', stakeTip), GroupEnds("main", "chainRewind")
      PROVE  SingleOK'
  <2>1. late' = late /\ task'.kind = "reorg" /\ task'.tips = task.tips /\ task'.step = "chainRewind"
    BY <1>2, <1>9, NextReorgTask
  <2>2. UpTo(stakeTip', r.new)
    BY <1>2, <1>3, <1>9, UpToFacts
  <2>3. ReorgRows(task.tips)'
    BY <1>5, <2>1
  <2> QED BY <1>1, <1>4, <1>9, <2>1, <2>2, <2>3, ReorgStepSingle
<1>10. CASE stakeTip' = stakeTip /\ GroupEnds("main", "chainRewind")
  BY <1>3, <1>9, <1>10 DEF UpTo
<1>11. CASE /\ \E k \in 0 .. Height(stakeTip) : stakeTip' = BlockAt(stakeTip, k)
            /\ GroupEnds("main", "chainRewind")
  <2>1. PICK k \in 0 .. Height(stakeTip) : stakeTip' = BlockAt(stakeTip, k)
    BY <1>11
  <2>2. stakeTip' \in Block /\ Height(stakeTip') = k /\ k <= Height(stakeTip)
    BY <1>3, <2>1, BlockAtFacts
  <2>3. OnChain(stakeTip', stakeTip)
    BY <2>1, <2>2 DEF OnChain
  <2>4. UpTo(stakeTip', stakeTip)
    BY <1>3, <2>2, <2>3, UpToFacts
  <2> QED BY <1>9, <1>11, <2>2, <2>4
<1>12. CASE stakeTip' = stakeTip /\ UNCHANGED <<task, late>>
  <2>1. previous' = previous
    BY DEF stakeRewind
  <2> QED BY <1>1, <1>12, <2>1, SameSingle
<1> QED BY <1>6, <1>7, <1>8, <1>10, <1>11, <1>12

\* The stake database connects the new chain, or fails on the way.
LEMMA StakeConnectSingle ==
    ASSUME NotifierInv, OneAtATime, SingleOK, stakeConnect("main")
    PROVE  SingleOK'
<1> DEFINE r == task.tips
           todo == task.todo
           b == Head(todo)
<1>1. /\ At("main", "stakeConnect")
      /\ UNCHANGED <<best, anyQ, rows, bestBlock, overdue>>
  BY DEF stakeConnect, node, chainDB
<1>2. /\ Alive /\ task \in ReorgTasks /\ task.kind = "reorg" /\ task.step = "stakeConnect"
      /\ r.new \in Block /\ UpTo(stakeTip, r.new) /\ ReorgRows(r)
  BY <1>1, ReorgSingle
<1>3. stakeTip \in Block /\ OneMainRow
  BY <1>2, SingleFacts
<1>4. OneMainRow'
  BY <1>1, <1>3 DEF OneMainRow, MainRows
<1>5. todo \in Seq(Block) /\ \A i \in 1 .. Len(todo) : OnChain(todo[i], r.new)
  BY <1>2 DEF ReorgTasks, ReorgRows
<1>6. \/ stakeTip' = stakeTip /\ GroupEnds("main", "chainRewind")
      \/ todo # <<>> /\ stakeTip' = b /\ GoTo("main", "stakeConnect", Tail(todo))
  <2>1. ~May("disk")
    BY DEF OneAtATime, May
  <2> QED BY <2>1 DEF stakeConnect, Doing, StakeConnect, StakeConnectUnsaved, ReorgStepFails, stakeDB
<1>7. CASE stakeTip' = stakeTip /\ GroupEnds("main", "chainRewind")
  <2>1. late' = late /\ task'.kind = "reorg" /\ task'.tips = task.tips /\ task'.step = "chainRewind"
    BY <1>2, <1>7, NextReorgTask
  <2>2. ReorgRows(task.tips)'
    BY <1>1, <1>2, <2>1 DEF LowRows, MainRows, ReorgRows
  <2> QED BY <1>1, <1>2, <1>3, <1>4, <1>7, <2>1, <2>2, ReorgStepSingle
<1>8. CASE todo # <<>> /\ stakeTip' = b /\ GoTo("main", "stakeConnect", Tail(todo))
  <2>1. /\ late' = late /\ task'.kind = "reorg" /\ task'.tips = task.tips /\ task'.step = "stakeConnect"
        /\ task'.todo = Tail(todo)
    BY <1>2, <1>8, NextReorgTask
  <2>2. /\ b \in Block /\ Len(todo) \in Nat \ {0} /\ b = todo[1] /\ Len(Tail(todo)) = Len(todo) - 1
        /\ \A i \in 1 .. Len(Tail(todo)) : Tail(todo)[i] = todo[i + 1]
    BY <1>5, <1>8, HeadTailProperties, EmptySeq
  <2>3. 1 \in 1 .. Len(todo) /\ \A i \in 1 .. Len(Tail(todo)) : i + 1 \in 1 .. Len(todo)
    BY <2>2
  <2>4. OnChain(b, r.new) /\ \A i \in 1 .. Len(Tail(todo)) : OnChain(Tail(todo)[i], r.new)
    BY <1>5, <2>2, <2>3
  <2>5. UpTo(b, r.new)
    BY <1>2, <2>2, <2>4, UpToFacts
  <2> HIDE DEF b, todo
  <2>6. ReorgRows(task.tips)'
    BY <1>1, <1>2, <2>1, <2>4 DEF LowRows, MainRows, ReorgRows
  <2> QED BY <1>1, <1>4, <1>8, <2>1, <2>2, <2>5, <2>6, ReorgStepSingle
<1> QED BY <1>6, <1>7, <1>8

\* ChainDB is below the ancestor and misses blocks, or TipToSideChain begins.
LEMMA ChainRewindSingle ==
    ASSUME NotifierInv, SingleOK, chainRewind("main")
    PROVE  SingleOK'
<1> DEFINE r == task.tips
           h == AncestorHeight(r)
           newChain == BlocksAbove(r.new, h)
           missing == SubSeq(Chain[best], Height(bestBlock) + 2, h + 1)
<1>1. /\ At("main", "chainRewind")
      /\ UNCHANGED <<best, anyQ, stakeTip, overdue, rows, bestBlock>>
  BY DEF chainRewind, node, stakeDB, chainDB
<1>2. PICK root \in Block : root = Anc(r)
  BY <1>1, ReorgSingle
<1>3. /\ Alive /\ task \in ReorgTasks /\ task.kind = "reorg" /\ task.step = "chainRewind"
      /\ r.new \in Block /\ OnChain(root, r.new) /\ OnChain(root, best)
      /\ Height(root) = h /\ h \in Nat /\ h < Height(r.new) /\ Height(r.new) \in Nat
      /\ UpTo(stakeTip, r.new) /\ ReorgRows(r)
  BY <1>1, <1>2, ReorgSingle
<1>4. OneMainRow /\ best \in Block /\ stakeTip \in Block /\ bestBlock \in Block /\ Height(bestBlock) \in Nat
  BY <1>3, SingleFacts
<1>5. OneMainRow' /\ LowRows(root, bestBlock)'
  BY <1>1, <1>2, <1>3, <1>4 DEF OneMainRow, MainRows, LowRows, ReorgRows
<1>6. \/ Height(bestBlock) < h /\ GoTo("main", "chainConnect", missing \o newChain)
      \/ GoTo("main", "toSideChain", <<bestBlock>>)
  BY DEF chainRewind, Doing
<1> HIDE DEF h
<1>7. CASE Height(bestBlock) < h /\ GoTo("main", "chainConnect", missing \o newChain)
  <2>1. missing \o newChain = BlocksAbove(r.new, Height(bestBlock))
    <3>1. ASSUME NEW n \in Block, OnChain(root, n)
          PROVE  SubSeq(Chain[best], Height(bestBlock) + 2, Height(root) + 1) \o BlocksAbove(n, Height(root))
                     = BlocksAbove(n, Height(bestBlock))
      <4>1. Height(bestBlock) \in Nat /\ Height(bestBlock) < Height(root)
        BY <1>3, <1>4, <1>7
      <4> QED BY <1>3, <1>4, <3>1, <4>1, BlocksAboveJoin
    <3> QED BY <1>3, <3>1
  <2> HIDE DEF missing, newChain
  <2>2. /\ late' = late /\ task'.kind = "reorg" /\ task'.tips = task.tips /\ task'.step = "chainConnect"
        /\ task'.todo = BlocksAbove(r.new, Height(bestBlock))
    BY <1>3, <1>7, <2>1, NextReorgTask
  <2>3. Height(bestBlock) <= Height(r.new) /\ Height(bestBlock) <= Height(root)
    BY <1>3, <1>4, <1>7
  <2>4. ReorgRows(task.tips)'
    BY <1>1, <1>2, <1>5, <2>2, <2>3 DEF ReorgRows
  <2> QED BY <1>1, <1>3, <1>4, <1>5, <2>2, <2>4, ReorgStepSingle
<1>8. CASE GoTo("main", "toSideChain", <<bestBlock>>)
  <2>1. /\ late' = late /\ task'.kind = "reorg" /\ task'.tips = task.tips /\ task'.step = "toSideChain"
        /\ task'.todo = <<bestBlock>>
    BY <1>3, <1>8, NextReorgTask
  <2>2. ReorgRows(task.tips)'
    BY <1>1, <1>2, <1>5, <2>1 DEF ReorgRows
  <2> QED BY <1>1, <1>3, <1>4, <1>5, <2>1, <2>2, ReorgStepSingle
<1> QED BY <1>6, <1>7, <1>8

\* The rows after one is flagged as side chain.
LEMMA RowsLeft ==
    ASSUME RowsInv, NEW b \in Block, FlagAsSideChain(b)
    PROVE  MainRows' = MainRows \ {b}
<1>1. \A x \in Block : rows'[x] = IF x = b THEN (IF rows[b] = "absent" THEN "absent" ELSE "side") ELSE rows[x]
  BY DEF FlagAsSideChain, RowsInv
<1>2. rows'[b] # "main" /\ \A x \in Block : x # b => rows'[x] = rows[x]
  BY <1>1
<1> QED BY <1>2 DEF MainRows

\* A row is flagged: those left above the ancestor are on the chain of its parent.
LEMMA FlaggedSingle ==
    ASSUME RowsInv, OneMainRow, NEW b \in Block, FlagAsSideChain(b), NEW root \in Block, NEW p \in Block,
           b # Genesis, p = Parent[b], b # root, Height(b) >= Height(root) => LowRows(root, b)
    PROVE  Height(p) >= Height(root) => LowRows(root, p)'
<1>1. MainRows' = MainRows \ {b}
  BY RowsLeft
<1>2. /\ Height(b) \in Nat /\ Height(p) \in Nat /\ Height(root) \in Nat /\ Height(b) = Height(p) + 1
      /\ OnChain(p, b)
  BY HeightFacts, OnChainFacts
<1>3. SUFFICES ASSUME Height(p) >= Height(root), NEW x \in MainRows'
               PROVE  Height(x) <= Height(p) /\ (Height(x) > Height(root) => OnChain(x, p))
  BY DEF LowRows
<1>4. /\ x \in Block /\ x # b /\ Height(x) \in Nat /\ Height(x) <= Height(b)
      /\ Height(x) > Height(root) => OnChain(x, b)
  <2>1. x \in MainRows /\ x # b /\ x \in Block
    BY <1>1, <1>3 DEF MainRows
  <2>2. LowRows(root, b)
    BY <1>2, <1>3
  <2> QED BY <2>1, <2>2, HeightFacts DEF LowRows
<1>5. OnChain(x, b) => Height(x) # Height(b)
  BY <1>4, OnChainFacts
<1>6. Height(x) <= Height(p)
  BY <1>2, <1>3, <1>4, <1>5
<1>7. OnChain(x, b) => OnChain(x, p)
  BY <1>2, <1>4, <1>6, OnChainFacts
<1> QED BY <1>4, <1>6, <1>7

\* TipToSideChain is done at the ancestor, or flags one more row.
LEMMA TipToSideChainSingle ==
    ASSUME NotifierInv, OneAtATime, SingleOK, TipToSideChain("main")
    PROVE  SingleOK'
<1> DEFINE r == task.tips
<1>1. /\ At("main", "toSideChain")
      /\ UNCHANGED <<best, anyQ, stakeTip, overdue, bestBlock>>
  BY DEF TipToSideChain, node, stakeDB
<1>2. PICK root \in Block : root = Anc(r)
  BY <1>1, ReorgSingle
<1>3. /\ Alive /\ task \in ReorgTasks /\ task.kind = "reorg" /\ task.step = "toSideChain"
      /\ r.new \in Block /\ OnChain(root, r.new)
      /\ Height(root) = AncestorHeight(r) /\ AncestorHeight(r) \in Nat /\ AncestorHeight(r) < Height(r.new)
      /\ Height(r.new) \in Nat /\ UpTo(stakeTip, r.new) /\ ReorgRows(r)
  BY <1>1, <1>2, ReorgSingle
<1>4. /\ OneMainRow /\ stakeTip \in Block /\ bestBlock \in Block /\ Height(bestBlock) \in Nat
      /\ MainRows \subseteq Block
  BY <1>3, SingleFacts
<1>5. /\ task.todo = <<bestBlock>> /\ Head(task.todo) = bestBlock
      /\ Height(bestBlock) >= Height(root) => LowRows(root, bestBlock)
  BY <1>2, <1>3 DEF ReorgRows
<1>6. ~May("store")
  BY DEF OneAtATime, May
<1>7. \/ /\ bestBlock = root /\ rows' = rows
         /\ IF Height(bestBlock) = AncestorHeight(r)
            THEN GoTo("main", "chainConnect", BlocksAbove(r.new, AncestorHeight(r)))
            ELSE ReorgStepFails("main", "record")
      \/ /\ bestBlock # root /\ FlagAsSideChain(bestBlock)
         /\ GoTo("main", "flagged", previousHash(bestBlock))
  BY <1>2, <1>5, <1>6 DEF TipToSideChain, Doing, Anc
<1>8. CASE /\ bestBlock = root /\ rows' = rows
           /\ IF Height(bestBlock) = AncestorHeight(r)
              THEN GoTo("main", "chainConnect", BlocksAbove(r.new, AncestorHeight(r)))
              ELSE ReorgStepFails("main", "record")
  <2>1. GoTo("main", "chainConnect", BlocksAbove(r.new, Height(bestBlock)))
    BY <1>3, <1>8
  <2>2. /\ late' = late /\ task'.kind = "reorg" /\ task'.tips = task.tips /\ task'.step = "chainConnect"
        /\ task'.todo = BlocksAbove(r.new, Height(bestBlock))
    BY <1>3, <2>1, NextReorgTask
  <2>3. OneMainRow' /\ LowRows(root, bestBlock)'
    <3>1. Height(bestBlock) >= Height(root)
      BY <1>4, <1>8
    <3> QED BY <1>1, <1>4, <1>5, <1>8, <3>1 DEF OneMainRow, MainRows, LowRows
  <2>4. Height(bestBlock) <= Height(r.new) /\ Height(bestBlock) <= Height(root)
    BY <1>3, <1>4, <1>8
  <2>5. ReorgRows(task.tips)'
    BY <1>1, <1>2, <2>2, <2>3, <2>4 DEF ReorgRows
  <2> QED BY <1>1, <1>3, <1>4, <2>2, <2>3, <2>5, ReorgStepSingle
<1>9. CASE /\ bestBlock # root /\ FlagAsSideChain(bestBlock)
           /\ GoTo("main", "flagged", previousHash(bestBlock))
  <2>1. RowsInv
    BY DEF NotifierInv
  <2>2. OneMainRow'
    <3>1. MainRows' \subseteq MainRows
      BY <1>4, <1>9, <2>1, RowsLeft
    <3> QED BY <1>4, <3>1 DEF OneMainRow
  <2>3. /\ late' = late /\ task'.kind = "reorg" /\ task'.tips = task.tips /\ task'.step = "flagged"
        /\ task'.todo = previousHash(bestBlock)
    BY <1>3, <1>9, NextReorgTask
  <2>4. CASE previousHash(bestBlock) = <<>>
    <3>1. ReorgRows(task.tips)'
      BY <2>3, <2>4 DEF ReorgRows
    <3> QED BY <1>1, <1>3, <1>4, <2>2, <2>3, <3>1, ReorgStepSingle
  <2>5. CASE previousHash(bestBlock) # <<>>
    <3>1. bestBlock # Genesis /\ previousHash(bestBlock) = <<Parent[bestBlock]>>
      BY <2>5 DEF previousHash
    <3>2. PICK p \in Block : p = Parent[bestBlock]
      BY <1>4, <3>1, HeightFacts
    <3>3. Height(p) >= Height(root) => LowRows(root, p)'
      BY <1>4, <1>5, <1>9, <2>1, <3>1, <3>2, FlaggedSingle
    <3>4. task'.todo = <<p>> /\ Head(task'.todo) = p
      BY <2>3, <3>1, <3>2
    <3>5. ReorgRows(task.tips)'
      BY <1>2, <2>3, <3>2, <3>3, <3>4 DEF ReorgRows, LowRows
    <3> QED BY <1>1, <1>3, <1>4, <2>2, <2>3, <3>5, ReorgStepSingle
  <2> QED BY <2>4, <2>5
<1> QED BY <1>7, <1>8, <1>9

\* bestBlock follows the row that was flagged, or TipToSideChain is lost.
LEMMA TipMovedSingle ==
    ASSUME NotifierInv, SingleOK, TipMoved("main")
    PROVE  SingleOK'
<1> DEFINE r == task.tips
<1>1. /\ At("main", "flagged")
      /\ UNCHANGED <<best, anyQ, stakeTip, overdue, rows>>
  BY DEF TipMoved, node, stakeDB, SetBestBlock
<1>2. PICK root \in Block : root = Anc(r)
  BY <1>1, ReorgSingle
<1>3. /\ Alive /\ task \in ReorgTasks /\ task.kind = "reorg" /\ task.step = "flagged"
      /\ UpTo(stakeTip, r.new) /\ ReorgRows(r)
  BY <1>1, <1>2, ReorgSingle
<1>4. OneMainRow /\ stakeTip \in Block
  BY <1>3, SingleFacts
<1>5. OneMainRow' /\ MainRows' = MainRows
  BY <1>1, <1>4 DEF OneMainRow, MainRows
<1>6. CASE task.todo = <<>>
  <2>1. GoTo("main", "hung", <<>>)
    BY <1>6 DEF TipMoved, Doing
  <2>2. late' = late /\ task'.kind = "reorg" /\ task'.tips = task.tips /\ task'.step = "hung"
    BY <1>3, <2>1, NextReorgTask
  <2>3. Hung'
    BY <2>2 DEF Hung
  <2> QED BY <1>1, <1>3, <1>4, <1>5, <2>2, <2>3, ReorgStepSingle
<1>7. CASE task.todo # <<>>
  <2>1. PICK p \in Block : /\ p = Head(task.todo) /\ task.todo = <<p>>
                           /\ Height(p) >= Height(root) => LowRows(root, p)
    BY <1>2, <1>3, <1>7 DEF ReorgRows
  <2>2. GoTo("main", "toSideChain", <<p>>) /\ bestBlock' = p
    BY <1>7, <2>1 DEF TipMoved, Doing, SetBestBlock
  <2>3. /\ late' = late /\ task'.kind = "reorg" /\ task'.tips = task.tips /\ task'.step = "toSideChain"
        /\ task'.todo = <<p>>
    BY <1>3, <2>2, NextReorgTask
  <2>4. ReorgRows(task.tips)'
    BY <1>2, <1>5, <2>1, <2>2, <2>3 DEF ReorgRows, LowRows
  <2> QED BY <1>1, <1>3, <1>4, <1>5, <2>3, <2>4, ReorgStepSingle
<1> QED BY <1>6, <1>7

\* ChainDB inserts a row of the new chain above every other row, or fails.
LEMMA ChainConnectSingle ==
    ASSUME NotifierInv, SingleOK, chainConnect("main")
    PROVE  SingleOK'
<1> DEFINE r == task.tips
           todo == task.todo
<1>1. /\ At("main", "chainConnect")
      /\ UNCHANGED <<best, anyQ, stakeTip, overdue, bestBlock>>
  BY DEF chainConnect, node, stakeDB, chainDB, InsertBlock
<1>2. PICK root \in Block : root = Anc(r)
  BY <1>1, ReorgSingle
<1>3. /\ Alive /\ task \in ReorgTasks /\ task.kind = "reorg" /\ task.step = "chainConnect"
      /\ r.new \in Block /\ Height(r.new) \in Nat /\ UpTo(stakeTip, r.new) /\ ReorgRows(r)
  BY <1>1, <1>2, ReorgSingle
<1>4. /\ OneMainRow /\ stakeTip \in Block /\ bestBlock \in Block /\ Height(bestBlock) \in Nat
      /\ MainRows \subseteq Block /\ Height(root) \in Nat
  BY <1>3, SingleFacts, HeightFacts
<1>5. /\ Height(bestBlock) \in 0 .. Height(r.new) /\ todo = BlocksAbove(r.new, Height(bestBlock))
      /\ Height(bestBlock) <= Height(root) \/ OnChain(bestBlock, r.new)
      /\ LowRows(root, bestBlock)
  BY <1>2, <1>3, <1>4 DEF ReorgRows
<1>6. \/ rows' = rows /\ GroupEnds("main", "record")
      \/ /\ todo # <<>> /\ InsertBlock(Head(todo), Head(todo))
         /\ GoTo("main", "chainStored", todo)
  BY DEF chainConnect, Doing, ReorgStepFails, chainDB
<1>7. CASE rows' = rows /\ GroupEnds("main", "record")
  <2>1. late' = late /\ task'.kind = "reorg" /\ task'.tips = task.tips /\ task'.step = "record"
    BY <1>3, <1>7, NextReorgTask
  <2>2. OneMainRow' /\ LowRows(root, bestBlock)'
    BY <1>1, <1>4, <1>5, <1>7 DEF OneMainRow, MainRows, LowRows
  <2>3. ReorgRows(task.tips)'
    BY <1>1, <1>2, <1>5, <2>1, <2>2 DEF ReorgRows
  <2> QED BY <1>1, <1>3, <1>4, <2>1, <2>2, <2>3, ReorgStepSingle
<1>8. CASE /\ todo # <<>> /\ InsertBlock(Head(todo), Head(todo))
           /\ GoTo("main", "chainStored", todo)
  <2>1. /\ Head(todo) \in Block \ {Genesis} /\ Height(Head(todo)) = Height(bestBlock) + 1
        /\ OnChain(Head(todo), r.new) /\ Tail(todo) = BlocksAbove(r.new, Height(Head(todo)))
    BY <1>3, <1>5, <1>8, BlocksAboveHead
  <2>2. PICK b \in Block : b = Head(todo)
    BY <2>1
  <2>3. /\ late' = late /\ task'.kind = "reorg" /\ task'.tips = task.tips
        /\ task'.step = "chainStored" /\ task'.todo = todo
    BY <1>3, <1>8, NextReorgTask
  <2>4. /\ Height(b) = Height(bestBlock) + 1 /\ OnChain(b, r.new) /\ b = Head(task'.todo)
        /\ Tail(task'.todo) = BlocksAbove(r.new, Height(b))
    BY <2>1, <2>2, <2>3
  <2>5. MainRows' = MainRows \cup {b}
    BY <1>8, <2>2, InsertedRows DEF NotifierInv
  <2> HIDE DEF todo
  <2>6. ASSUME NEW x \in MainRows
        PROVE  Height(x) < Height(b) /\ (Height(x) > Height(root) => OnChain(x, b))
    <3>1. /\ Height(x) <= Height(bestBlock) /\ (Height(x) > Height(root) => OnChain(x, bestBlock))
          /\ x \in Block /\ Height(x) \in Nat
      BY <1>4, <1>5, HeightFacts DEF LowRows
    <3>2. Height(x) < Height(b) /\ Height(bestBlock) <= Height(b)
      BY <1>4, <2>4, <3>1
    <3>3. Height(x) > Height(root) => OnChain(bestBlock, r.new)
      BY <1>4, <1>5, <3>1
    <3>4. OnChain(bestBlock, r.new) => OnChain(bestBlock, b)
      BY <1>3, <1>4, <2>4, <3>2, OnChainFacts
    <3> QED BY <1>4, <3>1, <3>2, <3>3, <3>4, OnChainFacts
  <2>7. OneMainRow'
    <3>1. \A x \in MainRows : Height(x) # Height(b)
      BY <1>4, <2>6, HeightFacts
    <3> QED BY <1>4, <2>5, <3>1 DEF OneMainRow
  <2>8. LowRows(root, b)'
    <3>1. \A x \in MainRows : Height(x) <= Height(b)
      BY <1>4, <2>6, HeightFacts
    <3>2. OnChain(b, b) /\ Height(b) <= Height(b)
      BY OnChainFacts, HeightFacts
    <3> QED BY <2>5, <2>6, <3>1, <3>2 DEF LowRows
  <2>9. ReorgRows(task.tips)'
    BY <1>2, <2>3, <2>4, <2>8 DEF ReorgRows, LowRows
  <2> QED BY <1>1, <1>3, <1>4, <2>3, <2>7, <2>9, ReorgStepSingle
<1> QED BY <1>6, <1>7, <1>8

\* bestBlock follows, and the next block is stored or the handler fails.
LEMMA ChainStoredSingle ==
    ASSUME NotifierInv, OneAtATime, SingleOK, chainStored("main")
    PROVE  SingleOK'
<1> DEFINE r == task.tips
<1>1. At("main", "chainStored") /\ UNCHANGED <<best, anyQ, stakeTip, overdue>>
  BY DEF chainStored, node, stakeDB
<1>2. PICK root \in Block : root = Anc(r)
  BY <1>1, ReorgSingle
<1>3. /\ Alive /\ task \in ReorgTasks /\ task.kind = "reorg" /\ task.step = "chainStored"
      /\ r.new \in Block /\ UpTo(stakeTip, r.new) /\ ReorgRows(r)
  BY <1>1, <1>2, ReorgSingle
<1>4. OneMainRow /\ stakeTip \in Block
  BY <1>3, SingleFacts
<1>5. PICK b \in Block : /\ b = Head(task.todo) /\ OnChain(b, r.new) /\ LowRows(root, b)
                         /\ Tail(task.todo) = BlocksAbove(r.new, Height(b))
  BY <1>2, <1>3 DEF ReorgRows
<1>6. ~May("store")
  BY DEF OneAtATime, May
<1>7. /\ bestBlock' = b /\ rows' = rows
      /\ \/ GoTo("main", "chainConnect", BlocksAbove(r.new, Height(b)))
         \/ GroupEnds("main", "record")
  BY <1>5, <1>6 DEF chainStored, Doing, SetBestBlock, ReorgStepFails
<1>8. /\ late' = late /\ task'.kind = "reorg" /\ task'.tips = task.tips
      /\ \/ task'.step = "chainConnect" /\ task'.todo = BlocksAbove(r.new, Height(b))
         \/ task'.step = "record"
  BY <1>3, <1>7, NextReorgTask
<1>9. OneMainRow' /\ MainRows' = MainRows
  BY <1>4, <1>7 DEF OneMainRow, MainRows
<1>10. LowRows(root, bestBlock)' /\ Height(b) <= Height(r.new)
  BY <1>5, <1>7, <1>9 DEF LowRows, OnChain
<1>11. ReorgRows(task.tips)'
  BY <1>2, <1>5, <1>7, <1>8, <1>10 DEF ReorgRows
<1> QED BY <1>1, <1>3, <1>4, <1>8, <1>9, <1>11, ReorgStepSingle

\* The new head is recorded, wherever the two databases have got.
LEMMA RecordReorgSingle ==
    ASSUME NotifierInv, SingleOK, recordReorg
    PROVE  SingleOK'
<1> DEFINE r == task.tips
<1>1. /\ At("main", "record") /\ previous' = r.new /\ task' = Idle
      /\ UNCHANGED <<best, anyQ, stakeTip, rows, bestBlock, overdue, late>>
  BY DEF recordReorg, node, stakeDB, chainDB
<1>2. /\ Alive /\ task.kind = "reorg" /\ task.step = "record" /\ r.new \in Block /\ Anc(r) \in Block
      /\ Height(r.new) \in Nat /\ Height(Anc(r)) \in Nat /\ Height(Anc(r)) < Height(r.new)
      /\ UpTo(stakeTip, r.new) /\ Floor(Anc(r)) /\ ReorgRows(r)
  BY <1>1, ReorgSingle
<1>3. OneMainRow /\ TipsBehind /\ stakeTip \in Block /\ bestBlock \in Block /\ Height(bestBlock) \in Nat
  BY <1>2, SingleFacts
<1>4. PICK f \in Block : f = Anc(r)
  BY <1>2
<1>5. task'.kind = "idle"
  BY <1>1 DEF Idle
<1>6. OneMainRow' /\ LowRows(f, bestBlock)'
  BY <1>1, <1>2, <1>3, <1>4 DEF OneMainRow, LowRows, MainRows, ReorgRows
<1>7. TipsBehind'
  BY <1>1, <1>3, <1>5 DEF TipsBehind
<1>8. InLine(f)'
  <2>1. CASE stakeTip = r.new
    <3>1. Height(bestBlock) <= Height(f) \/ OnChain(bestBlock, r.new)
      BY <1>2, <1>4 DEF ReorgRows
    <3>2. Height(bestBlock) <= Height(r.new)
      BY <1>2, <1>3, <1>4, <3>1 DEF OnChain
    <3>3. OnChain(r.new, r.new) /\ Height(r.new) <= Height(r.new) + 1
      BY <1>2, OnChainFacts
    <3> QED BY <1>1, <2>1, <3>1, <3>2, <3>3 DEF InLine
  <2>2. CASE Height(stakeTip) < Height(r.new)
    BY <1>1, <2>2 DEF InLine
  <2> QED BY <1>2, <2>1, <2>2 DEF UpTo
<1>9. RowsAbove(f)'
  BY <1>5, <1>6, <1>8 DEF RowsAbove
<1> QED BY <1>1, <1>2, <1>4, <1>5, <1>6, <1>7, <1>9, SingleStep
-----------------------------------------------------------------------------
(* dcrd's steps.                                                           *)

\* dcrd goes on to a block that keeps the ancestors of earlier reorganisations.
LEMMA RootKept ==
    ASSUME NEW a \in Block \ DeepBranch, NEW b \in Block \ DeepBranch,
           OnChain(a, b) \/ Fork(a, b), NEW f \in Block, Root(f, a), OnChain(f, a)
    PROVE  /\ Root(f, b) /\ OnChain(f, b)
           /\ Fork(a, b) => OnChain(f, CommonAncestor(b, a))
<1>1. Height(a) \in Nat /\ Height(b) \in Nat /\ Height(f) \in Nat /\ Height(a) <= Height(b)
  BY HeightFacts DEF OnChain, Fork
<1>2. ASSUME NEW m \in ReorgMessages, Known(m, a), Nested(m, a)
      PROVE  Known(m, b) /\ Nested(m, b) /\ OnChain(Anc(m), b) /\ Height(Anc(m)) < Height(a)
  <2>1. /\ m.type = "reorg" /\ Anc(m) \in Block /\ Height(Anc(m)) \in Nat
        /\ Height(Anc(m)) < Height(m.new) /\ Height(m.new) \in Nat
    BY <1>2, AncFacts
  <2>2. Known(m, b)
    BY <1>1, <1>2, HigherBest DEF Message
  <2>3. m.old \notin DeepBranch /\ m.new \notin DeepBranch /\ OnChain(Anc(m), a)
    BY <1>2, <2>1 DEF Nested
  <2>4. OnChain(Anc(m), b)
    <3>1. CASE OnChain(a, b)
      BY <2>1, <2>3, <3>1, OnChainFacts
    <3>2. CASE Fork(a, b)
      BY <1>2, <2>3, <3>2, ForkKeeps DEF Keeps
    <3> QED BY <3>1, <3>2
  <2>5. Height(m.new) <= Height(a)
    BY <1>2, <2>1 DEF Known
  <2> QED BY <1>1, <2>1, <2>2, <2>3, <2>4, <2>5 DEF Nested
<1>3. Root(f, b) /\ OnChain(f, b)
  <2>1. CASE f = Genesis
    BY <2>1, OnChainFacts DEF Root
  <2>2. CASE f # Genesis
    <3>1. PICK m \in ReorgMessages : Known(m, a) /\ Nested(m, a) /\ f = Anc(m)
      BY <2>2 DEF Root
    <3> QED BY <1>2, <3>1 DEF Root
  <2> QED BY <2>1, <2>2
<1>4. ASSUME Fork(a, b)
      PROVE  OnChain(f, CommonAncestor(b, a))
  <2> DEFINE c == CommonAncestor(b, a)
  <2>1. c \in Block /\ OnChain(c, b) /\ OnChain(c, a)
    BY <1>1, <1>4, ForkAncestor DEF Fork
  <2>2. CASE f = Genesis
    BY <2>1, <2>2, OnChainFacts
  <2>3. CASE f # Genesis
    <3>1. Height(f) < Height(a)
      BY <1>2, <2>3 DEF Root
    <3>2. f # a /\ f # b
      BY <1>1, <3>1
    <3>3. f \in Shared(b, a)
      BY <1>3, <3>2 DEF Shared
    <3>4. IsHighest(LastShared(b, a), Shared(b, a)) /\ c = LastShared(b, a)
      BY <3>3, LastSharedFacts, CommonAncestorIsLastShared
    <3>5. Height(f) <= Height(c)
      BY <3>3, <3>4 DEF IsHighest
    <3> HIDE DEF c
    <3>6. OnChain(f, c)
      BY <2>1, <3>5, OnChainFacts
    <3> QED BY <3>6 DEF c
  <2> QED BY <2>2, <2>3
<1> QED BY <1>3, <1>4

\* What is in the queue and what is being handled stays before what is notified.
LEMMA GrownQueue ==
    ASSUME NEW q, NEW p, Prefix(q, p), NEW b \in Block, NEW top \in Block, Height(top) < Height(b),
           NEW i \in Nat,
           \A j \in Len(q) + 1 .. Len(p) : p[j].type = "reorg" => p[j].new = b
    PROVE  /\ \A v \in Block : Height(v) <= Height(top) /\ Behind(v, q, i) => Behind(v, p, i)
           /\ \A f \in Block :
                 /\ Below(f, q, i)
                 /\ \A j \in Len(q) + 1 .. Len(p) : p[j].type = "reorg" => OnChain(f, Anc(p[j]))
                 => Below(f, p, i)
<1>1. /\ Len(q) \in Nat /\ Len(p) \in Nat /\ Len(q) <= Len(p)
      /\ \A k \in 1 .. Len(q) : p[k] = q[k]
  BY DEF Prefix
<1>2. ASSUME NEW j \in i + 1 .. Len(p)
      PROVE  \/ j \in i + 1 .. Len(q) /\ p[j] = q[j]
             \/ j \in Len(q) + 1 .. Len(p)
  BY <1>1
<1>3. ASSUME NEW v \in Block, Height(v) <= Height(top), Behind(v, q, i)
      PROVE  Behind(v, p, i)
  <2>1. UpTo(v, b)
    BY <1>3, HeightFacts DEF UpTo
  <2> QED BY <1>2, <1>3, <2>1 DEF Behind
<1>4. ASSUME NEW f \in Block, Below(f, q, i),
             \A j \in Len(q) + 1 .. Len(p) : p[j].type = "reorg" => OnChain(f, Anc(p[j]))
      PROVE  Below(f, p, i)
  BY <1>2, <1>4 DEF Below
<1> QED BY <1>3, <1>4

\* dcrd gets to block b, and its notifications follow what is in the queue.
LEMMA MovedSingle ==
    ASSUME NotifierInv, SingleOK, NEW b \in Block \ DeepBranch, best' = b, Height(best) < Height(b),
           UNCHANGED <<previous, task, stakeTip, rows, bestBlock, overdue, late>>,
           OnChain(best, b) \/ Fork(best, b),
           Prefix(anyQ, anyQ'),
           \A j \in Len(anyQ) + 1 .. Len(anyQ') :
               /\ Rising(anyQ'[j], anyQ', j) /\ Nested(anyQ'[j], b)
               /\ anyQ'[j].type = "reorg" =>
                     Fork(best, b) /\ anyQ'[j].new = b /\ Anc(anyQ'[j]) = CommonAncestor(b, best)
    PROVE  SingleOK'
<1>1. /\ Queue(anyQ) /\ best \in Block /\ Len(anyQ) \in Nat /\ Height(best) \in Nat
      /\ \A i \in 1 .. Len(anyQ) : anyQ[i] \in Message /\ Known(anyQ[i], best)
  BY AnyQFacts DEF NotifierInv
<1>2. best \notin DeepBranch /\ QueueRising /\ TipsBehind
  BY DEF SingleOK, QueueRising
<1>3. ASSUME NEW f \in Block, Root(f, best), OnChain(f, best)
      PROVE  /\ Root(f, b) /\ OnChain(f, b)
             /\ \A j \in Len(anyQ) + 1 .. Len(anyQ') : anyQ'[j].type = "reorg" => OnChain(f, Anc(anyQ'[j]))
  BY <1>1, <1>2, <1>3, RootKept
<1>4. ASSUME NEW i \in Nat
      PROVE  /\ \A v \in Block : Height(v) <= Height(best) /\ Behind(v, anyQ, i) => Behind(v, anyQ', i)
             /\ \A f \in Block :
                   Root(f, best) /\ OnChain(f, best) /\ Below(f, anyQ, i) => Below(f, anyQ', i)
  <2>1. \A v \in Block : Height(v) <= Height(best) /\ Behind(v, anyQ, i) => Behind(v, anyQ', i)
    BY <1>1, GrownQueue
  <2>2. \A f \in Block :
           /\ Below(f, anyQ, i)
           /\ \A j \in Len(anyQ) + 1 .. Len(anyQ') : anyQ'[j].type = "reorg" => OnChain(f, Anc(anyQ'[j]))
           => Below(f, anyQ', i)
    BY <1>1, GrownQueue
  <2> QED BY <1>3, <2>1, <2>2
<1>5. ASSUME NEW m \in ReorgMessages, Known(m, best), Nested(m, best)
      PROVE  /\ m.type = "reorg" /\ Anc(m) \in Block /\ Root(Anc(m), best) /\ OnChain(Anc(m), best)
             /\ Nested(m, b) /\ m.new \in Block /\ Height(m.new) <= Height(best)
  <2>1. m.type = "reorg" /\ Anc(m) \in Block /\ m.new \in Block
    BY <1>1, <1>5, AncFacts
  <2>2. Root(Anc(m), best) /\ OnChain(Anc(m), best)
    BY <1>5, <2>1 DEF Root, Nested
  <2>3. OnChain(Anc(m), b)
    BY <1>3, <2>1, <2>2
  <2> QED BY <1>5, <2>1, <2>2, <2>3 DEF Nested, Known
<1>6. ASSUME NEW i \in 1 .. Len(anyQ)
      PROVE  Rising(anyQ[i], anyQ', i) /\ Nested(anyQ[i], b)
  <2>1. anyQ[i] \in Message /\ Known(anyQ[i], best) /\ i \in Nat
    BY <1>1
  <2>2. Rising(anyQ[i], anyQ, i) /\ Nested(anyQ[i], best)
    BY <1>2 DEF QueueRising
  <2>3. CASE anyQ[i].type = "block"
    <3>1. Target(anyQ[i]) \in Block /\ Height(Target(anyQ[i])) <= Height(best)
      BY <2>1, <2>3, MessageFacts DEF Target, Known
    <3>2. Behind(Target(anyQ[i]), anyQ', i)
      BY <1>4, <2>1, <2>2, <3>1 DEF Rising
    <3> QED BY <2>3, <3>2 DEF Rising, Nested
  <2>4. CASE anyQ[i].type = "reorg"
    <3>1. anyQ[i] \in ReorgMessages
      BY <2>1, <2>4, MessageFacts
    <3>2. /\ Anc(anyQ[i]) \in Block /\ Root(Anc(anyQ[i]), best) /\ OnChain(Anc(anyQ[i]), best)
          /\ Nested(anyQ[i], b) /\ anyQ[i].new \in Block /\ Height(anyQ[i].new) <= Height(best)
      BY <1>5, <2>1, <2>2, <3>1
    <3>3. Target(anyQ[i]) = anyQ[i].new /\ Behind(anyQ[i].new, anyQ, i) /\ Below(Anc(anyQ[i]), anyQ, i)
      BY <2>2, <2>4 DEF Target, Rising
    <3>4. Behind(anyQ[i].new, anyQ', i) /\ Below(Anc(anyQ[i]), anyQ', i)
      BY <1>4, <2>1, <3>2, <3>3
    <3> QED BY <3>2, <3>3, <3>4 DEF Rising
  <2> QED BY <2>1, <2>3, <2>4, MessageFacts
<1>7. QueueRising'
  <2>1. /\ Len(anyQ') \in Nat /\ Len(anyQ) <= Len(anyQ') /\ \A i \in 1 .. Len(anyQ) : anyQ'[i] = anyQ[i]
    BY DEF Prefix
  <2>2. \A i \in 1 .. Len(anyQ') : i \in 1 .. Len(anyQ) \/ i \in Len(anyQ) + 1 .. Len(anyQ')
    BY <1>1, <2>1
  <2>3. \A i \in 1 .. Len(anyQ') : Rising(anyQ'[i], anyQ', i) /\ Nested(anyQ'[i], b)
    BY <1>6, <2>1, <2>2
  <2> QED BY <2>3 DEF QueueRising
<1>8. TipsBehind'
  <2>1. stakeTip \in Block /\ Height(stakeTip) \in Nat /\ Height(b) \in Nat
    BY HeightFacts DEF NotifierInv, TipsInv
  <2>2. Behind(stakeTip, anyQ', 0) /\ Height(stakeTip) <= Height(b)
    BY <1>1, <1>2, <1>4, <2>1 DEF TipsBehind
  <2>3. ASSUME task.kind \in {"catchup", "run"}
        PROVE  Behind(task.bh, anyQ', 0)
    <3>1. task.bh \in Block /\ Height(task.bh) <= Height(best)
      BY <2>3, TaskFacts DEF NotifierInv, TasksInv, KnownTask, RunTasks
    <3> QED BY <1>2, <1>4, <2>3, <3>1 DEF TipsBehind
  <2>4. ASSUME task.kind = "reorg"
        PROVE  Behind(task.tips.new, anyQ', 0) /\ Nested(task.tips, b)
    <3>1. task.tips \in ReorgMessages /\ Known(task.tips, best)
      BY <2>4, TaskFacts DEF NotifierInv, TasksInv, KnownTask, ReorgTasks
    <3>2. Behind(task.tips.new, anyQ, 0) /\ Nested(task.tips, best)
      BY <1>2, <2>4 DEF TipsBehind
    <3>3. Nested(task.tips, b) /\ task.tips.new \in Block /\ Height(task.tips.new) <= Height(best)
      BY <1>5, <3>1, <3>2
    <3> QED BY <1>4, <3>2, <3>3
  <2> QED BY <1>2, <2>2, <2>3, <2>4 DEF TipsBehind
<1>9. PICK f \in Block : Floor(f) /\ (~Hung => RowsAbove(f))
  BY DEF SingleOK
<1>10. Floor(f)'
  <2>1. Root(f, b) /\ OnChain(f, b) /\ Below(f, anyQ', 0)
    BY <1>3, <1>4, <1>9 DEF Floor
  <2> QED BY <1>9, <2>1 DEF Floor
<1>11. ~Hung' => RowsAbove(f)'
  <2>1. Hung' <=> Hung
    BY DEF Hung
  <2>2. RowsAbove(f) => RowsAbove(f)'
    BY DEF RowsAbove, LowRows, MainRows, InLine, RowInserted, ReorgRows
  <2> QED BY <1>9, <2>1, <2>2
<1>12. OneMainRow' /\ late' = Idle /\ overdue' = {}
  BY DEF SingleOK, OneMainRow, MainRows
<1> QED BY <1>7, <1>8, <1>10, <1>11, <1>12 DEF SingleOK

\* dcrd's chain grows by a block, which is notified or not.
LEMMA NodeExtendsSingle ==
    ASSUME NotifierInv, OneAtATime, SingleOK, NEW b \in Block, NodeExtends(b)
    PROVE  SingleOK'
<1> DEFINE p == anyQ'
<1>1. /\ best' = b /\ b \in scenario.reach /\ b # Genesis /\ Parent[b] = best
      /\ UNCHANGED <<previous, task, stakeTip, rows, bestBlock, overdue, late>>
  BY DEF NodeExtends, MayReach, stakeDB, chainDB
<1>2. b \notin DeepBranch
  BY <1>1 DEF OneAtATime, NestedForks
<1>3. best \in Block /\ Height(best) \in Nat
  BY AnyQFacts DEF NotifierInv
<1>4. OnChain(best, b) /\ Height(best) < Height(b)
  <2>1. Height(b) = Height(best) + 1
    BY <1>1, HeightFacts
  <2> QED BY <1>1, <1>3, <2>1, OnChainFacts
<1>5. /\ Prefix(anyQ, p) /\ Len(p) \in Nat
      /\ \A i \in Len(anyQ) + 1 .. Len(p) : i = Len(p) /\ p[i] = NewBlock(b)
  BY ExtendedQueue
<1>6. ASSUME NEW i \in Len(anyQ) + 1 .. Len(p)
      PROVE  p[i].type = "block" /\ Rising(p[i], p, i) /\ Nested(p[i], b)
  <2>1. i = Len(p) /\ p[i].type = "block"
    BY <1>5 DEF NewBlock
  <2>2. i + 1 .. Len(p) = {}
    BY <1>5, <2>1
  <2> QED BY <2>1, <2>2 DEF Rising, Behind, Nested
<1> QED BY <1>1, <1>2, <1>4, <1>5, <1>6, MovedSingle

\* dcrd switches to another branch, which is notified or not.
LEMMA NodeReorganizesSingle ==
    ASSUME NotifierInv, OneAtATime, SingleOK, NEW b \in Block, NodeReorganizes(b)
    PROVE  SingleOK'
<1> DEFINE p == anyQ'
<1>1. /\ best' = b /\ b \in scenario.reach
      /\ UNCHANGED <<previous, task, stakeTip, rows, bestBlock, overdue, late>>
  BY DEF NodeReorganizes, MayReach, stakeDB, chainDB
<1>2. b \notin DeepBranch /\ best \notin DeepBranch
  BY <1>1 DEF OneAtATime, NestedForks, SingleOK, QueueRising
<1>3. best \in Block /\ anyQ \in Seq(Message) /\ Len(anyQ) \in Nat
  BY AnyQFacts DEF NotifierInv, QueueInv
<1>4. Fork(best, b) /\ (Switched(anyQ, p, best, b) \/ p = anyQ)
  BY SwitchedQueue
<1>5. Height(best) < Height(b)
  BY <1>4 DEF Fork
<1>6. CASE Switched(anyQ, p, best, b)
  <2>1. /\ Len(p) \in Nat /\ Len(anyQ) < Len(p) /\ Prefix(anyQ, p)
        /\ p[Len(p)].type = "reorg" /\ p[Len(p)].old = best /\ p[Len(p)].new = b
        /\ OnChain(Anc(p[Len(p)]), b)
        /\ \A j \in Len(anyQ) + 1 .. Len(p) : p[j].type = "reorg" => j = Len(p)
    BY <1>3, <1>4, <1>6, SwitchedFacts
  <2>2. Anc(p[Len(p)]) = CommonAncestor(b, best)
    BY <2>1 DEF Anc
  <2>3. ASSUME NEW i \in Len(anyQ) + 1 .. Len(p)
        PROVE  /\ Rising(p[i], p, i) /\ Nested(p[i], b)
               /\ p[i].type = "reorg" => p[i].new = b /\ Anc(p[i]) = CommonAncestor(b, best)
    <3>1. CASE i = Len(p)
      <4>1. i + 1 .. Len(p) = {}
        BY <2>1, <3>1
      <4> QED BY <1>2, <2>1, <2>2, <3>1, <4>1 DEF Rising, Behind, Below, Nested
    <3>2. CASE i # Len(p)
      <4>1. i \in Len(anyQ) + 1 .. Len(p) - 1 /\ i \in 1 .. Len(p)
        BY <1>3, <2>1, <3>2
      <4>2. p[i].type = "block" /\ OnChain(p[i].block, b) /\ p[i] \in Message
        BY <1>6, <2>1, <4>1 DEF Switched, Prefix
      <4>3. Target(p[i]) \in Block /\ OnChain(Target(p[i]), b)
        BY <4>2, MessageFacts DEF Target
      <4>4. UpTo(Target(p[i]), b)
        BY <4>3, UpToFacts
      <4>5. \A j \in i + 1 .. Len(p) : j \in Len(anyQ) + 1 .. Len(p)
        BY <1>3, <2>1
      <4>6. Behind(Target(p[i]), p, i)
        BY <2>1, <4>4, <4>5 DEF Behind
      <4> QED BY <4>2, <4>6 DEF Rising, Nested
    <3> QED BY <3>1, <3>2
  <2> QED BY <1>1, <1>2, <1>4, <1>5, <2>1, <2>3, MovedSingle
<1>7. CASE p = anyQ
  <2>1. Prefix(anyQ, p)
    BY <1>3, <1>7 DEF Prefix
  <2>2. Len(anyQ) + 1 .. Len(p) = {}
    BY <1>3, <1>7
  <2> QED BY <1>1, <1>2, <1>4, <1>5, <2>1, <2>2, MovedSingle
<1> QED BY <1>4, <1>6, <1>7
-----------------------------------------------------------------------------
\* No handler passes its deadline in these scenarios.
LEMMA NoneBeside ==
    ASSUME OneAtATime, SingleOK
    PROVE  ~HandlerOverdue /\ ~ReorgOverdue /\ ~overdueHandler
<1>1. late = Idle /\ overdue = {} /\ ~May("deadline") /\ ~May("reorgDeadline")
  BY DEF SingleOK, OneAtATime, May
<1>2. ~reorgHandler("late")
  <2>1. Doing("late").kind = "idle"
    BY <1>1 DEF Doing, Idle
  <2> QED BY <2>1 DEF reorgHandler, stakeRewind, stakeConnect, chainRewind, TipToSideChain, TipMoved,
                       chainConnect, chainStored, At
<1> QED BY <1>1, <1>2 DEF HandlerOverdue, ReorgOverdue, overdueHandler

\* Every step preserves the invariant of these scenarios.
LEMMA NextSingle == NotifierInv /\ SingleInv /\ [Next]_vars => SingleInv'
<1> SUFFICES ASSUME NotifierInv, SingleInv, [Next]_vars, OneAtATime'
             PROVE  SingleOK'
  BY DEF SingleInv
<1>1. scenario' = scenario
  BY SameScenario
<1>2. OneAtATime /\ SingleOK
  BY <1>1 DEF OneAtATime, NestedForks, SingleInv
<1>3. CASE superQueue
  BY <1>2, <1>3, ProcessBlockSingle, CatchUpSingle, StakeConnectBlockSingle, CollectOnceSingle,
     BlockdataConnectBlockSingle, BlockdataBlockStoredSingle, SignalReorgSingle, StakeRewindSingle,
     StakeConnectSingle, ChainRewindSingle, TipToSideChainSingle, TipMovedSingle, ChainConnectSingle,
     ChainStoredSingle, RecordReorgSingle
  DEF superQueue, reorgHandler
<1>4. CASE overdueHandler \/ HandlerOverdue \/ ReorgOverdue
  BY <1>2, <1>4, NoneBeside
<1>5. CASE blockdataReorgFails
  <2>1. UNCHANGED <<best, anyQ, previous, task, late, stakeTip, rows, bestBlock, overdue>>
    BY <1>5 DEF blockdataReorgFails, node, stakeDB, chainDB
  <2> QED BY <1>2, <2>1, SameSingle
<1>6. CASE \E b \in Block : NodeExtends(b) \/ NodeReorganizes(b)
  BY <1>2, <1>6, NodeExtendsSingle, NodeReorganizesSingle
<1>7. CASE UNCHANGED vars
  <2>1. UNCHANGED <<best, anyQ, previous, task, late, stakeTip, rows, bestBlock, overdue>>
    BY <1>7 DEF vars, node, stakeDB, chainDB
  <2> QED BY <1>2, <2>1, SameSingle
<1> QED BY <1>3, <1>4, <1>5, <1>6, <1>7 DEF Next

(***************************************************************************)
(* No height ever has two rows flagged is_mainchain, as long as no handler *)
(* runs past its deadline, no row is left half stored and dcrd's forks are *)
(* nested: also when a reorganisation fails half way in either database    *)
(* (switchToSideChain), is dropped by signalReorg or is never notified,    *)
(* when blocks fail or get lost, and when TipToSideChain loses its way.    *)
(***************************************************************************)
THEOREM OneMainBlockPerHeightAlways == Spec => []OneMainBlockPerHeight
<1>1. SingleInv => OneMainBlockPerHeight
  BY DEF SingleInv, SingleOK, OneMainBlockPerHeight
<1>2. NotifierInv /\ SingleInv /\ [Next]_vars => (NotifierInv /\ SingleInv)'
  BY NextInv, NextSingle
<1> QED BY <1>1, <1>2, InitInv, InitSingle, PTL DEF Spec
=============================================================================
