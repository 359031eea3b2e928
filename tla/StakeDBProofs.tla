--------------------------- MODULE StakeDBProofs ----------------------------
(***************************************************************************)
(* Proofs about StakeDB, for any tree of blocks, any tickets and any       *)
(* faults, from the assumptions of StakeDB: forks shallower than the       *)
(* ticket maturity, and winners that are live.                             *)
(***************************************************************************)
EXTENDS StakeDB, BlockTreeProofs, FiniteSetTheorems

\* The tickets that mature in b, and the diff of b, by the chain b is on.
TrueIn(b) == IF Height(b) >= TicketMaturity THEN TicketsIn[BlockAt(b, Height(b) - TicketMaturity)] ELSE {}

TrueDiff(b) == [In |-> TrueIn(b), Out |-> Winners[Parent[b]]]

(***************************************************************************)
(* A stake node as it should be: the chain of its tip, with the live       *)
(* tickets of each block; no ticket matured while it was live.             *)
(***************************************************************************)
TrueNode(n) ==
    /\ n \in Seq(NodeEntry) /\ n # <<>>
    /\ Len(n) = Height(Tip(n)) + 1
    /\ \A i \in 1 .. Len(n) : n[i].blk = BlockAt(Tip(n), i - 1) /\ n[i].live = LiveAt[n[i].blk]
    /\ \A i \in 2 .. Len(n) : TrueIn(n[i].blk) \cap LiveAt[n[i - 1].blk] = {}

NodesInv == TrueNode(bestNode) /\ TrueNode(stakeDisk)

\* A reorganisation leads to a higher block of another branch.
Forks(r, top) ==
    Height(r.old) < Height(r.new) /\ Height(r.new) <= Height(top) /\ ~OnChain(r.old, r.new)

\* dcrd was once at the blocks it has notified: it is not below them now.
ChainInv ==
    /\ best \in Block
    /\ announced \subseteq Block /\ \A b \in announced : Height(b) <= Height(best)
    /\ reorgQ \in Seq([old : Block, new : Block])
    /\ \A i \in 1 .. Len(reorgQ) : Forks(reorgQ[i], best)

Job == [undo : 0 .. MaxHeight, blocks : Seq(Block)]

GoodJob(j, top, height) ==
    \/ j = NoJob
    \/ /\ j.blocks # <<>> /\ j.undo <= height
       /\ \A i \in 1 .. Len(j.blocks) : Height(j.blocks[i]) <= Height(top)

\* ConnectBlock between its two halves has the tip and its diff in hand.
Pending == connected # NotConnected

JobInv ==
    /\ job \in Job
    /\ GoodJob(job, best, NodeHeight(bestNode))
    /\ connected \in [blk : Block \cup {NoBlock}, diff : PoolDiff]
    /\ Pending => /\ Tip(bestNode) # Genesis
                  /\ connected.diff = TrueDiff(Tip(bestNode))
                  /\ job # NoJob /\ job.undo = 0

\* The block cached at a height is of that height.
CacheInv ==
    /\ blockCache \in [0 .. MaxHeight -> Block \cup {NoBlock}]
    /\ \A h \in 0 .. MaxHeight : blockCache[h] # NoBlock => Height(blockCache[h]) = h

PoolInv ==
    /\ diffs \in Seq(PoolDiff)
    /\ diffDB \in [1 .. MaxHeight -> PoolDiff \cup {NoDiff}]
    /\ liveTicketCache \subseteq Tickets

StatusInv ==
    /\ status \in {"up", "down", "loading", "recovering", "starting", "panicked"}
    /\ recoverTo \in 0 .. MaxHeight
    /\ crashes \in 0 .. MaxCrashes
    /\ status \in {"loading", "recovering"} => Contiguous
    /\ status \notin {"up", "down"} => job = NoJob /\ ~Pending

\* The inductive invariant that holds whatever fails.
StakeInv == NodesInv /\ ChainInv /\ JobInv /\ CacheInv /\ PoolInv /\ StatusInv

Stages == {"check", "purge", "rewind", "import", "failed", "listen", "live"}

Store == [kind : {"none", "block", "reorg", "sync"}, root : Block \cup {NoBlock},
          blocks : Seq(Block), head : Block \cup {NoBlock}]

\* ChainDB is to go back to a root below the head, and then has blocks to store.
GoodStore(st, top) ==
    \/ st = NoStore
    \/ /\ st.head \in Block
       /\ st.root = NoBlock => st.blocks # <<>>
       /\ st.root # NoBlock => Height(st.root) < Height(st.head) /\ Height(st.head) <= Height(top)

\* What main.go and ChainDB keep beside the stake database.
MainInv ==
    /\ stage \in Stages
    /\ storing \in Store /\ GoodStore(storing, best)
    /\ chainDB \in Block /\ chainMeta \in Block /\ previous \in Block
    /\ lostTickets \subseteq Tickets /\ missed \in BOOLEAN

-----------------------------------------------------------------------------
(* What holds as long as some of the faults do not strike.                 *)

\* No write of badger fails: what is in memory is stored, and no key is missing.
StoredInv ==
    ~May("poolWrite") =>
        /\ Contiguous
        /\ status # "panicked"
        /\ \A h \in 1 .. Len(diffs) : h <= MaxHeight /\ diffDB[h] = diffs[h]

\* No write of ffldb fails: the stake node is stored, and the pool is at its height.
AlignedInv ==
    ~May("stakeWrite") =>
        /\ stakeDisk = bestNode
        /\ status = "up" /\ ~Pending => Len(diffs) = NodeHeight(bestNode)
        /\ status = "up" /\ Pending => Len(diffs) + 1 = NodeHeight(bestNode)
        /\ status = "starting" => Len(diffs) = NodeHeight(bestNode)

(***************************************************************************)
(* Only calls to dcrd fail: the stored diffs are those of the stake node,  *)
(* and the ticket cache is short of lost tickets only, up to the block     *)
(* that is being connected.                                                *)
(***************************************************************************)
Done == IF Pending THEN Len(bestNode) - 1 ELSE Len(bestNode)

\* The cache has live tickets only, and all but the lost ones.
Short(c, lost, live) == c \subseteq live /\ live \ lost \subseteq c

AccurateInv ==
    OnlyRPCFails =>
        /\ status # "up" => ~Pending
        /\ \A h \in 1 .. Done - 1 : diffDB[h] = TrueDiff(bestNode[h + 1].blk)
        /\ status \in {"up", "starting"} => Short(liveTicketCache, lostTickets, bestNode[Done].live)

FaultsInv == StoredInv /\ AlignedInv /\ AccurateInv
-----------------------------------------------------------------------------
(* Heights and tickets.                                                    *)

\* No block is above MaxHeight.
LEMMA MaxHeightFacts ==
    MaxHeight \in Nat /\ \A b \in Block : Height(b) \in 0 .. MaxHeight
<1>1. MaxHeight \in Heights /\ \A k \in Heights : k <= MaxHeight
  BY HeightsAssumption DEF MaxHeight
<1>2. MaxHeight \in Nat
  BY <1>1, HeightFacts DEF Heights
<1>3. \A b \in Block : Height(b) <= MaxHeight /\ Height(b) \in Nat
  BY <1>1, HeightFacts DEF Heights
<1> QED BY <1>2, <1>3

\* The tickets that mature in a block are tickets, and so are those that leave.
LEMMA TrueInTickets == \A b \in Block : TrueIn(b) \subseteq Tickets
<1> SUFFICES ASSUME NEW b \in Block, NEW t \in TrueIn(b)
             PROVE  t \in Tickets
  OBVIOUS
<1> DEFINE m == Height(b) - TicketMaturity
<1>1. Height(b) \in Nat /\ TicketMaturity \in Nat
  BY HeightFacts, BoundsAssumption
<1>2. Height(b) >= TicketMaturity /\ t \in TicketsIn[BlockAt(b, m)]
  BY DEF TrueIn
<1>3. m \in 0 .. Height(b)
  BY <1>1, <1>2
<1> HIDE DEF m
<1>4. BlockAt(b, m) \in Block
  BY <1>3, BlockAtFacts
<1> QED BY <1>2, <1>4 DEF Tickets

(***************************************************************************)
(* LiveAt, whose definition is recursive, is what each block makes of the  *)
(* live tickets of its parent.  A ticket is live at b if it matured in a   *)
(* block of b's chain and was no winner from there on.                     *)
(***************************************************************************)
LEMMA LiveEquation ==
    /\ LiveAt[Genesis] = {}
    /\ \A b \in Block \ {Genesis} : LiveAt[b] = ApplyDiff(LiveAt[Parent[b]], TrueDiff(b))
    /\ \A b \in Block : LiveAt[b] \subseteq Tickets /\ Winners[b] \subseteq Tickets
<1> DEFINE Out(b, j) == Winners[Parent[BlockAt(b, j)]]
           Lives(t, b) ==
               \E i \in 1 .. Height(b) :
                   t \in TrueIn(BlockAt(b, i)) /\ \A j \in i .. Height(b) : t \notin Out(b, j)
           F == [b \in Block |-> {t \in Tickets : Lives(t, b)}]
           Val(f, b) == IF b = Genesis THEN {}
                        ELSE LET m == Height(b) - TicketMaturity
                             IN  (f[Parent[b]] \cup (IF m >= 0 THEN TicketsIn[BlockAt(b, m)] ELSE {}))
                                    \ Winners[Parent[b]]
           Eqn(f) == f = [b \in Block |-> Val(f, b)]
<1>1. ASSUME NEW f, NEW b \in Block
      PROVE  Val(f, b) = IF b = Genesis THEN {} ELSE (f[Parent[b]] \cup TrueIn(b)) \ Winners[Parent[b]]
  <2>1. Height(b) \in Nat /\ TicketMaturity \in Nat
    BY HeightFacts, BoundsAssumption
  <2>2. Height(b) - TicketMaturity >= 0 <=> Height(b) >= TicketMaturity
    BY <2>1
  <2> QED BY <2>2 DEF TrueIn
<1> HIDE DEF Val
<1>2. ASSUME NEW b \in Block \ {Genesis}, NEW t
      PROVE  Lives(t, b) <=> (Lives(t, Parent[b]) \/ t \in TrueIn(b)) /\ t \notin Winners[Parent[b]]
  <2> DEFINE n == Height(b)
             p == Parent[b]
  <2>1. p \in Block /\ Height(p) = n - 1 /\ n \in Nat \ {0}
    BY HeightFacts
  <2>2. BlockAt(b, n) = b /\ \A h \in 0 .. n - 1 : BlockAt(b, h) = BlockAt(p, h)
    BY BlockAtTop
  <2>3. Out(b, n) = Winners[p] /\ \A j \in 1 .. n - 1 : Out(b, j) = Out(p, j)
    BY <2>1, <2>2
  <2> HIDE DEF n, p, Out
  <2>4. ASSUME Lives(t, b)
        PROVE  (Lives(t, p) \/ t \in TrueIn(b)) /\ t \notin Winners[p]
    <3>1. PICK i \in 1 .. n : t \in TrueIn(BlockAt(b, i)) /\ \A j \in i .. n : t \notin Out(b, j)
      BY <2>4 DEF n
    <3>2. t \notin Winners[p]
      BY <2>1, <2>3, <3>1
    <3>3. CASE i = n
      BY <2>2, <3>1, <3>2, <3>3
    <3>4. CASE i \in 1 .. n - 1
      <4>1. t \in TrueIn(BlockAt(p, i))
        BY <2>1, <2>2, <3>1, <3>4
      <4>2. \A j \in i .. n - 1 : t \notin Out(p, j)
        BY <2>1, <2>3, <3>1, <3>4
      <4> QED BY <2>1, <3>2, <3>4, <4>1, <4>2
    <3> QED BY <2>1, <3>3, <3>4
  <2>5. ASSUME t \in TrueIn(b), t \notin Winners[p]
        PROVE  Lives(t, b)
    <3>1. n \in 1 .. n /\ \A j \in n .. n : j = n
      BY <2>1
    <3>2. t \in TrueIn(BlockAt(b, n)) /\ \A j \in n .. n : t \notin Out(b, j)
      BY <2>2, <2>3, <2>5, <3>1
    <3> QED BY <3>1, <3>2 DEF n
  <2>6. ASSUME Lives(t, p), t \notin Winners[p]
        PROVE  Lives(t, b)
    <3>1. PICK i \in 1 .. n - 1 : t \in TrueIn(BlockAt(p, i)) /\ \A j \in i .. n - 1 : t \notin Out(p, j)
      BY <2>1, <2>6
    <3>2. i \in 1 .. n /\ \A j \in i .. n : j = n \/ j \in i .. n - 1
      BY <2>1
    <3>3. t \in TrueIn(BlockAt(b, i)) /\ \A j \in i .. n : t \notin Out(b, j)
      BY <2>1, <2>2, <2>3, <2>6, <3>1, <3>2
    <3> QED BY <3>2, <3>3 DEF n
  <2> QED BY <2>4, <2>5, <2>6 DEF p
<1>3. \A t : ~Lives(t, Genesis)
  BY HeightFacts
<1> HIDE DEF Lives
<1>4. \A b \in Block : F[b] = {t \in Tickets : Lives(t, b)}
  OBVIOUS
<1>5. F \in [Block -> SUBSET Tickets]
  OBVIOUS
<1> HIDE DEF F
<1>6. \A b \in Block : F[b] = Val(F, b)
  <2> SUFFICES ASSUME NEW b \in Block
               PROVE  F[b] = Val(F, b)
    OBVIOUS
  <2>1. CASE b = Genesis
    BY <1>1, <1>3, <1>4, <2>1
  <2>2. CASE b # Genesis
    <3>1. Parent[b] \in Block /\ TrueIn(b) \subseteq Tickets
      BY <2>2, HeightFacts, TrueInTickets
    <3>2. Val(F, b) = (F[Parent[b]] \cup TrueIn(b)) \ Winners[Parent[b]]
      BY <1>1, <2>2
    <3>3. F[b] = {t \in Tickets : Lives(t, b)} /\ F[Parent[b]] = {t \in Tickets : Lives(t, Parent[b])}
      BY <1>4, <3>1
    <3>4. \A t : Lives(t, b) <=> (Lives(t, Parent[b]) \/ t \in TrueIn(b)) /\ t \notin Winners[Parent[b]]
      BY <1>2, <2>2
    <3> QED BY <3>1, <3>2, <3>3, <3>4
  <2> QED BY <2>1, <2>2
<1>7. Eqn(F)
  <2>1. F = [b \in Block |-> F[b]]
    BY <1>5
  <2>2. [b \in Block |-> F[b]] = [b \in Block |-> Val(F, b)]
    BY <1>6
  <2> QED BY <2>1, <2>2
<1>8. Eqn(LiveAt)
  <2>1. LiveAt = CHOOSE f : Eqn(f)
    BY DEF LiveAt, Val
  <2> HIDE DEF Eqn
  <2> QED BY <1>7, <2>1
<1>9. \A b \in Block : LiveAt[b] = IF b = Genesis THEN {} ELSE (LiveAt[Parent[b]] \cup TrueIn(b)) \ Winners[Parent[b]]
  <2>1. \A b \in Block : LiveAt[b] = Val(LiveAt, b)
    BY <1>8
  <2> QED BY <1>1, <2>1
<1>10. \A b \in Block : LiveAt[b] \subseteq Tickets
  <2> DEFINE S == {b \in Block : ~(LiveAt[b] \subseteq Tickets)}
  <2> SUFFICES ASSUME S # {}
               PROVE  FALSE
    OBVIOUS
  <2>1. PICK b \in S : b = Genesis \/ Parent[b] \notin S
    BY TreeAssumption
  <2>2. b # Genesis => Parent[b] \in Block
    BY HeightFacts
  <2>3. TrueIn(b) \subseteq Tickets
    BY TrueInTickets
  <2> QED BY <1>9, <2>1, <2>2, <2>3
<1>11. \A b \in Block \ {Genesis} : LiveAt[b] = ApplyDiff(LiveAt[Parent[b]], TrueDiff(b))
  BY <1>9 DEF ApplyDiff, TrueDiff
<1>12. LiveAt[Genesis] = {}
  BY <1>9, GenesisAssumption
<1> QED BY <1>10, <1>11, <1>12, WinnersAssumption

-----------------------------------------------------------------------------
(* Stake nodes.                                                            *)

\* The tip of a stake node, and its height.
LEMMA TipFacts ==
    ASSUME NEW n, TrueNode(n)
    PROVE  /\ Tip(n) \in Block /\ Len(n) \in Nat /\ Len(n) >= 1 /\ NodeHeight(n) = Height(Tip(n))
           /\ NodeHeight(n) \in 0 .. MaxHeight
           /\ n[Len(n)].live = LiveAt[Tip(n)]
           /\ \A i \in 1 .. Len(n) : n[i] \in NodeEntry /\ n[i].blk \in Block /\ n[i].live \subseteq Tickets
           /\ Len(n) > 1 <=> Tip(n) # Genesis
<1>1. n \in Seq(NodeEntry) /\ Len(n) \in Nat /\ Len(n) # 0
  BY EmptySeq, LenProperties DEF TrueNode
<1>2. \A i \in 1 .. Len(n) : n[i] \in NodeEntry /\ n[i].blk \in Block /\ n[i].live \subseteq Tickets
  <2>1. \A i \in 1 .. Len(n) : n[i] \in NodeEntry
    BY <1>1, ElementOfSeq
  <2>2. \A e \in NodeEntry : e.blk \in Block /\ e.live \subseteq Tickets
    BY DEF NodeEntry
  <2> QED BY <2>1, <2>2
<1>3. Len(n) \in 1 .. Len(n) /\ Len(n) >= 1
  BY <1>1
<1>4. Tip(n) \in Block /\ n[Len(n)].live = LiveAt[Tip(n)]
  BY <1>2, <1>3 DEF Tip, TrueNode
<1>5. Len(n) = Height(Tip(n)) + 1 /\ Height(Tip(n)) \in Nat
  BY <1>4, HeightFacts DEF TrueNode
<1>6. NodeHeight(n) = Height(Tip(n))
  BY <1>5 DEF NodeHeight
<1>7. Len(n) > 1 <=> Tip(n) # Genesis
  BY <1>4, <1>5, HeightFacts
<1>8. NodeHeight(n) \in 0 .. MaxHeight
  BY <1>4, <1>6, MaxHeightFacts
<1> QED BY <1>1, <1>2, <1>3, <1>4, <1>6, <1>7, <1>8

\* A new database has a stake node as it should be.
LEMMA GenesisNodeIsTrue == TrueNode(GenesisNode)
<1> DEFINE g == [blk |-> Genesis, live |-> {}]
<1>1. g \in NodeEntry
  BY GenesisAssumption DEF NodeEntry
<1>2. GenesisNode = <<g>> /\ g.blk = Genesis /\ g.live = {}
  BY DEF GenesisNode
<1> HIDE DEF g
<1>3. GenesisNode \in Seq(NodeEntry) /\ Len(GenesisNode) = 1 /\ GenesisNode[1] = g /\ GenesisNode # <<>>
  BY <1>1, <1>2
<1>4. Tip(GenesisNode) = Genesis
  BY <1>2, <1>3 DEF Tip
<1>5. Height(Genesis) = 0 /\ BlockAt(Genesis, 0) = Genesis
  BY GenesisAssumption, HeightFacts, BlockAtTop
<1>6. \A i \in 1 .. Len(GenesisNode) : i = 1 /\ i - 1 = 0
  BY <1>3
<1> QED BY <1>2, <1>3, <1>4, <1>5, <1>6, LiveEquation DEF TrueNode

\* Disconnecting the tip leaves one.
LEMMA FrontIsTrue ==
    ASSUME NEW n, TrueNode(n), Len(n) > 1
    PROVE  /\ TrueNode(Front(n)) /\ Len(Front(n)) = Len(n) - 1
           /\ Tip(Front(n)) = Parent[Tip(n)]
           /\ \A i \in 1 .. Len(n) - 1 : Front(n)[i] = n[i]
<1> DEFINE f == Front(n)
           b == Tip(n)
           p == Parent[b]
<1>1. /\ n \in Seq(NodeEntry) /\ Len(n) \in Nat /\ b \in Block \ {Genesis}
      /\ Len(n) = Height(b) + 1
  BY TipFacts DEF TrueNode
<1>2. /\ f \in Seq(NodeEntry) /\ Len(f) = Len(n) - 1 /\ \A i \in 1 .. Len(n) - 1 : f[i] = n[i]
  BY <1>1 DEF Front
<1> HIDE DEF f
<1>3. f # <<>>
  BY <1>1, <1>2
<1>4. p \in Block /\ Height(b) = Height(p) + 1 /\ Height(p) \in Nat
  BY <1>1, HeightFacts
<1>5. \A h \in 0 .. Height(b) - 1 : BlockAt(b, h) = BlockAt(p, h)
  BY <1>1, BlockAtTop
<1>6. /\ \A i \in 1 .. Len(n) : n[i].blk = BlockAt(b, i - 1) /\ n[i].live = LiveAt[n[i].blk]
      /\ \A i \in 2 .. Len(n) : TrueIn(n[i].blk) \cap LiveAt[n[i - 1].blk] = {}
  BY DEF TrueNode
<1> HIDE DEF b
<1>7. \A i \in 1 .. Len(f) : i \in 1 .. Len(n) /\ i - 1 \in 0 .. Height(b) - 1 /\ f[i] = n[i]
  BY <1>1, <1>2, <1>4
<1>8. \A i \in 1 .. Len(f) : f[i].blk = BlockAt(p, i - 1) /\ f[i].live = LiveAt[f[i].blk]
  BY <1>5, <1>6, <1>7
<1>9. Tip(f) = p
  <2>1. Len(f) \in 1 .. Len(f) /\ Len(f) - 1 = Height(p)
    BY <1>1, <1>2, <1>4
  <2>2. f[Len(f)].blk = BlockAt(p, Height(p))
    BY <1>8, <2>1
  <2>3. BlockAt(p, Height(p)) = p
    BY <1>4, BlockAtTop
  <2> QED BY <2>2, <2>3 DEF Tip
<1>10. \A i \in 2 .. Len(f) : i \in 2 .. Len(n) /\ i \in 1 .. Len(f) /\ i - 1 \in 1 .. Len(f)
  <2>1. Len(f) \in Int /\ Len(n) \in Int /\ Len(f) <= Len(n)
    BY <1>1, <1>2
  <2> QED BY <2>1
<1>11. \A i \in 2 .. Len(f) : TrueIn(f[i].blk) \cap LiveAt[f[i - 1].blk] = {}
  BY <1>6, <1>7, <1>10
<1>12. Len(f) = Height(Tip(f)) + 1
  BY <1>1, <1>2, <1>4, <1>9
<1>13. TrueNode(f)
  BY <1>2, <1>3, <1>8, <1>9, <1>11, <1>12 DEF TrueNode
<1> QED BY <1>2, <1>9, <1>13 DEF f, b

\* Connecting a child of the tip, with its true live tickets, gives one.
LEMMA GrownIsTrue ==
    ASSUME NEW n, TrueNode(n), NEW b \in Block \ {Genesis}, Parent[b] = Tip(n),
           NEW live, live = LiveAt[b], TrueIn(b) \cap LiveAt[Tip(n)] = {}
    PROVE  LET g == Append(n, [blk |-> b, live |-> live])
           IN  /\ TrueNode(g) /\ Tip(g) = b /\ Len(g) = Len(n) + 1
               /\ \A i \in 1 .. Len(n) : g[i] = n[i]
<1> DEFINE e == [blk |-> b, live |-> live]
           g == Append(n, e)
           p == Tip(n)
<1>1. n \in Seq(NodeEntry) /\ Len(n) \in Nat /\ Len(n) = Height(p) + 1 /\ p \in Block /\ Len(n) >= 1
  BY TipFacts DEF TrueNode
<1>2. e \in NodeEntry /\ e.blk = b /\ e.live = LiveAt[b]
  BY LiveEquation DEF NodeEntry
<1> HIDE DEF e
<1>3. /\ g \in Seq(NodeEntry) /\ Len(g) = Len(n) + 1 /\ g[Len(n) + 1] = e /\ g # <<>>
      /\ \A i \in 1 .. Len(n) : g[i] = n[i]
  BY <1>1, <1>2, AppendProperties
<1> HIDE DEF g
<1>4. Tip(g) = b /\ Height(b) = Height(p) + 1 /\ Height(p) \in Nat
  BY <1>1, <1>2, <1>3, HeightFacts DEF Tip
<1>5. BlockAt(b, Height(b)) = b /\ \A h \in 0 .. Height(b) - 1 : BlockAt(b, h) = BlockAt(p, h)
  BY BlockAtTop
<1>6. /\ \A i \in 1 .. Len(n) : n[i].blk = BlockAt(p, i - 1) /\ n[i].live = LiveAt[n[i].blk]
      /\ \A i \in 2 .. Len(n) : TrueIn(n[i].blk) \cap LiveAt[n[i - 1].blk] = {}
  BY DEF TrueNode
<1>7. n[Len(n)].blk = p
  BY DEF Tip
<1> HIDE DEF p
<1>8. ASSUME NEW i \in 1 .. Len(g)
      PROVE  g[i].blk = BlockAt(b, i - 1) /\ g[i].live = LiveAt[g[i].blk]
  <2>1. CASE i \in 1 .. Len(n)
    <3>1. i - 1 \in 0 .. Height(b) - 1
      BY <1>1, <1>4, <2>1
    <3> QED BY <1>3, <1>5, <1>6, <2>1, <3>1
  <2>2. CASE i = Len(n) + 1
    BY <1>1, <1>2, <1>3, <1>4, <1>5, <2>2
  <2> QED BY <1>1, <1>3, <2>1, <2>2
<1>9. ASSUME NEW i \in 2 .. Len(g)
      PROVE  TrueIn(g[i].blk) \cap LiveAt[g[i - 1].blk] = {}
  <2>1. CASE i \in 2 .. Len(n)
    <3>1. i \in 1 .. Len(n) /\ i - 1 \in 1 .. Len(n)
      BY <1>1, <2>1
    <3> QED BY <1>3, <1>6, <2>1, <3>1
  <2>2. CASE i = Len(n) + 1
    <3>1. i - 1 = Len(n) /\ Len(n) \in 1 .. Len(n)
      BY <1>1, <2>2
    <3>2. g[i] = e /\ g[i - 1] = n[Len(n)]
      BY <1>3, <2>2, <3>1
    <3> QED BY <1>2, <1>7, <3>2 DEF p
  <2> QED BY <1>1, <1>3, <2>1, <2>2
<1>10. TrueNode(g)
  BY <1>1, <1>3, <1>4, <1>8, <1>9 DEF TrueNode
<1> QED BY <1>3, <1>4, <1>10 DEF g, e
-----------------------------------------------------------------------------
(* The ticket pool.                                                        *)

\* Undoing the diffs above a height gives tickets; undoing the last one is UndoDiff.
LEMMA UndoneFacts ==
    ASSUME diffs \in Seq(PoolDiff), NEW p \in SUBSET Tickets, NEW h \in Nat, NEW lost
    PROVE  /\ Undone(p, h, lost) \subseteq Tickets
           /\ h >= Len(diffs) => Undone(p, h, lost) = p
           /\ h + 1 = Len(diffs) =>
                 Undone(p, h, lost) = UndoDiff(p, diffs[h + 1]) \ (diffs[h + 1].Out \cap lost)
<1> DEFINE n == Len(diffs)
           Add(j) == diffs[j].Out
           Del(j) == diffs[j].In \cup (diffs[j].Out \cap lost)
           Left(t, i) == \/ \E k \in i + 1 .. n : t \in Add(k) /\ \A j \in i + 1 .. k : t \notin Del(j)
                         \/ t \in p /\ \A j \in i + 1 .. n : t \notin Del(j)
           F == [i \in Nat |-> {t \in Tickets : Left(t, i)}]
           Val(f, i) == IF i >= Len(diffs) THEN p
                        ELSE UndoDiff(f[i + 1], diffs[i + 1]) \ (diffs[i + 1].Out \cap lost)
           Eqn(f) == f = [i \in Nat |-> Val(f, i)]
<1>1. n \in Nat /\ \A j \in 1 .. n : diffs[j].In \subseteq Tickets /\ diffs[j].Out \subseteq Tickets
  <2>1. n \in Nat /\ \A j \in 1 .. n : diffs[j] \in PoolDiff
    OBVIOUS
  <2> QED BY <2>1 DEF PoolDiff
<1>2. ASSUME NEW f, NEW i \in Nat
      PROVE  Val(f, i) = IF i >= n THEN p ELSE (f[i + 1] \cup Add(i + 1)) \ Del(i + 1)
  BY DEF UndoDiff
<1>3. \A j \in 1 .. n : Add(j) \subseteq Tickets
  BY <1>1
<1> HIDE DEF n, Add, Del, Val
<1>4. ASSUME NEW i \in Nat, i < n, NEW t
      PROVE  Left(t, i) <=> (Left(t, i + 1) \/ t \in Add(i + 1)) /\ t \notin Del(i + 1)
  <2>1. i + 1 \in i + 1 .. n /\ i + 2 = (i + 1) + 1
    BY <1>1, <1>4
  <2>2. \A j \in i + 1 .. n : j = i + 1 \/ j \in (i + 1) + 1 .. n
    BY <1>1, <1>4
  <2>3. \A j \in (i + 1) + 1 .. n : j \in i + 1 .. n
    BY <1>1, <1>4
  <2>4. ASSUME NEW k \in (i + 1) + 1 .. n
        PROVE  /\ \A j \in i + 1 .. k : j = i + 1 \/ j \in (i + 1) + 1 .. k
               /\ \A j \in (i + 1) + 1 .. k : j \in i + 1 .. k
               /\ i + 1 \in i + 1 .. k
    BY <1>1, <1>4
  <2>5. \A k \in i + 1 .. n : i + 1 \in i + 1 .. k
    BY <1>1, <1>4
  <2>6. \A j \in i + 1 .. i + 1 : j = i + 1
    OBVIOUS
  <2>7. ASSUME Left(t, i)
        PROVE  (Left(t, i + 1) \/ t \in Add(i + 1)) /\ t \notin Del(i + 1)
    <3>1. CASE \E k \in i + 1 .. n : t \in Add(k) /\ \A j \in i + 1 .. k : t \notin Del(j)
      <4>1. PICK k \in i + 1 .. n : t \in Add(k) /\ \A j \in i + 1 .. k : t \notin Del(j)
        BY <3>1
      <4>2. t \notin Del(i + 1)
        BY <2>5, <4>1
      <4>3. CASE k = i + 1
        BY <4>1, <4>2, <4>3
      <4>4. CASE k \in (i + 1) + 1 .. n
        <5>1. \A j \in (i + 1) + 1 .. k : t \notin Del(j)
          BY <2>4, <4>1, <4>4
        <5> QED BY <4>1, <4>2, <4>4, <5>1
      <4> QED BY <2>2, <4>3, <4>4
    <3>2. CASE t \in p /\ \A j \in i + 1 .. n : t \notin Del(j)
      BY <2>1, <2>3, <3>2
    <3> QED BY <2>7, <3>1, <3>2
  <2>8. ASSUME t \in Add(i + 1), t \notin Del(i + 1)
        PROVE  Left(t, i)
    BY <2>1, <2>6, <2>8
  <2>9. ASSUME Left(t, i + 1), t \notin Del(i + 1)
        PROVE  Left(t, i)
    <3>1. CASE \E k \in (i + 1) + 1 .. n : t \in Add(k) /\ \A j \in (i + 1) + 1 .. k : t \notin Del(j)
      BY <2>3, <2>4, <2>9, <3>1
    <3>2. CASE t \in p /\ \A j \in (i + 1) + 1 .. n : t \notin Del(j)
      BY <2>2, <2>9, <3>2
    <3> QED BY <2>9, <3>1, <3>2
  <2> QED BY <2>7, <2>8, <2>9
<1>5. ASSUME NEW i \in Nat, i >= n, NEW t
      PROVE  Left(t, i) <=> t \in p
  <2>1. \A j \in i + 1 .. n : FALSE
    BY <1>1, <1>5
  <2> QED BY <2>1
<1> HIDE DEF Left
<1>6. F \in [Nat -> SUBSET Tickets] /\ \A i \in Nat : F[i] = {t \in Tickets : Left(t, i)}
  OBVIOUS
<1> HIDE DEF F
<1>7. \A i \in Nat : F[i] = Val(F, i)
  <2> SUFFICES ASSUME NEW i \in Nat
               PROVE  F[i] = Val(F, i)
    OBVIOUS
  <2>1. CASE i >= n
    BY <1>2, <1>5, <1>6, <2>1
  <2>2. CASE i < n
    <3>1. i + 1 \in 1 .. n /\ i + 1 \in Nat
      BY <1>1, <2>2
    <3>2. F[i] = {t \in Tickets : Left(t, i)} /\ F[i + 1] = {t \in Tickets : Left(t, i + 1)}
      BY <1>6, <3>1
    <3>3. Val(F, i) = (F[i + 1] \cup Add(i + 1)) \ Del(i + 1)
      BY <1>1, <1>2, <2>2
    <3>4. Add(i + 1) \subseteq Tickets
      BY <1>3, <3>1
    <3>5. \A t : Left(t, i) <=> (Left(t, i + 1) \/ t \in Add(i + 1)) /\ t \notin Del(i + 1)
      BY <1>4, <2>2
    <3> QED BY <3>2, <3>3, <3>4, <3>5
  <2> QED BY <1>1, <2>1, <2>2
<1>8. Eqn(F)
  <2>1. F = [i \in Nat |-> F[i]]
    BY <1>6
  <2>2. [i \in Nat |-> F[i]] = [i \in Nat |-> Val(F, i)]
    BY <1>7
  <2> QED BY <2>1, <2>2
<1> DEFINE undo == CHOOSE f : Eqn(f)
<1>9. Undone(p, h, lost) = undo[h]
  BY DEF Undone, Val
<1>10. Eqn(undo)
  <2> HIDE DEF Eqn
  <2> QED BY <1>8
<1> HIDE DEF undo
<1>11. /\ \A i \in Nat : i >= n => undo[i] = p
       /\ \A i \in Nat : i < n => undo[i] = (undo[i + 1] \cup Add(i + 1)) \ Del(i + 1)
  <2>1. \A i \in Nat : undo[i] = Val(undo, i)
    BY <1>10
  <2>2. \A i \in Nat : i < n => ~(i >= n)
    BY <1>1
  <2> QED BY <1>2, <2>1, <2>2
<1>12. undo[h] \subseteq Tickets
  <2> DEFINE S == {i \in Nat : ~(undo[i] \subseteq Tickets)}
  <2> SUFFICES ASSUME S # {}
               PROVE  FALSE
    OBVIOUS
  <2>1. \A i \in S : i < n /\ i <= n
    <3>1. \A i \in S : ~(i >= n)
      BY <1>11
    <3> QED BY <1>1, <3>1
  <2>2. PICK m \in S : \A k \in S : k <= m
    BY <1>1, <2>1, NatBounds
  <2>3. m \in Nat /\ m < n
    BY <2>1, <2>2
  <2>4. undo[m + 1] \subseteq Tickets
    BY <2>2, <2>3
  <2>5. Add(m + 1) \subseteq Tickets
    BY <1>1, <1>3, <2>3
  <2>6. undo[m] = (undo[m + 1] \cup Add(m + 1)) \ Del(m + 1)
    BY <1>1, <1>11, <2>3
  <2> QED BY <2>2, <2>4, <2>5, <2>6
<1>13. h >= n => undo[h] = p
  BY <1>11
<1>14. ASSUME h + 1 = n
       PROVE  undo[h] = UndoDiff(p, diffs[h + 1]) \ (diffs[h + 1].Out \cap lost)
  <2>0. h + 1 \in Nat /\ h + 1 >= n /\ h < n
    BY <1>1, <1>14
  <2>1. undo[h + 1] = p
    BY <1>11, <2>0
  <2>2. undo[h] = (p \cup Add(h + 1)) \ Del(h + 1)
    BY <1>11, <2>0, <2>1
  <2> QED BY <2>2 DEF UndoDiff, Add, Del
<1> QED BY <1>9, <1>12, <1>13, <1>14 DEF n

\* A database without gaps is read into one diff per key.
LEMMA AllDiffsFacts ==
    ASSUME diffDB \in [1 .. MaxHeight -> PoolDiff \cup {NoDiff}], Contiguous
    PROVE  /\ AllDiffs \in Seq(PoolDiff)
           /\ Len(AllDiffs) \in 0 .. MaxHeight
           /\ StoredHeights = 1 .. Len(AllDiffs)
           /\ \A h \in 1 .. Len(AllDiffs) : AllDiffs[h] = diffDB[h]
<1> DEFINE S == StoredHeights
           c == Cardinality(S)
<1>1. MaxHeight \in Nat /\ S \subseteq 1 .. MaxHeight
  BY MaxHeightFacts DEF StoredHeights
<1>2. c \in 0 .. MaxHeight /\ S = 1 .. c
  <2>1. CASE S = {}
    <3>1. c = 0 /\ 1 .. 0 = {}
      BY <2>1, FS_EmptySet
    <3> QED BY <1>1, <2>1, <3>1
  <2>2. CASE S # {}
    <3>1. S \in SUBSET Nat /\ \A k \in S : k <= MaxHeight
      BY <1>1
    <3>2. PICK m \in S : \A k \in S : k <= m
      BY <1>1, <2>2, <3>1, NatBounds
    <3>3. S = 1 .. m
      <4>1. \A k \in 1 .. m : k \in S
        BY <3>2 DEF Contiguous
      <4>2. \A k \in S : k \in 1 .. m
        BY <1>1, <3>2
      <4> QED BY <4>1, <4>2
    <3>4. m \in Nat /\ m >= 1 /\ m <= MaxHeight
      BY <1>1, <3>2
    <3>5. Cardinality(1 .. m) = m
      BY <3>4, FS_Interval
    <3> QED BY <1>1, <3>3, <3>4, <3>5
  <2> QED BY <2>1, <2>2
<1> HIDE DEF c
<1>3. AllDiffs = [h \in 1 .. c |-> diffDB[h]]
  BY DEF AllDiffs, c
<1>4. \A h \in 1 .. c : diffDB[h] \in PoolDiff
  BY <1>1, <1>2 DEF StoredHeights
<1>5. AllDiffs \in Seq(PoolDiff) /\ Len(AllDiffs) = c
  BY <1>2, <1>3, <1>4
<1> QED BY <1>2, <1>3, <1>5
-----------------------------------------------------------------------------
(* The parts of the invariant that several actions share.                  *)

\* No handler call.
LEMMA NoJobFacts == NoJob \in Job /\ NoJob.undo = 0
<1>1. 0 \in 0 .. MaxHeight
  BY MaxHeightFacts
<1>2. <<>> \in Seq(Block)
  OBVIOUS
<1> QED BY <1>1, <1>2 DEF NoJob, Job

\* No block half connected.
LEMMA NotConnectedFacts == NotConnected \in [blk : Block \cup {NoBlock}, diff : PoolDiff]
  BY DEF NotConnected, EmptyDiff, PoolDiff

\* The block that a handler is to connect next.
LEMMA HeadFacts ==
    ASSUME StakeInv, job # NoJob
    PROVE  /\ job.blocks \in Seq(Block) /\ job.blocks # <<>>
           /\ Head(job.blocks) \in Block /\ Height(Head(job.blocks)) <= Height(best)
           /\ job.undo <= NodeHeight(bestNode)
           /\ \A i \in 1 .. Len(job.blocks) : Height(job.blocks[i]) <= Height(best)
<1>1. job \in Job /\ GoodJob(job, best, NodeHeight(bestNode)) /\ job # NoJob
  BY NoJobFacts DEF StakeInv, JobInv
<1>2. job.blocks \in Seq(Block)
  BY <1>1 DEF Job
<1>3. /\ job.blocks # <<>> /\ job.undo <= NodeHeight(bestNode)
      /\ \A i \in 1 .. Len(job.blocks) : Height(job.blocks[i]) <= Height(best)
  BY <1>1 DEF GoodJob
<1>4. Head(job.blocks) \in Block /\ Head(job.blocks) = job.blocks[1] /\ 1 \in 1 .. Len(job.blocks)
  BY <1>2, <1>3, HeadTailProperties, EmptySeq
<1> QED BY <1>2, <1>3, <1>4

\* The handler fails.
LEMMA FailInv ==
    ASSUME Fail
    PROVE  JobInv' /\ job' = NoJob /\ ~Pending'
<1>1. job' = NoJob /\ connected' = NotConnected
  BY DEF Fail
<1>2. ~Pending'
  BY <1>1 DEF Pending
<1>3. JobInv'
  BY <1>1, <1>2, NoJobFacts, NotConnectedFacts DEF JobInv, GoodJob
<1> QED BY <1>1, <1>2, <1>3

\* The handler is done with its next block.
LEMMA ProgressInv ==
    ASSUME StakeInv, job # NoJob, job.undo = 0, Progress, best' = best, NodesInv'
    PROVE  JobInv' /\ ~Pending'
<1>1. connected' = NotConnected /\ ~Pending'
  BY DEF Progress, Pending
<1>2. CASE Len(job.blocks) = 1
  <2>1. job' = NoJob
    BY <1>2 DEF Progress
  <2> QED BY <1>1, <2>1, NoJobFacts, NotConnectedFacts DEF JobInv, GoodJob
<1>3. CASE Len(job.blocks) # 1
  <2> DEFINE bs == job.blocks
             rest == Tail(bs)
  <2>1. job' = [job EXCEPT !.blocks = rest]
    BY <1>3 DEF Progress
  <2>2. /\ bs \in Seq(Block) /\ bs # <<>> /\ Len(bs) # 1 /\ job \in Job
        /\ \A i \in 1 .. Len(bs) : Height(bs[i]) <= Height(best)
    BY <1>3, HeadFacts DEF StakeInv, JobInv
  <2> HIDE DEF bs
  <2>3. /\ rest \in Seq(Block) /\ Len(rest) = Len(bs) - 1 /\ Len(bs) \in Nat \ {0}
        /\ \A i \in 1 .. Len(rest) : rest[i] = bs[i + 1]
    BY <2>2, HeadTailProperties, EmptySeq
  <2> HIDE DEF rest
  <2>4. rest # <<>> /\ \A i \in 1 .. Len(rest) : i + 1 \in 1 .. Len(bs)
    BY <2>2, <2>3
  <2>5. \A i \in 1 .. Len(rest) : Height(rest[i]) <= Height(best)
    BY <2>2, <2>3, <2>4
  <2>6. job' \in Job /\ job'.undo = 0 /\ job'.blocks = rest
    BY <2>1, <2>2, <2>3 DEF Job
  <2>7. 0 <= NodeHeight(bestNode')
    BY TipFacts DEF NodesInv
  <2>8. GoodJob(job', best', NodeHeight(bestNode'))
    BY <2>4, <2>5, <2>6, <2>7 DEF GoodJob
  <2> QED BY <1>1, <2>6, <2>8, NotConnectedFacts DEF JobInv
<1> QED BY <1>1, <1>2, <1>3

\* dcrd and its notifications are left alone.
LEMMA ChainStays ==
    ASSUME StakeInv, UNCHANGED node
    PROVE  ChainInv'
  BY DEF StakeInv, ChainInv, node

\* The process stays up.
LEMMA UpStays ==
    ASSUME StakeInv, status = "up", UNCHANGED <<status, recoverTo, crashes>>
    PROVE  StatusInv'
  BY DEF StakeInv, StatusInv

\* Caching a block, whatever becomes of it.
LEMMA CacheBlockInv ==
    ASSUME StakeInv, NEW b \in Block, CacheBlock(b)
    PROVE  CacheInv'
<1>1. Height(b) \in 0 .. MaxHeight
  BY MaxHeightFacts
<1>2. \A h \in 0 .. MaxHeight : blockCache'[h] \in {b, NoBlock, blockCache[h]} /\ (blockCache'[h] = b => h = Height(b) \/ blockCache[h] = b)
  BY BoundsAssumption DEF CacheBlock
<1>3. blockCache' \in [0 .. MaxHeight -> Block \cup {NoBlock}]
  BY DEF CacheBlock, StakeInv, CacheInv
<1>4. \A h \in 0 .. MaxHeight : blockCache'[h] # NoBlock => Height(blockCache'[h]) = h
  BY <1>2 DEF StakeInv, CacheInv
<1> QED BY <1>3, <1>4 DEF CacheInv

(***************************************************************************)
(* The block looked up by height, in the cache or at dcrd, is the block of *)
(* that height below b: forks are shallower than the maturity.             *)
(***************************************************************************)
LEMMA MaturingFacts ==
    ASSUME StakeInv, NEW b \in Block, Height(b) <= Height(best)
    PROVE  MaturingTickets(b) = TrueIn(b)
<1> DEFINE m == Height(b) - TicketMaturity
<1>1. Height(b) \in Nat /\ TicketMaturity \in Nat /\ best \in Block /\ Height(best) \in Nat
  BY HeightFacts, BoundsAssumption DEF StakeInv, ChainInv
<1>2. CASE Height(b) >= TicketMaturity
  <2>1. m \in 0 .. Height(b) /\ m \in 0 .. Height(best) /\ m \in 0 .. MaxHeight
    BY <1>1, <1>2, MaxHeightFacts
  <2>2. \A c \in Block : m \in 0 .. Height(c) => BlockAt(c, m) = BlockAt(b, m)
    BY ShallowForksAssumption
  <2> HIDE DEF m
  <2>3. CASE blockCache[m] # NoBlock
    <3>1. blockCache[m] \in Block /\ Height(blockCache[m]) = m
      BY <2>1, <2>3 DEF StakeInv, CacheInv
    <3>2. BlockAt(blockCache[m], m) = blockCache[m] /\ m \in 0 .. m
      BY <2>1, <3>1, BlockAtTop
    <3>3. blockCache[m] = BlockAt(b, m)
      BY <2>2, <3>1, <3>2
    <3> QED BY <1>2, <2>3, <3>3 DEF MaturingTickets, Matures, MaturingBlock, MaturingHeight, TrueIn, m
  <2>4. CASE blockCache[m] = NoBlock
    <3>1. BlockAt(best, m) = BlockAt(b, m)
      BY <1>1, <2>1, <2>2
    <3> QED BY <1>2, <2>4, <3>1 DEF MaturingTickets, Matures, MaturingBlock, MaturingHeight, TrueIn, m
  <2> QED BY <2>3, <2>4
<1>3. CASE ~(Height(b) >= TicketMaturity)
  BY <1>3 DEF MaturingTickets, Matures, TrueIn
<1> QED BY <1>2, <1>3

\* What connectBlock makes of a child of the tip.
LEMMA GrownFacts ==
    ASSUME StakeInv, NEW b \in Block, Height(b) <= Height(best),
           Height(b) > NodeHeight(bestNode), ConnectNodeOK(b)
    PROVE  /\ b # Genesis /\ TrueNode(GrownNode(b)) /\ Tip(GrownNode(b)) = b
           /\ Len(GrownNode(b)) = Len(bestNode) + 1
           /\ \A i \in 1 .. Len(bestNode) : GrownNode(b)[i] = bestNode[i]
           /\ NewDiff(b) = TrueDiff(b) /\ TrueDiff(b) \in PoolDiff
<1>1. TrueNode(bestNode) /\ Parent[b] = Tip(bestNode) /\ Tip(bestNode) \in Block
  BY TipFacts DEF StakeInv, NodesInv, ConnectNodeOK
<1>2. b # Genesis
  BY <1>1, TipFacts, HeightFacts
<1>3. MaturingTickets(b) = TrueIn(b)
  BY MaturingFacts
<1>4. NewDiff(b) = TrueDiff(b)
  BY <1>1, <1>3 DEF NewDiff, TrueDiff
<1>5. bestNode[Len(bestNode)].live = LiveAt[Parent[b]]
  BY <1>1, TipFacts
<1> DEFINE live == ApplyDiff(bestNode[Len(bestNode)].live, NewDiff(b))
<1>6. live = LiveAt[b]
  BY <1>2, <1>4, <1>5, LiveEquation
<1>7. TrueIn(b) \cap LiveAt[Tip(bestNode)] = {}
  BY <1>1, <1>3, <1>5 DEF ConnectNodeOK
<1>8. GrownNode(b) = Append(bestNode, [blk |-> b, live |-> live])
  BY DEF GrownNode
<1> HIDE DEF live
<1>9. TrueDiff(b) \in PoolDiff
  BY <1>1, TrueInTickets, LiveEquation DEF TrueDiff, PoolDiff
<1> QED BY <1>1, <1>2, <1>4, <1>6, <1>7, <1>8, <1>9, GrownIsTrue

\* What disconnectBlock leaves.
LEMMA DisconnectFacts ==
    ASSUME StakeInv, Len(bestNode) > 1, NEW written \in BOOLEAN, Disconnect(written)
    PROVE  /\ NodesInv' /\ Len(bestNode') = Len(bestNode) - 1 /\ NodeHeight(bestNode') = NodeHeight(bestNode) - 1
           /\ \A i \in 1 .. Len(bestNode') : bestNode'[i] = bestNode[i]
           /\ diffs' \in Seq(PoolDiff) /\ Len(diffs) \in Nat /\ Len(diffs') <= Len(diffs)
           /\ \A i \in 1 .. Len(diffs') : diffs'[i] = diffs[i]
           /\ Len(diffs) > NodeHeight(bestNode') => Len(diffs') = NodeHeight(bestNode')
<1> DEFINE h == NodeHeight(bestNode) - 1
<1>1. TrueNode(bestNode) /\ TrueNode(stakeDisk) /\ diffs \in Seq(PoolDiff)
  BY DEF StakeInv, NodesInv, PoolInv
<1>2. bestNode' = Front(bestNode) /\ stakeDisk' \in {Front(bestNode), stakeDisk} /\ diffs' = TrimTo(h)
  BY DEF Disconnect
<1>3. /\ TrueNode(Front(bestNode)) /\ Len(Front(bestNode)) = Len(bestNode) - 1
      /\ \A i \in 1 .. Len(bestNode) - 1 : Front(bestNode)[i] = bestNode[i]
  BY <1>1, FrontIsTrue
<1>4. Len(bestNode) \in Nat /\ h \in Nat /\ NodeHeight(bestNode') = h
  BY <1>1, <1>2, <1>3, TipFacts DEF NodeHeight
<1>5. NodesInv'
  BY <1>1, <1>2, <1>3 DEF NodesInv
<1> HIDE DEF h
<1>6. /\ diffs' \in Seq(PoolDiff) /\ Len(diffs) \in Nat /\ Len(diffs') <= Len(diffs)
      /\ \A i \in 1 .. Len(diffs') : diffs'[i] = diffs[i]
      /\ Len(diffs) > h => Len(diffs') = h
  <2>1. CASE h < Len(diffs)
    <3>1. diffs' = SubSeq(diffs, 1, h)
      BY <1>2, <2>1 DEF TrimTo
    <3>2. Len(diffs) \in Nat
      BY <1>1
    <3> QED BY <1>1, <1>4, <2>1, <3>1, <3>2
  <2>2. CASE ~(h < Len(diffs))
    <3>1. diffs' = diffs
      BY <1>2, <2>2 DEF TrimTo
    <3> QED BY <1>1, <1>4, <2>2, <3>1
  <2> QED BY <2>1, <2>2
<1> QED BY <1>2, <1>3, <1>4, <1>5, <1>6 DEF h
-----------------------------------------------------------------------------
(* StakeInv: whatever fails.                                               *)

\* A new database.
LEMMA InitStakeInv == Init => StakeInv
<1> SUFFICES ASSUME Init
             PROVE  StakeInv
  OBVIOUS
<1> USE DEF Init
<1>1. NodesInv
  BY GenesisNodeIsTrue DEF NodesInv
<1>2. ChainInv
  BY GenesisAssumption, HeightFacts DEF ChainInv
<1>3. JobInv
  BY NoJobFacts, NotConnectedFacts DEF JobInv, GoodJob, Pending
<1>4. CacheInv
  BY DEF CacheInv, NoBlocksCached
<1>5. PoolInv
  BY DEF PoolInv
<1>6. StatusInv
  BY MaxHeightFacts, BoundsAssumption DEF StatusInv
<1> QED BY <1>1, <1>2, <1>3, <1>4, <1>5, <1>6 DEF StakeInv

\* The process goes down: nothing else changes.
LEMMA DownInv ==
    ASSUME StakeInv, status' = "down", UNCHANGED <<memory, disk, node, recoverTo>>,
           crashes' \in 0 .. MaxCrashes
    PROVE  StakeInv'
<1>1. UNCHANGED <<bestNode, stakeDisk, diffs, diffDB, liveTicketCache, blockCache, job, connected>>
  BY DEF memory, cache, disk
<1>2. NodesInv' /\ CacheInv' /\ PoolInv'
  BY <1>1 DEF StakeInv, NodesInv, CacheInv, PoolInv
<1>3. ChainInv'
  BY ChainStays DEF StakeInv, ChainInv
<1>4. JobInv'
  BY <1>1 DEF StakeInv, JobInv, Pending, node
<1>5. StatusInv'
  BY DEF StakeInv, StatusInv
<1> QED BY <1>2, <1>3, <1>4, <1>5 DEF StakeInv

\* Panics, failed starts and crashes.
LEMMA GoesDownInv ==
    ASSUME StakeInv,
           \/ ConnectPanics \/ DisconnectPanics \/ StartupFails \/ Crash
           \/ PurgeFails \/ importPanics \/ SyncFails
    PROVE  StakeInv'
<1>1. status' = "down" /\ UNCHANGED <<memory, disk, node, recoverTo>>
  BY DEF ConnectPanics, DisconnectPanics, StartupFails, Crash, PurgeFails, importPanics, SyncFails
<1>2. crashes' \in 0 .. MaxCrashes
  <2>1. crashes \in 0 .. MaxCrashes /\ MaxCrashes \in Nat
    BY BoundsAssumption DEF StakeInv, StatusInv
  <2>2. crashes' = crashes \/ (crashes < MaxCrashes /\ crashes' = crashes + 1)
    BY DEF ConnectPanics, DisconnectPanics, StartupFails, Crash, PurgeFails, importPanics, SyncFails
  <2> QED BY <2>1, <2>2
<1> QED BY <1>1, <1>2, DownInv

\* dcrd does not answer a handler.
LEMMA RPCFailsInv ==
    ASSUME StakeInv, ConnectRPCFails \/ DisconnectRPCFails
    PROVE  StakeInv'
<1>1. /\ Fail /\ status = "up"
      /\ UNCHANGED <<bestNode, diffs, liveTicketCache, blockCache, disk, status, node, crashes,
                     recoverTo, faults>>
  BY DEF ConnectRPCFails, DisconnectRPCFails, ConnectReady, DisconnectReady, Serving, cache
<1>2. job # NoJob
  BY NoJobFacts DEF ConnectRPCFails, DisconnectRPCFails, ConnectReady, DisconnectReady, StakeInv,
     JobInv, GoodJob
<1>3. JobInv' /\ ChainInv'
  BY <1>1, <1>2, FailInv, ChainStays
<1>4. NodesInv' /\ CacheInv' /\ PoolInv'
  BY <1>1 DEF StakeInv, NodesInv, CacheInv, PoolInv, disk
<1>5. StatusInv'
  BY <1>1, UpStays
<1> QED BY <1>3, <1>4, <1>5 DEF StakeInv

\* A block that is refused, or that is the tip already, only gets into the cache.
LEMMA ConnectNothingInv ==
    ASSUME StakeInv, ConnectOld \/ ConnectNodeFails
    PROVE  StakeInv'
<1> DEFINE b == Head(job.blocks)
<1>1. /\ Fail \/ Progress
      /\ status = "up" /\ job # NoJob /\ job.undo = 0 /\ CacheBlock(b)
      /\ UNCHANGED <<bestNode, diffs, liveTicketCache, disk, status, node, crashes, recoverTo, faults>>
  BY DEF ConnectOld, ConnectNodeFails, ConnectReady, Serving, cache
<1>2. b \in Block
  BY <1>1, HeadFacts
<1>3. NodesInv' /\ PoolInv'
  BY <1>1 DEF StakeInv, NodesInv, PoolInv, disk
<1>4. CacheInv'
  BY <1>1, <1>2, CacheBlockInv
<1>5. JobInv'
  BY <1>1, <1>3, FailInv, ProgressInv DEF node
<1>6. ChainInv' /\ StatusInv'
  BY <1>1, <1>5, ChainStays, UpStays
<1> QED BY <1>3, <1>4, <1>5, <1>6 DEF StakeInv

\* The first half of ConnectBlock.
LEMMA ConnectBlockInv == StakeInv /\ connectBlock => StakeInv'
<1> SUFFICES ASSUME StakeInv, connectBlock
             PROVE  StakeInv'
  OBVIOUS
<1> DEFINE b == Head(job.blocks)
<1>1. /\ status = "up" /\ job # NoJob /\ job.undo = 0
      /\ Height(b) > NodeHeight(bestNode) /\ ConnectNodeOK(b) /\ CacheBlock(b)
      /\ bestNode' = GrownNode(b) /\ stakeDisk' \in {GrownNode(b), stakeDisk}
      /\ UNCHANGED <<diffs, diffDB, liveTicketCache, status, node, crashes, recoverTo, faults>>
      /\ \/ connected' = [blk |-> b, diff |-> NewDiff(b)] /\ UNCHANGED job
         \/ Fail
  BY DEF connectBlock, ConnectReady, Serving, cache
<1>2. b \in Block /\ Height(b) <= Height(best)
  BY <1>1, HeadFacts
<1> HIDE DEF b
<1>3. /\ b # Genesis /\ TrueNode(GrownNode(b)) /\ Tip(GrownNode(b)) = b
      /\ NewDiff(b) = TrueDiff(b) /\ TrueDiff(b) \in PoolDiff
  BY <1>1, <1>2, GrownFacts
<1>4. NodesInv'
  BY <1>1, <1>3 DEF StakeInv, NodesInv
<1>5. CacheInv' /\ PoolInv'
  BY <1>1, <1>2, CacheBlockInv DEF StakeInv, PoolInv
<1>6. JobInv'
  <2>1. CASE Fail
    BY <1>1, <2>1, FailInv
  <2>2. CASE connected' = [blk |-> b, diff |-> NewDiff(b)] /\ UNCHANGED job
    <3>1. connected' \in [blk : Block \cup {NoBlock}, diff : PoolDiff] /\ connected'.diff = TrueDiff(b)
      BY <1>2, <1>3, <2>2
    <3>2. job' \in Job /\ job' # NoJob /\ job'.undo = 0
      BY <1>1, <2>2 DEF StakeInv, JobInv
    <3>3. 0 <= NodeHeight(bestNode')
      BY <1>4, TipFacts DEF NodesInv
    <3>4. GoodJob(job', best', NodeHeight(bestNode'))
      BY <1>1, <2>2, <3>2, <3>3, HeadFacts DEF GoodJob, node
    <3>5. Tip(bestNode') = b
      BY <1>1, <1>3
    <3> QED BY <1>3, <2>2, <3>1, <3>2, <3>4, <3>5 DEF JobInv, StakeInv, ChainInv
  <2> QED BY <1>1, <2>1, <2>2
<1>7. ChainInv' /\ StatusInv'
  BY <1>1, <1>6, ChainStays, UpStays
<1> QED BY <1>4, <1>5, <1>6, <1>7 DEF StakeInv

\* The second half of ConnectBlock.
LEMMA PoolAppendInv == StakeInv /\ PoolAppend => StakeInv'
<1> SUFFICES ASSUME StakeInv, PoolAppend
             PROVE  StakeInv'
  OBVIOUS
<1> DEFINE h == NodeHeight(bestNode)
<1>1. /\ status = "up" /\ Pending
      /\ liveTicketCache' = ApplyDiff(liveTicketCache, connected.diff)
      /\ Fail \/ Progress
      /\ diffs' \in {diffs, Append(diffs, connected.diff)}
      /\ diffDB' \in {diffDB, [diffDB EXCEPT ![h] = connected.diff]}
      /\ UNCHANGED <<bestNode, blockCache, stakeDisk, status, node, crashes, recoverTo, faults>>
  BY DEF PoolAppend, Pending
<1>2. job # NoJob /\ job.undo = 0 /\ connected.diff \in PoolDiff
  BY <1>1 DEF StakeInv, JobInv
<1>3. NodesInv' /\ CacheInv'
  BY <1>1 DEF StakeInv, NodesInv, CacheInv
<1>4. JobInv'
  BY <1>1, <1>2, <1>3, FailInv, ProgressInv DEF node
<1>5. PoolInv'
  <2>1. diffs' \in Seq(PoolDiff)
    BY <1>1, <1>2, AppendProperties DEF StakeInv, PoolInv
  <2>2. diffDB' \in [1 .. MaxHeight -> PoolDiff \cup {NoDiff}]
    BY <1>1, <1>2 DEF StakeInv, PoolInv
  <2>3. liveTicketCache' \subseteq Tickets
    BY <1>1, <1>2 DEF StakeInv, PoolInv, PoolDiff, ApplyDiff
  <2> QED BY <2>1, <2>2, <2>3 DEF PoolInv
<1>6. ChainInv' /\ StatusInv'
  BY <1>1, <1>4, ChainStays, UpStays
<1> QED BY <1>3, <1>4, <1>5, <1>6 DEF StakeInv

\* A block is disconnected.
LEMMA DisconnectBlockInv == StakeInv /\ disconnectBlock => StakeInv'
<1> SUFFICES ASSUME StakeInv, disconnectBlock
             PROVE  StakeInv'
  OBVIOUS
<1>1. /\ status = "up" /\ job.undo > 0 /\ connected = NotConnected
      /\ \E lost : liveTicketCache' = Undone(liveTicketCache, NodeHeight(bestNode) - 1, lost)
      /\ UNCHANGED <<blockCache, diffDB, status, node, crashes, recoverTo, faults>>
      /\ \E written \in BOOLEAN : Disconnect(written)
      /\ \/ job' = [job EXCEPT !.undo = @ - 1] /\ UNCHANGED connected
         \/ Fail
  BY DEF disconnectBlock, UndoCache, DisconnectReady, Serving
<1>2. job \in Job /\ job # NoJob /\ job.undo \in Nat
  BY <1>1, NoJobFacts DEF StakeInv, JobInv, GoodJob, Job
<1>3. job.undo <= NodeHeight(bestNode) /\ NodeHeight(bestNode) \in Nat /\ Len(bestNode) \in Nat
  BY <1>2, HeadFacts, TipFacts DEF StakeInv, NodesInv
<1>4. Len(bestNode) > 1 /\ NodeHeight(bestNode) - 1 \in Nat
  BY <1>1, <1>2, <1>3 DEF NodeHeight
<1>5. NodesInv' /\ diffs' \in Seq(PoolDiff) /\ NodeHeight(bestNode') = NodeHeight(bestNode) - 1
  BY <1>1, <1>4, DisconnectFacts
<1>6. PoolInv'
  <2>1. liveTicketCache' \subseteq Tickets
    BY <1>1, <1>4, UndoneFacts DEF StakeInv, PoolInv
  <2> QED BY <1>1, <1>5, <2>1 DEF StakeInv, PoolInv
<1>7. JobInv'
  <2>1. CASE Fail
    BY <1>2, <2>1, FailInv
  <2>2. CASE job' = [job EXCEPT !.undo = @ - 1] /\ UNCHANGED connected
    <3>1. job.undo - 1 \in 0 .. MaxHeight /\ job.undo - 1 <= NodeHeight(bestNode')
      <4>1. NodeHeight(bestNode) \in 0 .. MaxHeight /\ MaxHeight \in Nat
        BY TipFacts, MaxHeightFacts DEF StakeInv, NodesInv
      <4> QED BY <1>1, <1>2, <1>3, <1>5, <4>1
    <3>2. /\ job' \in Job /\ job'.blocks = job.blocks
          /\ job'.undo = job.undo - 1
      BY <1>2, <2>2, <3>1 DEF Job
    <3>3. GoodJob(job', best', NodeHeight(bestNode'))
      BY <1>1, <1>2, <3>1, <3>2, HeadFacts DEF GoodJob, node
    <3>4. connected' = NotConnected /\ ~Pending'
      BY <1>1, <2>2 DEF Pending
    <3> QED BY <2>2, <3>2, <3>3, <3>4, NotConnectedFacts DEF JobInv, StakeInv, ChainInv
  <2> QED BY <1>1, <2>1, <2>2
<1>8. CacheInv'
  BY <1>1 DEF StakeInv, CacheInv
<1>9. ChainInv' /\ StatusInv'
  BY <1>1, <1>7, ChainStays, UpStays
<1> QED BY <1>5, <1>6, <1>7, <1>8, <1>9 DEF StakeInv

\* A handler is called while none is running.
LEMMA HandlerInv ==
    ASSUME StakeInv, status = "up", connected = NotConnected,
           job' \in Job, GoodJob(job', best, NodeHeight(bestNode)),
           UNCHANGED <<bestNode, diffs, liveTicketCache, blockCache, connected, disk, status,
                       best, crashes, recoverTo>>, ChainInv'
    PROVE  StakeInv'
<1>1. NodesInv' /\ CacheInv' /\ PoolInv'
  BY DEF StakeInv, NodesInv, CacheInv, PoolInv, disk
<1>2. ~Pending'
  BY DEF Pending
<1>3. JobInv'
  BY <1>2, NotConnectedFacts DEF JobInv
<1>4. StatusInv'
  BY UpStays
<1> QED BY <1>1, <1>3, <1>4 DEF StakeInv

\* A block at the next height is delivered.
LEMMA BlockHandlerInv ==
    ASSUME StakeInv, NEW b \in Block, BlockHandler(b)
    PROVE  StakeInv'
<1>1. /\ status = "up" /\ connected = NotConnected /\ b \in announced
      /\ job' = [undo |-> 0, blocks |-> <<b>>]
      /\ UNCHANGED <<bestNode, diffs, liveTicketCache, blockCache, connected, disk, status,
                     node, crashes, recoverTo>>
  BY DEF BlockHandler, SuperQueueFree, Serving, cache
<1>2. Height(b) <= Height(best)
  BY <1>1 DEF StakeInv, ChainInv
<1>3. 0 \in 0 .. MaxHeight /\ 0 <= NodeHeight(bestNode)
  BY MaxHeightFacts, TipFacts DEF StakeInv, NodesInv
<1> DEFINE bs == <<b>>
<1>4. bs \in Seq(Block) /\ bs # <<>> /\ \A i \in 1 .. Len(bs) : Height(bs[i]) <= Height(best)
  BY <1>2
<1> HIDE DEF bs
<1>5. /\ job' = [undo |-> 0, blocks |-> bs]
  BY <1>1 DEF bs
<1>6. job' \in Job
  BY <1>3, <1>4, <1>5 DEF Job
<1>7. GoodJob(job', best, NodeHeight(bestNode))
  BY <1>3, <1>4, <1>5 DEF GoodJob
<1>8. ChainInv'
  BY <1>1, ChainStays DEF StakeInv, ChainInv
<1> QED BY <1>1, <1>6, <1>7, <1>8, HandlerInv DEF node

\* Taking a reorganisation from the queue.
LEMMA QueueTail ==
    ASSUME StakeInv, reorgQ # <<>>, reorgQ' = Tail(reorgQ), UNCHANGED <<best, announced>>
    PROVE  /\ ChainInv' /\ Head(reorgQ) \in [old : Block, new : Block] /\ Forks(Head(reorgQ), best)
<1> DEFINE Pair == [old : Block, new : Block]
<1>0. reorgQ \in Seq(Pair)
  BY DEF StakeInv, ChainInv
<1> HIDE DEF Pair
<1>1. /\ Head(reorgQ) \in Pair /\ Head(reorgQ) = reorgQ[1] /\ Len(reorgQ) \in Nat \ {0}
      /\ Tail(reorgQ) \in Seq(Pair) /\ Len(Tail(reorgQ)) = Len(reorgQ) - 1
      /\ \A i \in 1 .. Len(Tail(reorgQ)) : Tail(reorgQ)[i] = reorgQ[i + 1]
  BY <1>0, HeadTailProperties, EmptySeq
<1>2. \A i \in 1 .. Len(reorgQ) : Forks(reorgQ[i], best)
  BY DEF StakeInv, ChainInv
<1>3. \A i \in 1 .. Len(Tail(reorgQ)) : Forks(Tail(reorgQ)[i], best)
  BY <1>1, <1>2
<1>4. Forks(Head(reorgQ), best)
  BY <1>1, <1>2
<1> QED BY <1>1, <1>3, <1>4 DEF StakeInv, ChainInv, Pair

\* A reorganisation is delivered: what it undoes and connects.
LEMMA ReorgHandlerInv == StakeInv /\ ReorgHandler => StakeInv'
<1> SUFFICES ASSUME StakeInv, ReorgHandler
             PROVE  StakeInv'
  OBVIOUS
<1> DEFINE r == Head(reorgQ)
           h == CommonHeight(r.new, r.old)
           tip == NodeHeight(bestNode)
           undo == IF tip > h THEN tip - h ELSE 0
           missing == SubSeq(Chain[best], tip + 2, h + 1)
           above == BlocksAbove(r.new, h)
           bs == missing \o above
<1>1. /\ status = "up" /\ connected = NotConnected /\ reorgQ # <<>> /\ reorgQ' = Tail(reorgQ)
      /\ job' = [undo |-> undo, blocks |-> bs]
      /\ UNCHANGED <<bestNode, diffs, liveTicketCache, blockCache, connected, disk, status,
                     best, announced, crashes, recoverTo>>
  BY DEF ReorgHandler, SuperQueueFree, Serving, cache
<1>2. ChainInv' /\ r \in [old : Block, new : Block] /\ Forks(r, best)
  BY <1>1, QueueTail
<1> HIDE DEF r
<1>3. /\ r.new \in Block /\ r.old \in Block /\ best \in Block
      /\ Height(r.old) < Height(r.new) /\ Height(r.new) <= Height(best) /\ ~OnChain(r.old, r.new)
  BY <1>2 DEF Forks, StakeInv, ChainInv
<1>4. /\ Height(r.old) \in Nat /\ Height(r.new) \in Nat /\ Height(best) \in Nat
      /\ tip \in 0 .. MaxHeight /\ MaxHeight \in Nat
  BY <1>3, HeightFacts, TipFacts, MaxHeightFacts DEF StakeInv, NodesInv
<1>5. h \in 0 .. Height(r.old) - 1
  BY <1>3, <1>4, ForkAncestor
<1> HIDE DEF h, tip
<1>6. undo \in 0 .. MaxHeight /\ undo <= tip
  BY <1>4, <1>5
<1>7. /\ missing \in Seq(Block) /\ \A i \in 1 .. Len(missing) : Height(missing[i]) <= Height(best)
  <2> DEFINE c == Chain[best]
  <2>1. c \in Seq(Block) /\ Len(c) = Height(best) + 1
    BY <1>3, ChainEquation, HeightFacts
  <2>2. ASSUME NEW k \in 1 .. Len(c)
        PROVE  Height(c[k]) <= Height(best)
    <3>1. k - 1 \in 0 .. Height(best) /\ BlockAt(best, k - 1) = c[k]
      BY <1>4, <2>1 DEF BlockAt
    <3> QED BY <1>3, <1>4, <3>1, BlockAtFacts
  <2> HIDE DEF c
  <2>3. h + 1 <= Len(c) /\ tip + 2 >= 1 /\ tip + 2 \in Int /\ h + 1 \in Int
    BY <1>3, <1>4, <1>5, <2>1
  <2>4. /\ SubSeq(c, tip + 2, h + 1) \in Seq(Block)
        /\ \A i \in 1 .. Len(SubSeq(c, tip + 2, h + 1)) :
              tip + 2 + i - 1 \in 1 .. Len(c) /\ SubSeq(c, tip + 2, h + 1)[i] = c[tip + 2 + i - 1]
    BY <1>4, <1>5, <2>1, <2>3
  <2> QED BY <2>2, <2>4 DEF c
<1>8. /\ above \in Seq(Block) /\ Len(above) >= 1
      /\ \A i \in 1 .. Len(above) : Height(above[i]) <= Height(best)
  <2>1. h \in 0 .. Height(r.new) /\ h < Height(r.new)
    BY <1>3, <1>4, <1>5
  <2>2. /\ above \in Seq(Block) /\ Len(above) = Height(r.new) - h
        /\ \A i \in 1 .. Height(r.new) - h : above[i] = BlockAt(r.new, h + i)
    BY <1>3, <2>1, BlocksAboveFacts
  <2>3. ASSUME NEW i \in 1 .. Len(above)
        PROVE  Height(above[i]) <= Height(best)
    <3>1. h + i \in 0 .. Height(r.new) /\ above[i] = BlockAt(r.new, h + i)
      BY <1>4, <2>1, <2>2
    <3> QED BY <1>3, <1>4, <3>1, BlockAtFacts
  <2> QED BY <1>4, <2>1, <2>2, <2>3
<1> HIDE DEF missing, above, undo
<1>9. bs \in Seq(Block) /\ bs # <<>> /\ \A i \in 1 .. Len(bs) : Height(bs[i]) <= Height(best)
  <2>1. /\ bs \in Seq(Block) /\ Len(bs) = Len(missing) + Len(above)
        /\ Len(missing) \in Nat /\ Len(above) \in Nat
        /\ \A i \in 1 .. Len(missing) + Len(above) :
              bs[i] = IF i <= Len(missing) THEN missing[i] ELSE above[i - Len(missing)]
    BY <1>7, <1>8, ConcatProperties, LenProperties
  <2> HIDE DEF bs
  <2>2. ASSUME NEW i \in 1 .. Len(bs)
        PROVE  Height(bs[i]) <= Height(best)
    <3>1. CASE i <= Len(missing)
      <4>1. i \in 1 .. Len(missing) /\ bs[i] = missing[i]
        BY <2>1, <3>1
      <4> QED BY <1>7, <4>1
    <3>2. CASE i > Len(missing)
      <4>1. i - Len(missing) \in 1 .. Len(above) /\ bs[i] = above[i - Len(missing)]
        BY <2>1, <3>2
      <4> QED BY <1>8, <4>1
    <3> QED BY <2>1, <3>1, <3>2
  <2>3. Len(bs) # 0
    BY <1>8, <2>1
  <2> QED BY <2>1, <2>2, <2>3, EmptySeq
<1> HIDE DEF bs
<1>10. job' \in Job
  BY <1>1, <1>3, <1>6, <1>9 DEF Job
<1>11. GoodJob(job', best, NodeHeight(bestNode))
  BY <1>1, <1>3, <1>6, <1>9 DEF GoodJob, tip
<1> QED BY <1>1, <1>2, <1>10, <1>11, HandlerInv

\* A reorganisation is dropped.
LEMMA ReorgAbortedInv == StakeInv /\ ReorgAborted => StakeInv'
<1> SUFFICES ASSUME StakeInv, ReorgAborted
             PROVE  StakeInv'
  OBVIOUS
<1>1. /\ status = "up" /\ connected = NotConnected /\ reorgQ # <<>> /\ reorgQ' = Tail(reorgQ)
      /\ UNCHANGED <<memory, disk, status, best, announced, crashes, recoverTo>>
  BY DEF ReorgAborted, SuperQueueFree, Serving
<1>2. ChainInv'
  BY <1>1, QueueTail
<1>3. job' \in Job /\ GoodJob(job', best, NodeHeight(bestNode))
  BY <1>1 DEF StakeInv, JobInv, memory
<1> QED BY <1>1, <1>2, <1>3, HandlerInv DEF memory, cache
\* dcrd's best chain moves on: everything it has notified is no higher than before.
LEMMA AnnounceInv ==
    ASSUME StakeInv, NEW b \in Block, Height(best) < Height(b), Announce(b),
           reorgQ' \in Seq([old : Block, new : Block]),
           \A i \in 1 .. Len(reorgQ') : Forks(reorgQ'[i], b),
           UNCHANGED <<memory, disk, status, crashes, recoverTo>>
    PROVE  StakeInv'
<1>1. best \in Block /\ Height(best) \in Nat /\ Height(b) \in Nat
  BY HeightFacts DEF StakeInv, ChainInv
<1>2. best' = b /\ announced' \subseteq announced \cup BlocksOf(b)
  BY DEF Announce
<1>3. BlocksOf(b) \subseteq Block /\ \A a \in BlocksOf(b) : Height(a) <= Height(b)
  BY BlocksOfFacts DEF OnChain
<1>4. announced \subseteq Block /\ \A a \in announced : Height(a) <= Height(b)
  <2>1. announced \subseteq Block /\ \A a \in announced : Height(a) <= Height(best) /\ Height(a) \in Nat
    BY HeightFacts DEF StakeInv, ChainInv
  <2> QED BY <1>1, <2>1
<1>5. ChainInv'
  <2>1. announced' \subseteq Block /\ \A a \in announced' : Height(a) <= Height(best')
    BY <1>2, <1>3, <1>4
  <2> QED BY <1>2, <2>1 DEF StakeInv, ChainInv
<1>6. UNCHANGED <<bestNode, stakeDisk, diffs, diffDB, liveTicketCache, blockCache, job, connected>>
  BY DEF memory, cache, disk
<1>7. NodesInv' /\ CacheInv' /\ PoolInv'
  BY <1>6 DEF StakeInv, NodesInv, CacheInv, PoolInv
<1>8. StatusInv'
  BY <1>6 DEF StakeInv, StatusInv, Pending, Contiguous, StoredHeights
<1>9. GoodJob(job, b, NodeHeight(bestNode))
  <2>1. CASE job = NoJob
    BY <2>1 DEF GoodJob
  <2>2. CASE job # NoJob
    <3>1. /\ job.blocks # <<>>
          /\ job.undo <= NodeHeight(bestNode) /\ job.blocks \in Seq(Block)
          /\ \A i \in 1 .. Len(job.blocks) : Height(job.blocks[i]) <= Height(best)
      BY <2>2 DEF StakeInv, JobInv, GoodJob, Job
    <3>2. \A i \in 1 .. Len(job.blocks) : job.blocks[i] \in Block
      BY <3>1
    <3>3. ASSUME NEW i \in 1 .. Len(job.blocks)
          PROVE  Height(job.blocks[i]) <= Height(b)
      <4>1. Height(job.blocks[i]) <= Height(best)
        BY <3>1
      <4>2. Height(job.blocks[i]) \in Nat
        BY <3>2, HeightFacts
      <4> QED BY <1>1, <4>1, <4>2
    <3> QED BY <3>1, <3>3 DEF GoodJob
  <2> QED BY <2>1, <2>2
<1>10. JobInv'
  BY <1>2, <1>6, <1>9 DEF StakeInv, JobInv, Pending
<1> QED BY <1>5, <1>7, <1>8, <1>10 DEF StakeInv

\* A queued reorganisation stays one to a block that is not above dcrd's best.
LEMMA ForksStay ==
    ASSUME StakeInv, NEW b \in Block, Height(best) < Height(b)
    PROVE  \A i \in 1 .. Len(reorgQ) : Forks(reorgQ[i], b)
<1> SUFFICES ASSUME NEW i \in 1 .. Len(reorgQ)
             PROVE  Forks(reorgQ[i], b)
  OBVIOUS
<1> DEFINE Pair == [old : Block, new : Block]
<1>0. reorgQ \in Seq(Pair) /\ Forks(reorgQ[i], best)
  BY DEF StakeInv, ChainInv
<1>1. reorgQ[i] \in Pair /\ Forks(reorgQ[i], best)
  <2> HIDE DEF Pair
  <2> QED BY <1>0, ElementOfSeq
<1>2. best \in Block /\ reorgQ[i].new \in Block
  BY <1>1 DEF StakeInv, ChainInv
<1>3. Height(best) \in Nat /\ Height(b) \in Nat /\ Height(reorgQ[i].new) \in Nat
  BY <1>2, HeightFacts
<1> QED BY <1>1, <1>3 DEF Forks

\* dcrd's chain grows.
LEMMA NodeExtendsInv ==
    ASSUME StakeInv, NEW b \in Block, NodeExtends(b)
    PROVE  StakeInv'
<1>1. b # Genesis /\ Parent[b] = best /\ Announce(b)
      /\ UNCHANGED <<memory, disk, status, reorgQ, crashes, recoverTo>>
  BY DEF NodeExtends
<1>2. Height(best) < Height(b)
  BY <1>1, HeightFacts
<1>3. reorgQ' \in Seq([old : Block, new : Block]) /\ \A i \in 1 .. Len(reorgQ') : Forks(reorgQ'[i], b)
  BY <1>1, <1>2, ForksStay DEF StakeInv, ChainInv
<1> QED BY <1>1, <1>2, <1>3, AnnounceInv

\* dcrd moves to a longer branch.
LEMMA NodeReorganizesInv ==
    ASSUME StakeInv, NEW b \in Block, NodeReorganizes(b)
    PROVE  StakeInv'
<1> DEFINE Pair == [old : Block, new : Block]
           e == [old |-> best, new |-> b]
<1>1. /\ Height(best) < Height(b) /\ ~OnChain(best, b) /\ Announce(b) /\ best \in Block
      /\ reorgQ' \in {Append(reorgQ, e), reorgQ} /\ reorgQ \in Seq(Pair)
      /\ UNCHANGED <<memory, disk, status, crashes, recoverTo>>
  <2>1. best \in Block /\ reorgQ \in Seq(Pair)
    BY DEF StakeInv, ChainInv
  <2>2. Height(best) \in Nat /\ Height(b) \in Nat
    BY <2>1, HeightFacts
  <2> QED BY <2>1, <2>2 DEF NodeReorganizes
<1>2. e \in Pair
  BY <1>1
<1>3. Forks(e, b)
  <2>1. Height(b) \in Nat
    BY HeightFacts
  <2> QED BY <1>1, <2>1 DEF Forks
<1>4. \A i \in 1 .. Len(reorgQ) : Forks(reorgQ[i], b)
  BY <1>1, ForksStay
<1> HIDE DEF Pair, e
<1>5. reorgQ' \in Seq(Pair) /\ \A i \in 1 .. Len(reorgQ') : Forks(reorgQ'[i], b)
  <2>1. CASE reorgQ' = reorgQ
    BY <1>1, <1>4, <2>1
  <2>2. CASE reorgQ' = Append(reorgQ, e)
    <3>1. /\ Len(reorgQ) \in Nat /\ Len(reorgQ') = Len(reorgQ) + 1 /\ reorgQ'[Len(reorgQ) + 1] = e
          /\ reorgQ' \in Seq(Pair) /\ \A i \in 1 .. Len(reorgQ) : reorgQ'[i] = reorgQ[i]
      BY <1>1, <1>2, <2>2, AppendProperties
    <3>2. \A i \in 1 .. Len(reorgQ') : i = Len(reorgQ) + 1 \/ i \in 1 .. Len(reorgQ)
      BY <3>1
    <3> QED BY <1>3, <1>4, <3>1, <3>2
  <2> QED BY <1>1, <2>1, <2>2
<1> QED BY <1>1, <1>5, AnnounceInv DEF Pair

-----------------------------------------------------------------------------
(* The start.                                                              *)

\* A step of the start: dcrd and its notifications are left alone, no handler runs.
LEMMA StartupInv ==
    ASSUME StakeInv, status \in {"loading", "recovering", "starting"},
           status' \in {"loading", "recovering", "starting"},
           status' \in {"loading", "recovering"} => status \in {"loading", "recovering"},
           NodesInv', diffs' \in Seq(PoolDiff), liveTicketCache' \subseteq Tickets,
           recoverTo' \in 0 .. MaxHeight,
           UNCHANGED <<diffDB, blockCache, job, connected, node, crashes>>
    PROVE  StakeInv'
<1>1. job = NoJob /\ ~Pending
  BY DEF StakeInv, StatusInv
<1>2. job' = NoJob /\ ~Pending'
  BY <1>1 DEF Pending
<1>3. ChainInv'
  BY ChainStays DEF StakeInv, ChainInv
<1>4. JobInv'
  BY <1>2 DEF StakeInv, JobInv, GoodJob
<1>5. CacheInv' /\ PoolInv'
  BY DEF StakeInv, CacheInv, PoolInv
<1>6. StatusInv'
  <2>1. status' \in {"loading", "recovering"} => Contiguous'
    BY DEF StakeInv, StatusInv, Contiguous, StoredHeights
  <2>2. crashes' \in 0 .. MaxCrashes
    BY DEF StakeInv, StatusInv
  <2> QED BY <1>2, <2>1, <2>2 DEF StatusInv
<1> QED BY <1>3, <1>4, <1>5, <1>6 DEF StakeInv

\* The databases are opened.
LEMMA LoadInv == StakeInv /\ Load => StakeInv'
<1> SUFFICES ASSUME StakeInv, Load
             PROVE  StakeInv'
  OBVIOUS
<1>1. /\ liveTicketCache' = {} /\ blockCache' = NoBlocksCached
      /\ job' = NoJob /\ connected' = NotConnected /\ announced' = {Genesis} /\ reorgQ' = <<>>
      /\ UNCHANGED <<diffDB, best, crashes, recoverTo>>
      /\ \/ Contiguous /\ status' = "loading" /\ diffs' = AllDiffs
         \/ status' = "panicked" /\ diffs' = <<>>
      /\ \/ bestNode' = stakeDisk /\ stakeDisk' = stakeDisk
         \/ bestNode' = GenesisNode /\ stakeDisk' = GenesisNode
  BY DEF Load
<1>2. NodesInv'
  BY <1>1, GenesisNodeIsTrue DEF StakeInv, NodesInv
<1>3. ChainInv'
  <2>1. best \in Block /\ Height(best) \in Nat /\ Height(Genesis) = 0
    BY HeightFacts DEF StakeInv, ChainInv
  <2>2. reorgQ' \in Seq([old : Block, new : Block]) /\ \A i \in 1 .. Len(reorgQ') : Forks(reorgQ'[i], best)
    BY <1>1
  <2> QED BY <1>1, <2>1, <2>2, GenesisAssumption DEF ChainInv
<1>4. JobInv'
  BY <1>1, NoJobFacts, NotConnectedFacts DEF JobInv, GoodJob, Pending
<1>5. CacheInv'
  BY <1>1 DEF CacheInv, NoBlocksCached
<1>6. PoolInv'
  <2>1. diffDB \in [1 .. MaxHeight -> PoolDiff \cup {NoDiff}]
    BY DEF StakeInv, PoolInv
  <2>2. <<>> \in Seq(PoolDiff) /\ (Contiguous => AllDiffs \in Seq(PoolDiff))
    BY <2>1, AllDiffsFacts
  <2>3. diffs' \in Seq(PoolDiff)
    BY <1>1, <2>2
  <2> QED BY <1>1, <2>1, <2>3 DEF PoolInv
<1>7. StatusInv'
  BY <1>1 DEF StakeInv, StatusInv, Pending, Contiguous, StoredHeights
<1> QED BY <1>2, <1>3, <1>4, <1>5, <1>6, <1>7 DEF StakeInv

\* DisconnectBlock(true), where there is a block to disconnect.
LEMMA LoadDisconnectsInv ==
    ASSUME StakeInv, status \in {"loading", "recovering"}, Len(bestNode) > 1, LoadDisconnects
    PROVE  StakeInv'
<1>1. /\ Disconnect(TRUE)
      /\ UNCHANGED <<diffDB, liveTicketCache, blockCache, job, connected, status,
                     node, crashes, recoverTo>>
  BY DEF LoadDisconnects, cache
<1>2. NodesInv' /\ diffs' \in Seq(PoolDiff)
  BY <1>1, DisconnectFacts
<1>3. liveTicketCache' \subseteq Tickets /\ recoverTo' \in 0 .. MaxHeight
  BY <1>1 DEF StakeInv, PoolInv, StatusInv
<1> QED BY <1>1, <1>2, <1>3, StartupInv

\* A misfit is found at the height of a block of the stake node.
LEMMA MisfitFacts ==
    ASSUME StakeInv, Misfits # {}
    PROVE  FirstMisfit \in 1 .. Len(diffs) /\ Len(diffs) \in Nat
<1>1. diffs \in Seq(PoolDiff) /\ Len(diffs) \in Nat
  BY DEF StakeInv, PoolInv
<1>2. Misfits \subseteq 1 .. Len(diffs)
  BY DEF Misfits
<1>3. Misfits \in SUBSET Nat
  BY <1>1, <1>2
<1>4. \E h \in Misfits : \A k \in Misfits : h <= k
  BY <1>3, NatBounds
<1>5. FirstMisfit \in Misfits
  BY <1>4 DEF FirstMisfit
<1> QED BY <1>1, <1>2, <1>5

\* The stake node is ahead of the pool.
LEMMA LoadRollsBackNodeInv == StakeInv /\ LoadRollsBackNode => StakeInv'
<1> SUFFICES ASSUME StakeInv, LoadRollsBackNode
             PROVE  StakeInv'
  OBVIOUS
<1>1. /\ status \in {"loading", "recovering"} /\ NodeHeight(bestNode) > Len(diffs) /\ LoadDisconnects
  BY DEF LoadRollsBackNode
<1>2. Len(diffs) \in Nat /\ Len(bestNode) \in Nat
  BY TipFacts DEF StakeInv, NodesInv, PoolInv
<1>3. Len(bestNode) > 1
  BY <1>1, <1>2 DEF NodeHeight
<1> QED BY <1>1, <1>3, LoadDisconnectsInv

\* LoadAndRecover has loaded both databases anew.
LEMMA ReloadInv ==
    ASSUME StakeInv, status = "loading", status' = "recovering", diffs' = AllDiffs,
           NEW n \in 0 .. MaxHeight,
           recoverTo' = IF n > RecoverDepth THEN n - RecoverDepth ELSE 0,
           UNCHANGED <<bestNode, liveTicketCache, blockCache, job, connected, disk,
                       node, crashes>>
    PROVE  StakeInv'
<1>1. diffDB \in [1 .. MaxHeight -> PoolDiff \cup {NoDiff}] /\ Contiguous
  BY DEF StakeInv, PoolInv, StatusInv
<1>2. diffs' \in Seq(PoolDiff)
  BY <1>1, AllDiffsFacts
<1>3. recoverTo' \in 0 .. MaxHeight
  BY MaxHeightFacts, BoundsAssumption
<1>4. NodesInv' /\ liveTicketCache' \subseteq Tickets /\ UNCHANGED diffDB
  BY DEF StakeInv, NodesInv, PoolInv, disk
<1> QED BY <1>2, <1>3, <1>4, StartupInv

\* NewStakeDatabase fails, and LoadAndRecover is called.
LEMMA LoadFailsInv == StakeInv /\ (LoadFails \/ LoadRPCFails) => StakeInv'
<1> SUFFICES ASSUME StakeInv, LoadFails \/ LoadRPCFails
             PROVE  StakeInv'
  OBVIOUS
<1>0. Len(diffs) \in Nat /\ NodeHeight(bestNode) \in 0 .. MaxHeight /\ MaxHeight \in Nat
  BY TipFacts, MaxHeightFacts DEF StakeInv, NodesInv, PoolInv
<1>1. CASE LoadFails
  <2>1. FirstMisfit \in 1 .. Len(diffs) /\ Len(diffs) = NodeHeight(bestNode)
    BY <1>1, MisfitFacts DEF LoadFails, Aligned
  <2>2. FirstMisfit \in 0 .. MaxHeight
    BY <1>0, <2>1
  <2> QED BY <1>1, <2>2, ReloadInv DEF LoadFails, cache
<1>2. CASE LoadRPCFails
  <2>1. Len(diffs) \in 0 .. MaxHeight
    BY <1>0, <1>2 DEF LoadRPCFails
  <2> QED BY <1>2, <2>1, ReloadInv DEF LoadRPCFails, cache
<1> QED BY <1>1, <1>2

\* LoadAndRecover rewinds both databases.
LEMMA RecoverRewindsInv == StakeInv /\ RecoverRewinds => StakeInv'
<1> SUFFICES ASSUME StakeInv, RecoverRewinds
             PROVE  StakeInv'
  OBVIOUS
<1>1. /\ status = "recovering" /\ Len(diffs) = NodeHeight(bestNode) /\ LoadDisconnects
      /\ NodeHeight(bestNode) > recoverTo \/ Misfits # {}
  BY DEF RecoverRewinds, Aligned
<1>2. recoverTo \in Nat /\ Len(bestNode) \in Nat
  BY TipFacts DEF StakeInv, NodesInv, StatusInv
<1>3. NodeHeight(bestNode) > 0
  <2>1. Misfits # {} => Len(diffs) > 0
    BY MisfitFacts
  <2> QED BY <1>1, <1>2, <2>1 DEF NodeHeight
<1>4. Len(bestNode) > 1
  BY <1>2, <1>3 DEF NodeHeight
<1> QED BY <1>1, <1>4, LoadDisconnectsInv

\* The ticket pool is trimmed, or the ticket cache filled.
LEMMA LoadStepsInv == StakeInv /\ (LoadTrimsPool \/ PopulateLiveTicketCache) => StakeInv'
<1> SUFFICES ASSUME StakeInv, LoadTrimsPool \/ PopulateLiveTicketCache
             PROVE  StakeInv'
  OBVIOUS
<1>0. /\ diffs \in Seq(PoolDiff) /\ Len(diffs) \in Nat /\ liveTicketCache \subseteq Tickets
      /\ NodeHeight(bestNode) \in Nat /\ recoverTo \in 0 .. MaxHeight
      /\ bestNode[Len(bestNode)].live \subseteq Tickets
  <2>1. TrueNode(bestNode)
    BY DEF StakeInv, NodesInv
  <2>2. Len(bestNode) \in 1 .. Len(bestNode) /\ NodeHeight(bestNode) \in Nat
    BY <2>1, TipFacts
  <2>3. bestNode[Len(bestNode)].live \subseteq Tickets
    BY <2>1, <2>2, TipFacts
  <2> QED BY <2>2, <2>3 DEF StakeInv, PoolInv, StatusInv
<1>1. CASE LoadTrimsPool
  <2>1. diffs' = SubSeq(diffs, 1, NodeHeight(bestNode)) /\ NodeHeight(bestNode) < Len(diffs)
    BY <1>0, <1>1 DEF LoadTrimsPool, TrimTo
  <2>2. diffs' \in Seq(PoolDiff)
    BY <1>0, <2>1
  <2>3. /\ status \in {"loading", "recovering"} /\ status' = status
        /\ UNCHANGED <<bestNode, stakeDisk, diffDB, liveTicketCache, blockCache, job, connected,
                       node, crashes, recoverTo>>
    BY <1>1 DEF LoadTrimsPool, cache, disk
  <2>4. NodesInv'
    BY <2>3 DEF StakeInv, NodesInv
  <2> QED BY <1>0, <2>2, <2>3, <2>4, StartupInv
<1>2. CASE PopulateLiveTicketCache
  <2>1. /\ status \in {"loading", "recovering"} /\ status' = "starting"
        /\ liveTicketCache' = bestNode[Len(bestNode)].live
        /\ UNCHANGED <<bestNode, stakeDisk, diffDB, diffs, blockCache, job, connected,
                       node, crashes, recoverTo>>
    BY <1>2 DEF PopulateLiveTicketCache, disk
  <2>2. NodesInv'
    BY <2>1 DEF StakeInv, NodesInv
  <2> QED BY <1>0, <2>1, <2>2, StartupInv
<1> QED BY <1>1, <1>2

\* The heights at which ChainDB and dcrd agree: at genesis at least.
LEMMA SharedHeightFacts ==
    ASSUME chainDB \in Block, best \in Block
    PROVE  SharedHeight \in 0 .. Height(chainDB)
<1>1. Height(chainDB) \in Nat /\ Height(best) \in Nat
  BY HeightFacts
<1>2. SharedHeights \subseteq 0 .. Height(chainDB)
  BY DEF SharedHeights
<1>3. 0 \in SharedHeights
  <2>1. \A b \in Block : BlockAt(b, 0) = Genesis
    BY HeightFacts, OnChainFacts, GenesisAssumption DEF OnChain
  <2> QED BY <1>1, <2>1 DEF SharedHeights
<1>4. \E h \in SharedHeights : \A k \in SharedHeights : k <= h
  <2>1. SharedHeights \in SUBSET Nat /\ \A k \in SharedHeights : k <= Height(chainDB)
    BY <1>1, <1>2
  <2> QED BY <1>1, <1>3, <2>1, NatBounds
<1>5. SharedHeight \in SharedHeights
  BY <1>4 DEF SharedHeight
<1> QED BY <1>2, <1>5

\* RewindStakeDB: there is a block above ChainDB's height to disconnect.
LEMMA RewindFacts ==
    ASSUME StakeInv, MainInv, RewindStakeDB
    PROVE  /\ status = "starting" /\ status' = status
           /\ Len(bestNode) > 1 /\ NodeHeight(bestNode) - 1 \in Nat /\ Disconnect(TRUE)
           /\ UNCHANGED <<diffDB, blockCache, job, connected, node, crashes, recoverTo, faults>>
<1>1. Height(chainDB) \in Nat /\ Len(bestNode) \in Nat
  BY HeightFacts, TipFacts DEF MainInv, StakeInv, NodesInv
<1>2. NodeHeight(bestNode) > Height(chainDB)
  BY DEF RewindStakeDB
<1>3. Len(bestNode) > 1 /\ NodeHeight(bestNode) - 1 \in Nat
  BY <1>1, <1>2 DEF NodeHeight
<1> QED BY <1>3 DEF RewindStakeDB, Purged

\* main.go compares ChainDB with dcrd, and rewinds the stake database to it.
LEMMA MainStartInv ==
    ASSUME StakeInv, MainInv, OrphanedTipLength \/ RewindStakeDB
    PROVE  StakeInv'
<1>1. CASE OrphanedTipLength
  <2>1. /\ status = "starting" /\ recoverTo' = SharedHeight
        /\ UNCHANGED <<bestNode, stakeDisk, diffs, diffDB, liveTicketCache, blockCache, job,
                       connected, status, node, crashes>>
    BY <1>1 DEF OrphanedTipLength, AtStage, memory, cache, disk
  <2>2. Height(chainDB) \in 0 .. MaxHeight /\ SharedHeight \in 0 .. Height(chainDB)
    BY SharedHeightFacts, MaxHeightFacts DEF MainInv, StakeInv, ChainInv
  <2>3. recoverTo' \in 0 .. MaxHeight
    BY <2>1, <2>2, MaxHeightFacts
  <2>4. NodesInv' /\ diffs' \in Seq(PoolDiff) /\ liveTicketCache' \subseteq Tickets
    BY <2>1 DEF StakeInv, NodesInv, PoolInv
  <2> QED BY <2>1, <2>3, <2>4, StartupInv
<1>2. CASE RewindStakeDB
  <2>1. /\ status = "starting" /\ status' = status /\ Len(bestNode) > 1
        /\ NodeHeight(bestNode) - 1 \in Nat /\ Disconnect(TRUE)
        /\ UNCHANGED <<diffDB, blockCache, job, connected, node, crashes, recoverTo>>
    BY <1>2, RewindFacts
  <2>2. NodesInv' /\ diffs' \in Seq(PoolDiff)
    BY <2>1, DisconnectFacts
  <2>3. \E lost : liveTicketCache' = Undone(liveTicketCache, NodeHeight(bestNode) - 1, lost)
    BY <1>2 DEF RewindStakeDB, UndoCache
  <2>4. liveTicketCache' \subseteq Tickets
    BY <2>1, <2>3, UndoneFacts DEF StakeInv, PoolInv
  <2>5. recoverTo' \in 0 .. MaxHeight
    BY <2>1 DEF StakeInv, StatusInv
  <2> QED BY <2>1, <2>2, <2>4, <2>5, StartupInv
<1> QED BY <1>1, <1>2

\* ChainDB's own steps, and those of main.go: the stake database is left alone.
LEMMA QuietInv ==
    ASSUME StakeInv,
           \/ TipToSideChain \/ switchToSideChain \/ StoreBlock \/ SetDBBestBlock \/ StoreFails
           \/ NewChainDB \/ DeleteBestBlock \/ StartSync \/ SyncDone \/ Listen
           \/ UNCHANGED vars
    PROVE  StakeInv'
<1>1. /\ UNCHANGED <<bestNode, stakeDisk, diffs, diffDB, liveTicketCache, blockCache, job, connected,
                     recoverTo, best, announced, reorgQ, crashes>>
      /\ status' = status \/ status' = "up"
  BY DEF TipToSideChain, switchToSideChain, StoreBlock, SetDBBestBlock, StoreFails, NewChainDB,
     DeleteBestBlock, StartSync, SyncDone, Listen, vars, memory, cache, disk, node
<1>2. NodesInv' /\ ChainInv' /\ CacheInv' /\ PoolInv'
  BY <1>1 DEF StakeInv, NodesInv, ChainInv, CacheInv, PoolInv
<1>3. JobInv' /\ StatusInv'
  BY <1>1 DEF StakeInv, JobInv, StatusInv, Pending, Contiguous, StoredHeights
<1> QED BY <1>2, <1>3 DEF StakeInv

\* SyncChainDB has the stake database connect dcrd's next block.
LEMMA ImportBlockInv ==
    ASSUME StakeInv, MainInv, importBlock
    PROVE  StakeInv'
<1> DEFINE b == BlockAt(best, Height(chainDB) + 1)
           bs == <<b>>
<1>1. /\ status = "up" /\ connected = NotConnected /\ Height(chainDB) < Height(best)
      /\ job' = [undo |-> 0, blocks |-> bs]
      /\ UNCHANGED <<bestNode, diffs, liveTicketCache, blockCache, connected, disk, status,
                     node, crashes, recoverTo>>
  BY DEF importBlock, Importing, Serving, cache
<1>2. best \in Block /\ Height(chainDB) + 1 \in 0 .. Height(best)
  BY <1>1, HeightFacts DEF MainInv, StakeInv, ChainInv
<1>3. b \in Block /\ Height(b) <= Height(best)
  BY <1>2, BlockAtFacts
<1>4. 0 \in 0 .. MaxHeight /\ 0 <= NodeHeight(bestNode)
  BY MaxHeightFacts, TipFacts DEF StakeInv, NodesInv
<1> HIDE DEF b
<1>5. bs \in Seq(Block) /\ bs # <<>> /\ \A i \in 1 .. Len(bs) : Height(bs[i]) <= Height(best)
  BY <1>3
<1> HIDE DEF bs
<1>6. job' \in Job /\ GoodJob(job', best, NodeHeight(bestNode))
  BY <1>1, <1>4, <1>5 DEF Job, GoodJob
<1>7. ChainInv'
  BY <1>1, ChainStays
<1> QED BY <1>1, <1>6, <1>7, HandlerInv DEF node

\* Every step preserves the invariant.
LEMMA NextStakeInv == StakeInv /\ MainInv /\ [Next]_vars => StakeInv'
<1> SUFFICES ASSUME StakeInv, MainInv, [Next]_vars
             PROVE  StakeInv'
  OBVIOUS
<1>1. CASE Handler
  BY <1>1, ConnectNothingInv, ConnectBlockInv, PoolAppendInv, GoesDownInv, DisconnectBlockInv,
     QuietInv, ReorgHandlerInv, BlockHandlerInv DEF Handler
<1>2. CASE Startup
  BY <1>2, LoadInv, LoadRollsBackNodeInv, LoadStepsInv, LoadFailsInv, RecoverRewindsInv,
     MainStartInv, ImportBlockInv, QuietInv, GoesDownInv DEF Startup
<1>3. CASE RPCFaults
  BY <1>3, RPCFailsInv, GoesDownInv, ReorgAbortedInv, LoadFailsInv, QuietInv DEF RPCFaults
<1>4. CASE Crash
  BY <1>4, GoesDownInv
<1>5. CASE \E b \in Block : NodeExtends(b) \/ NodeReorganizes(b)
  BY <1>5, NodeExtendsInv, NodeReorganizesInv
<1>6. CASE UNCHANGED vars
  BY <1>6, QuietInv
<1> QED BY <1>1, <1>2, <1>3, <1>4, <1>5, <1>6 DEF Next
-----------------------------------------------------------------------------
(* FaultsInv: as long as some faults do not strike.                        *)

\* Where only calls to dcrd fail, no write does, and nothing crashes.
LEMMA OnlyRPC ==
    OnlyRPCFails => ~May("poolWrite") /\ ~May("stakeWrite") /\ ~May("crash")
<1> SUFFICES ASSUME OnlyRPCFails
             PROVE  ~May("poolWrite") /\ ~May("stakeWrite") /\ ~May("crash")
  OBVIOUS
<1>1. \A f \in faults : f \in {"rpc", "undo"}
  BY DEF OnlyRPCFails
<1> QED BY <1>1 DEF May

\* A diff applied to the cache, or undone with tickets left out, and to the live set.
LEMMA ShortFacts ==
    ASSUME NEW c, NEW lost, NEW live, Short(c, lost, live), NEW d, NEW more
    PROVE  /\ Short(ApplyDiff(c, d), lost, ApplyDiff(live, d))
           /\ Short(UndoDiff(c, d) \ (d.Out \cap more), lost \cup more, UndoDiff(live, d))
  BY DEF Short, ApplyDiff, UndoDiff

\* A new database.
LEMMA InitFaultsInv == Init => FaultsInv
<1> SUFFICES ASSUME Init
             PROVE  FaultsInv
  OBVIOUS
<1>1. Len(diffs) = 0 /\ Len(bestNode) = 1 /\ bestNode[1].live = {} /\ stakeDisk = bestNode
  BY DEF Init, GenesisNode
<1>2. ~Pending /\ status = "up" /\ Done = 1
  BY <1>1 DEF Init, Pending, Done
<1>3. Contiguous
  <2>1. StoredHeights = {}
    BY DEF Init, StoredHeights
  <2> QED BY <2>1 DEF Contiguous
<1>4. StoredInv
  BY <1>1, <1>2, <1>3 DEF StoredInv
<1>5. AlignedInv
  BY <1>1, <1>2 DEF AlignedInv, NodeHeight
<1>6. AccurateInv
  BY <1>1, <1>2 DEF AccurateInv, Init, Short
<1> QED BY <1>4, <1>5, <1>6 DEF FaultsInv

\* Steps that touch neither database: handlers called or failing, dcrd's own, panics.
LEMMA FaultsStay ==
    ASSUME FaultsInv, UNCHANGED <<bestNode, stakeDisk, diffs, diffDB, liveTicketCache, lostTickets, faults>>,
           Pending' <=> Pending,
           \/ status' = status
           \/ status' = "down" /\ (OnlyRPCFails => ~Pending)
           \/ status = "starting" /\ status' = "up" /\ ~Pending
    PROVE  FaultsInv'
<1>1. StoredInv'
  BY DEF FaultsInv, StoredInv, Contiguous, StoredHeights, May
<1>2. AlignedInv'
  BY DEF FaultsInv, AlignedInv, NodeHeight, May
<1>3. Done' = Done /\ (OnlyRPCFails' <=> OnlyRPCFails)
  BY DEF Done, OnlyRPCFails
<1>4. AccurateInv'
  <2> SUFFICES ASSUME OnlyRPCFails
               PROVE  /\ status' # "up" => ~Pending'
                      /\ \A h \in 1 .. Done - 1 : diffDB'[h] = TrueDiff(bestNode'[h + 1].blk)
                      /\ status' \in {"up", "starting"} =>
                            Short(liveTicketCache', lostTickets', bestNode'[Done].live)
    BY <1>3 DEF AccurateInv
  <2> QED BY DEF FaultsInv, AccurateInv
<1> QED BY <1>1, <1>2, <1>4 DEF FaultsInv

\* These are the steps of that kind.
LEMMA QuietFaults ==
    ASSUME StakeInv, FaultsInv,
           \/ ConnectRPCFails \/ DisconnectRPCFails \/ ConnectOld \/ ConnectNodeFails
           \/ ReorgHandler \/ ReorgAborted \/ importBlock \/ \E b \in Block : BlockHandler(b)
           \/ TipToSideChain \/ switchToSideChain \/ StoreBlock \/ SetDBBestBlock \/ StoreFails
           \/ NewChainDB \/ OrphanedTipLength \/ DeleteBestBlock \/ SyncDone \/ Listen \/ StartSync
           \/ ConnectPanics \/ DisconnectPanics \/ StartupFails \/ Crash
           \/ PurgeFails \/ importPanics \/ SyncFails
           \/ \E b \in Block : NodeExtends(b) \/ NodeReorganizes(b)
           \/ UNCHANGED vars
    PROVE  FaultsInv'
<1>1. CASE ConnectRPCFails \/ DisconnectRPCFails \/ ConnectOld \/ ConnectNodeFails
  <2>1. /\ status' = status /\ connected = NotConnected /\ connected' = NotConnected
        /\ UNCHANGED <<bestNode, stakeDisk, diffs, diffDB, liveTicketCache, lostTickets, faults>>
    BY <1>1 DEF ConnectRPCFails, DisconnectRPCFails, ConnectOld, ConnectNodeFails, ConnectReady,
       DisconnectReady, Serving, Fail, Progress, cache, disk
  <2> QED BY <2>1, FaultsStay DEF Pending
<1>2. CASE \/ ReorgHandler \/ ReorgAborted \/ importBlock \/ \E b \in Block : BlockHandler(b)
           \/ \E b \in Block : NodeExtends(b) \/ NodeReorganizes(b)
           \/ UNCHANGED vars
  <2>1. /\ status' = status /\ connected' = connected
        /\ UNCHANGED <<bestNode, stakeDisk, diffs, diffDB, liveTicketCache, lostTickets, faults>>
    BY <1>2 DEF ReorgHandler, ReorgAborted, importBlock, BlockHandler, NodeExtends, NodeReorganizes,
       vars, memory, cache, disk
  <2> QED BY <2>1, FaultsStay DEF Pending
<1>3. CASE \/ TipToSideChain \/ switchToSideChain \/ StoreBlock \/ SetDBBestBlock \/ StoreFails
           \/ NewChainDB \/ OrphanedTipLength \/ DeleteBestBlock \/ SyncDone \/ Listen
  <2>1. /\ status' = status /\ connected' = connected
        /\ UNCHANGED <<bestNode, stakeDisk, diffs, diffDB, liveTicketCache, lostTickets, faults>>
    BY <1>3 DEF TipToSideChain, switchToSideChain, StoreBlock, SetDBBestBlock, StoreFails,
       NewChainDB, OrphanedTipLength, DeleteBestBlock, SyncDone, Listen, memory, cache, disk
  <2> QED BY <2>1, FaultsStay DEF Pending
<1>4. CASE \/ ConnectPanics \/ DisconnectPanics \/ StartupFails \/ Crash
           \/ PurgeFails \/ importPanics \/ SyncFails
  <2>1. /\ status' = "down" /\ connected' = connected
        /\ UNCHANGED <<bestNode, stakeDisk, diffs, diffDB, liveTicketCache, lostTickets, faults>>
    BY <1>4 DEF ConnectPanics, DisconnectPanics, StartupFails, Crash, PurgeFails, importPanics,
       SyncFails, memory, cache, disk
  <2>2. connected = NotConnected \/ May("crash") \/ status \in {"loading", "recovering", "starting"}
    BY <1>4 DEF ConnectPanics, DisconnectPanics, StartupFails, Crash, PurgeFails, importPanics,
       SyncFails, ConnectReady, DisconnectReady, Importing, Purged, Serving
  <2>3. OnlyRPCFails => ~Pending
    BY <2>2, OnlyRPC DEF StakeInv, StatusInv, Pending
  <2> QED BY <2>1, <2>3, FaultsStay DEF Pending
<1>5. CASE StartSync
  <2>1. /\ status = "starting" /\ status' = "up" /\ connected' = connected
        /\ UNCHANGED <<bestNode, stakeDisk, diffs, diffDB, liveTicketCache, lostTickets, faults>>
    BY <1>5 DEF StartSync, Purged, memory, cache, disk
  <2>2. ~Pending
    BY <2>1 DEF StakeInv, StatusInv
  <2> QED BY <2>1, <2>2, FaultsStay DEF Pending
<1> QED BY <1>1, <1>2, <1>3, <1>4, <1>5

\* connectBlock: the stake node is one block ahead of everything else.
LEMMA ConnectBlockFaults ==
    ASSUME StakeInv, FaultsInv, connectBlock
    PROVE  FaultsInv'
<1> DEFINE b == Head(job.blocks)
<1>1. /\ status = "up" /\ connected = NotConnected /\ job # NoJob /\ status' = "up"
      /\ Height(b) > NodeHeight(bestNode) /\ ConnectNodeOK(b)
      /\ bestNode' = GrownNode(b)
      /\ UNCHANGED <<diffs, diffDB, liveTicketCache, lostTickets, faults>>
      /\ \/ stakeDisk' = GrownNode(b) /\ connected' = [blk |-> b, diff |-> NewDiff(b)]
         \/ May("stakeWrite") /\ connected' = NotConnected
  BY DEF connectBlock, ConnectReady, Serving, Fail, cache
<1>2. b \in Block /\ Height(b) <= Height(best)
  BY <1>1, HeadFacts
<1> HIDE DEF b
<1>3. /\ TrueNode(bestNode') /\ Len(bestNode') = Len(bestNode) + 1
      /\ \A i \in 1 .. Len(bestNode) : bestNode'[i] = bestNode[i]
  BY <1>1, <1>2, GrownFacts
<1>4. ~Pending /\ Len(bestNode) \in Nat /\ Len(bestNode) >= 1
  BY <1>1, TipFacts DEF Pending, StakeInv, NodesInv
<1>5. StoredInv'
  BY <1>1 DEF FaultsInv, StoredInv, Contiguous, StoredHeights, May
<1>6. ~May("stakeWrite") => stakeDisk' = bestNode' /\ Pending'
  <2>1. [blk |-> b, diff |-> NewDiff(b)] # NotConnected
    BY <1>2, BoundsAssumption DEF NotConnected
  <2> QED BY <1>1, <2>1 DEF Pending
<1>7. AlignedInv'
  <2> SUFFICES ASSUME ~May("stakeWrite")
               PROVE  stakeDisk' = bestNode' /\ Pending' /\ Len(diffs') + 1 = NodeHeight(bestNode')
    BY <1>1 DEF AlignedInv, May
  <2>1. Len(diffs) = NodeHeight(bestNode)
    BY <1>1, <1>4 DEF FaultsInv, AlignedInv
  <2> QED BY <1>1, <1>3, <1>4, <1>6, <2>1 DEF NodeHeight
<1>8. AccurateInv'
  <2> SUFFICES ASSUME OnlyRPCFails
               PROVE  /\ \A h \in 1 .. Done' - 1 : diffDB'[h] = TrueDiff(bestNode'[h + 1].blk)
                      /\ Short(liveTicketCache', lostTickets', bestNode'[Done'].live)
    BY <1>1 DEF AccurateInv, OnlyRPCFails
  <2>1. Pending'
    BY <1>6, OnlyRPC
  <2>2. Done = Len(bestNode) /\ Done' = Len(bestNode)
    BY <1>3, <1>4, <2>1 DEF Done
  <2>3. /\ \A h \in 1 .. Len(bestNode) - 1 : diffDB[h] = TrueDiff(bestNode[h + 1].blk)
        /\ Short(liveTicketCache, lostTickets, bestNode[Len(bestNode)].live)
    BY <1>1, <2>2 DEF FaultsInv, AccurateInv
  <2>4. \A h \in 1 .. Len(bestNode) - 1 : h + 1 \in 1 .. Len(bestNode)
    BY <1>4
  <2>5. Len(bestNode) \in 1 .. Len(bestNode)
    BY <1>4
  <2> QED BY <1>1, <1>3, <2>2, <2>3, <2>4, <2>5
<1> QED BY <1>5, <1>7, <1>8 DEF FaultsInv

\* The live tickets of the tip are those of its parent with the tip's diff applied.
LEMMA TipDiff ==
    ASSUME NEW n, TrueNode(n), Len(n) > 1
    PROVE  /\ n[Len(n) - 1].live \subseteq Tickets
           /\ n[Len(n)].live = ApplyDiff(n[Len(n) - 1].live, TrueDiff(Tip(n)))
           /\ UndoDiff(n[Len(n)].live, TrueDiff(Tip(n))) = n[Len(n) - 1].live
<1> DEFINE b == Tip(n)
           p == Parent[b]
<1>1. Len(n) \in Nat /\ b \in Block \ {Genesis} /\ n[Len(n)].live = LiveAt[b]
  BY TipFacts
<1>2. p \in Block /\ Front(n)[Len(n) - 1] = n[Len(n) - 1] /\ Tip(Front(n)) = p /\ Len(Front(n)) = Len(n) - 1
  <2>1. Len(n) - 1 \in 1 .. Len(n) - 1
    BY <1>1
  <2> QED BY <1>1, <2>1, FrontIsTrue, HeightFacts
<1>3. n[Len(n) - 1].blk = p
  BY <1>2 DEF Tip
<1>4. n[Len(n) - 1].live = LiveAt[p]
  <2>1. Len(n) - 1 \in 1 .. Len(n)
    BY <1>1
  <2> QED BY <1>3, <2>1 DEF TrueNode
<1>5. n[Len(n)].blk = b /\ Len(n) \in 2 .. Len(n)
  BY <1>1 DEF Tip
<1>6. TrueIn(b) \cap LiveAt[p] = {}
  BY <1>3, <1>5 DEF TrueNode
<1> HIDE DEF b, p
<1>7. Winners[p] \subseteq LiveAt[p] /\ LiveAt[p] \subseteq Tickets
  BY <1>2, WinnersAssumption, LiveEquation
<1>8. LiveAt[b] = ApplyDiff(LiveAt[p], TrueDiff(b))
  BY <1>1, LiveEquation DEF p
<1>9. UndoDiff(LiveAt[b], TrueDiff(b)) = LiveAt[p]
  BY <1>6, <1>7, <1>8 DEF UndoDiff, ApplyDiff, TrueDiff, p
<1> QED BY <1>1, <1>4, <1>7, <1>8, <1>9 DEF b
\* PoolDB.Append: the pool gets to the height of the stake node again.
LEMMA PoolAppendFaults ==
    ASSUME StakeInv, FaultsInv, PoolAppend
    PROVE  FaultsInv'
<1> DEFINE h == NodeHeight(bestNode)
           d == connected.diff
<1>1. /\ status = "up" /\ status' = "up" /\ Pending
      /\ liveTicketCache' = ApplyDiff(liveTicketCache, d)
      /\ connected' = NotConnected
      /\ UNCHANGED <<bestNode, lostTickets, stakeDisk, faults>>
      /\ \/ h # Len(diffs) + 1 /\ UNCHANGED <<diffs, diffDB>>
         \/ /\ h = Len(diffs) + 1 /\ diffs' = Append(diffs, d)
            /\ \/ diffDB' = [diffDB EXCEPT ![h] = d]
               \/ May("poolWrite") /\ diffDB' = diffDB
  BY DEF PoolAppend, Pending, Fail, Progress
<1>2. /\ TrueNode(bestNode) /\ d \in PoolDiff /\ diffs \in Seq(PoolDiff) /\ Len(diffs) \in Nat
      /\ diffDB \in [1 .. MaxHeight -> PoolDiff \cup {NoDiff}]
      /\ Tip(bestNode) # Genesis /\ d = TrueDiff(Tip(bestNode))
  BY <1>1 DEF StakeInv, NodesInv, JobInv, PoolInv
<1>3. /\ h \in 0 .. MaxHeight /\ MaxHeight \in Nat /\ Len(bestNode) \in Nat /\ Len(bestNode) > 1
      /\ h = Len(bestNode) - 1 /\ h \in 1 .. MaxHeight
  <2>1. h \in 0 .. MaxHeight /\ MaxHeight \in Nat /\ Len(bestNode) \in Nat /\ Len(bestNode) > 1
    BY <1>2, TipFacts, MaxHeightFacts
  <2> QED BY <2>1 DEF NodeHeight
<1>4. ~Pending'
  BY <1>1 DEF Pending
<1> HIDE DEF h, d
<1>5. StoredInv'
  <2> SUFFICES ASSUME ~May("poolWrite")
               PROVE  Contiguous' /\ \A k \in 1 .. Len(diffs') : k <= MaxHeight /\ diffDB'[k] = diffs'[k]
    BY <1>1 DEF StoredInv, May
  <2>1. Contiguous /\ \A k \in 1 .. Len(diffs) : k <= MaxHeight /\ diffDB[k] = diffs[k]
    BY DEF FaultsInv, StoredInv
  <2>2. CASE UNCHANGED <<diffs, diffDB>>
    BY <2>1, <2>2 DEF Contiguous, StoredHeights
  <2>3. CASE h = Len(diffs) + 1 /\ diffs' = Append(diffs, d) /\ diffDB' = [diffDB EXCEPT ![h] = d]
    <3>1. diffDB'[h] = d /\ \A k \in 1 .. MaxHeight \ {h} : diffDB'[k] = diffDB[k]
      BY <1>2, <1>3, <2>3
    <3>2. /\ Len(diffs') = h /\ diffs'[h] = d /\ \A k \in 1 .. Len(diffs) : diffs'[k] = diffs[k]
      BY <1>2, <2>3, AppendProperties
    <3>3. \A k \in 1 .. h : k = h \/ k \in 1 .. Len(diffs)
      BY <1>2, <1>3, <2>3
    <3>4. \A k \in 1 .. Len(diffs) : k \in 1 .. MaxHeight \ {h}
      BY <1>2, <1>3, <2>1, <2>3
    <3>5. \A k \in 1 .. Len(diffs') : k <= MaxHeight /\ diffDB'[k] = diffs'[k]
      BY <1>3, <2>1, <3>1, <3>2, <3>3, <3>4
    <3>6. \A k \in 1 .. h : k \in StoredHeights'
      <4>1. \A k \in 1 .. Len(diffs) : diffs[k] \in PoolDiff
        BY <1>2, ElementOfSeq
      <4>2. \A k \in 1 .. Len(diffs) : diffDB'[k] \in PoolDiff
        BY <2>1, <3>1, <3>4, <4>1
      <4>3. \A k \in 1 .. h : k \in 1 .. MaxHeight /\ diffDB'[k] \in PoolDiff
        BY <1>2, <1>3, <3>1, <3>3, <3>4, <4>2
      <4> QED BY <4>3, NoDiffAssumption DEF StoredHeights
    <3>7. StoredHeights' \subseteq StoredHeights \cup {h} /\ StoredHeights \subseteq StoredHeights'
      BY <1>2, <1>3, <3>1, NoDiffAssumption DEF StoredHeights
    <3>8. Contiguous'
      <4> SUFFICES ASSUME NEW g \in StoredHeights', NEW k \in 1 .. g
                   PROVE  k \in StoredHeights'
        BY DEF Contiguous
      <4>1. CASE g = h
        BY <3>6, <4>1
      <4>2. CASE g \in StoredHeights
        BY <2>1, <3>7, <4>2 DEF Contiguous
      <4> QED BY <3>7, <4>1, <4>2
    <3> QED BY <3>5, <3>8
  <2> QED BY <1>1, <2>2, <2>3
<1>6. ~May("stakeWrite") => h = Len(diffs) + 1 /\ stakeDisk = bestNode
  BY <1>1, <1>2, <1>3 DEF FaultsInv, AlignedInv, h
<1>7. AlignedInv'
  <2> SUFFICES ASSUME ~May("stakeWrite")
               PROVE  stakeDisk' = bestNode' /\ Len(diffs') = NodeHeight(bestNode')
    BY <1>1, <1>4 DEF AlignedInv, May
  <2>1. h = Len(diffs) + 1 /\ diffs' = Append(diffs, d) /\ stakeDisk = bestNode
    BY <1>1, <1>6
  <2>2. Len(diffs') = h
    BY <1>2, <2>1, AppendProperties
  <2> QED BY <1>1, <2>1, <2>2 DEF h
<1>8. AccurateInv'
  <2> SUFFICES ASSUME OnlyRPCFails
               PROVE  /\ \A k \in 1 .. Done' - 1 : diffDB'[k] = TrueDiff(bestNode'[k + 1].blk)
                      /\ Short(liveTicketCache', lostTickets', bestNode'[Done'].live)
    BY <1>1, <1>4 DEF AccurateInv, OnlyRPCFails
  <2>1. diffDB' = [diffDB EXCEPT ![h] = d]
    BY <1>1, <1>6, OnlyRPC
  <2>2. Done = h /\ Done' = h + 1
    BY <1>1, <1>3, <1>4 DEF Done
  <2>3. /\ \A k \in 1 .. h - 1 : diffDB[k] = TrueDiff(bestNode[k + 1].blk)
        /\ Short(liveTicketCache, lostTickets, bestNode[h].live)
    BY <1>1, <2>2 DEF FaultsInv, AccurateInv
  <2>4. \A k \in 1 .. h : diffDB'[k] = TrueDiff(bestNode[k + 1].blk)
    <3>1. diffDB'[h] = TrueDiff(bestNode[h + 1].blk)
      BY <1>2, <1>3, <2>1 DEF Tip
    <3>2. \A k \in 1 .. h - 1 : diffDB'[k] = diffDB[k] /\ k \in 1 .. MaxHeight
      BY <1>2, <1>3, <2>1
    <3>3. \A k \in 1 .. h : k = h \/ k \in 1 .. h - 1
      BY <1>3
    <3> QED BY <2>3, <3>1, <3>2, <3>3
  <2>5. Done' - 1 = h /\ h = Len(bestNode) - 1 /\ h + 1 = Len(bestNode)
    BY <1>3, <2>2
  <2>6. bestNode[h + 1].live = ApplyDiff(bestNode[h].live, TrueDiff(Tip(bestNode)))
    BY <1>2, <1>3, <2>5, TipDiff
  <2>7. Short(ApplyDiff(liveTicketCache, d), lostTickets, ApplyDiff(bestNode[h].live, d))
    BY <2>3, ShortFacts
  <2>8. Short(liveTicketCache', lostTickets', bestNode'[Done'].live)
    BY <1>1, <1>2, <2>2, <2>6, <2>7
  <2> QED BY <1>1, <2>2, <2>4, <2>5, <2>8
<1> QED BY <1>5, <1>7, <1>8 DEF FaultsInv

-----------------------------------------------------------------------------
\* The pool is trimmed, or read again: what is in memory is in badger.
LEMMA StoredPrefix ==
    ASSUME StakeInv, FaultsInv, UNCHANGED <<diffDB, faults>>, status' # "panicked",
           diffs' \in Seq(PoolDiff),
           \/ Len(diffs') <= Len(diffs) /\ \A i \in 1 .. Len(diffs') : diffs'[i] = diffs[i]
           \/ Contiguous /\ diffs' = AllDiffs
    PROVE  StoredInv'
<1> SUFFICES ASSUME ~May("poolWrite")
             PROVE  Contiguous' /\ \A k \in 1 .. Len(diffs') : k <= MaxHeight /\ diffDB'[k] = diffs'[k]
  BY DEF StoredInv, May
<1>1. Contiguous /\ \A k \in 1 .. Len(diffs) : k <= MaxHeight /\ diffDB[k] = diffs[k]
  BY DEF FaultsInv, StoredInv
<1>2. Contiguous'
  BY <1>1 DEF Contiguous, StoredHeights
<1>3. CASE Len(diffs') <= Len(diffs) /\ \A i \in 1 .. Len(diffs') : diffs'[i] = diffs[i]
  <2>1. Len(diffs) \in Nat /\ Len(diffs') \in Nat
    BY DEF StakeInv, PoolInv
  <2>2. \A i \in 1 .. Len(diffs') : i \in 1 .. Len(diffs)
    BY <1>3, <2>1
  <2> QED BY <1>1, <1>2, <1>3, <2>2
<1>4. CASE diffs' = AllDiffs
  <2>1. /\ Len(AllDiffs) \in 0 .. MaxHeight /\ MaxHeight \in Nat
        /\ \A k \in 1 .. Len(AllDiffs) : AllDiffs[k] = diffDB[k]
    BY <1>1, AllDiffsFacts, MaxHeightFacts DEF StakeInv, PoolInv
  <2>2. \A k \in 1 .. Len(AllDiffs) : k <= MaxHeight
    BY <2>1
  <2> QED BY <1>2, <1>4, <2>1, <2>2
<1> QED BY <1>3, <1>4

(***************************************************************************)
(* A block is disconnected from the stake node and the pool: the ticket    *)
(* cache, if it is kept, becomes that of the parent.                       *)
(***************************************************************************)
LEMMA DisconnectFaults ==
    ASSUME StakeInv, FaultsInv, Len(bestNode) > 1, ~Pending, ~Pending', status' = status,
           status # "panicked", UNCHANGED <<diffDB, faults>>,
           NEW written \in BOOLEAN, Disconnect(written), ~written => May("stakeWrite"),
           \/ status \notin {"up", "starting"}
           \/ \E lost : /\ liveTicketCache' = Undone(liveTicketCache, NodeHeight(bestNode) - 1, lost)
                        /\ lostTickets' = lostTickets \cup lost
    PROVE  FaultsInv'
<1>1. /\ TrueNode(bestNode) /\ Len(bestNode) \in Nat /\ diffs \in Seq(PoolDiff)
      /\ liveTicketCache \subseteq Tickets
  BY TipFacts DEF StakeInv, NodesInv, PoolInv
<1>2. /\ NodesInv' /\ Len(bestNode') = Len(bestNode) - 1 /\ NodeHeight(bestNode') = NodeHeight(bestNode) - 1
      /\ \A i \in 1 .. Len(bestNode') : bestNode'[i] = bestNode[i]
      /\ diffs' \in Seq(PoolDiff) /\ Len(diffs) \in Nat /\ Len(diffs') <= Len(diffs)
      /\ \A i \in 1 .. Len(diffs') : diffs'[i] = diffs[i]
      /\ Len(diffs) > NodeHeight(bestNode') => Len(diffs') = NodeHeight(bestNode')
  BY DisconnectFacts
<1>3. bestNode' = Front(bestNode) /\ (written => stakeDisk' = bestNode')
  BY DEF Disconnect
<1>4. StoredInv'
  BY <1>2, StoredPrefix
<1>5. AlignedInv'
  <2> SUFFICES ASSUME ~May("stakeWrite")
               PROVE  /\ stakeDisk' = bestNode'
                      /\ status \in {"up", "starting"} => Len(diffs') = NodeHeight(bestNode')
    BY DEF AlignedInv, May
  <2>1. status \in {"up", "starting"} => Len(diffs) = NodeHeight(bestNode)
    BY DEF FaultsInv, AlignedInv
  <2>2. NodeHeight(bestNode) \in Int
    BY <1>1 DEF NodeHeight
  <2> QED BY <1>2, <1>3, <2>1, <2>2
<1>6. AccurateInv'
  <2> SUFFICES ASSUME OnlyRPCFails
               PROVE  /\ \A k \in 1 .. Done' - 1 : diffDB'[k] = TrueDiff(bestNode'[k + 1].blk)
                      /\ status \in {"up", "starting"} =>
                            Short(liveTicketCache', lostTickets', bestNode'[Done'].live)
    BY DEF AccurateInv, OnlyRPCFails
  <2> DEFINE n == Len(bestNode)
  <2>1. Done = n /\ Done' = n - 1 /\ n \in Nat /\ n > 1
    BY <1>1, <1>2 DEF Done
  <2>2. /\ \A k \in 1 .. n - 1 : diffDB[k] = TrueDiff(bestNode[k + 1].blk)
        /\ status \in {"up", "starting"} => Short(liveTicketCache, lostTickets, bestNode[n].live)
    BY <2>1 DEF FaultsInv, AccurateInv
  <2> HIDE DEF n
  <2>3. \A k \in 1 .. (n - 1) - 1 : k \in 1 .. n - 1 /\ k + 1 \in 1 .. n - 1
    BY <2>1
  <2>4. \A i \in 1 .. n - 1 : bestNode'[i] = bestNode[i]
    BY <1>2 DEF n
  <2>5. \A k \in 1 .. Done' - 1 : diffDB'[k] = TrueDiff(bestNode'[k + 1].blk)
    BY <2>1, <2>2, <2>3, <2>4
  <2>6. ASSUME status \in {"up", "starting"}
        PROVE  Short(liveTicketCache', lostTickets', bestNode'[n - 1].live)
    <3>1. PICK lost : /\ liveTicketCache' = Undone(liveTicketCache, NodeHeight(bestNode) - 1, lost)
                      /\ lostTickets' = lostTickets \cup lost
      BY <2>6
    <3>2. Len(diffs) = NodeHeight(bestNode) /\ NodeHeight(bestNode) = n - 1
      BY <2>6, OnlyRPC DEF FaultsInv, AlignedInv, NodeHeight, n
    <3>3. n - 2 \in Nat /\ (n - 2) + 1 = Len(diffs) /\ NodeHeight(bestNode) - 1 = n - 2 /\ (n - 2) + 1 = n - 1
      BY <2>1, <3>2
    <3>4. liveTicketCache' = UndoDiff(liveTicketCache, diffs[n - 1]) \ (diffs[n - 1].Out \cap lost)
      <4> DEFINE k == n - 2
      <4>1. k \in Nat /\ k + 1 = Len(diffs) /\ k + 1 = n - 1
        BY <3>3
      <4>2. liveTicketCache' = Undone(liveTicketCache, k, lost)
        BY <3>1, <3>3
      <4> HIDE DEF k
      <4>3. Undone(liveTicketCache, k, lost)
                = UndoDiff(liveTicketCache, diffs[k + 1]) \ (diffs[k + 1].Out \cap lost)
        BY <1>1, <4>1, UndoneFacts
      <4> QED BY <4>1, <4>2, <4>3
    <3>5. Short(liveTicketCache', lostTickets', UndoDiff(bestNode[n].live, diffs[n - 1]))
      <4>1. Short(liveTicketCache, lostTickets, bestNode[n].live)
        BY <2>2, <2>6
      <4>2. Short(UndoDiff(liveTicketCache, diffs[n - 1]) \ (diffs[n - 1].Out \cap lost),
                  lostTickets \cup lost, UndoDiff(bestNode[n].live, diffs[n - 1]))
        BY <4>1, ShortFacts
      <4> QED BY <3>1, <3>4, <4>2
    <3>6. n - 1 \in 1 .. Len(diffs) /\ n - 1 \in 1 .. n - 1 /\ (n - 1) + 1 = n
      BY <2>1, <3>2
    <3>7. diffs[n - 1] = diffDB[n - 1]
      BY <3>6, OnlyRPC DEF FaultsInv, StoredInv
    <3>8. diffDB[n - 1] = TrueDiff(bestNode[n].blk)
      BY <2>2, <3>6
    <3>9. UndoDiff(bestNode[n].live, TrueDiff(bestNode[n].blk)) = bestNode[n - 1].live
      BY <1>1, TipDiff DEF Tip, n
    <3> QED BY <2>2, <2>4, <2>6, <3>5, <3>6, <3>7, <3>8, <3>9
  <2> QED BY <2>1, <2>5, <2>6
<1> QED BY <1>4, <1>5, <1>6 DEF FaultsInv

\* DisconnectBlock by a handler.
LEMMA DisconnectBlockFaults ==
    ASSUME StakeInv, FaultsInv, disconnectBlock
    PROVE  FaultsInv'
<1>1. /\ status = "up" /\ status' = status /\ job.undo > 0 /\ connected = NotConnected
      /\ connected' = NotConnected /\ UNCHANGED <<diffDB, faults>>
      /\ \E written \in BOOLEAN : Disconnect(written) /\ (~written => May("stakeWrite"))
      /\ \E lost : /\ liveTicketCache' = Undone(liveTicketCache, NodeHeight(bestNode) - 1, lost)
                   /\ lostTickets' = lostTickets \cup lost
  BY DEF disconnectBlock, UndoCache, DisconnectReady, Serving, Fail
<1>2. ~Pending /\ ~Pending'
  BY <1>1 DEF Pending
<1>3. Len(bestNode) > 1
  <2>1. job # NoJob /\ job.undo \in Nat
    BY <1>1, NoJobFacts DEF StakeInv, JobInv, GoodJob, Job
  <2>2. job.undo <= NodeHeight(bestNode) /\ Len(bestNode) \in Nat
    BY <2>1, HeadFacts, TipFacts DEF StakeInv, NodesInv
  <2> QED BY <1>1, <2>1, <2>2 DEF NodeHeight
<1> QED BY <1>1, <1>2, <1>3, OnlyRPC, DisconnectFaults

\* DisconnectBlock by RewindStakeDB.
LEMMA RewindStakeDBFaults ==
    ASSUME StakeInv, MainInv, FaultsInv, RewindStakeDB
    PROVE  FaultsInv'
<1>1. /\ status = "starting" /\ status' = status /\ Len(bestNode) > 1 /\ Disconnect(TRUE)
      /\ UNCHANGED <<diffDB, connected, faults>>
  BY RewindFacts
<1>2. \E lost : /\ liveTicketCache' = Undone(liveTicketCache, NodeHeight(bestNode) - 1, lost)
                /\ lostTickets' = lostTickets \cup lost
  BY DEF RewindStakeDB, UndoCache
<1>3. ~Pending /\ ~Pending'
  BY <1>1 DEF StakeInv, StatusInv, Pending
<1> QED BY <1>1, <1>2, <1>3, DisconnectFaults

\* DisconnectBlock by NewStakeDatabase or LoadAndRecover.
LEMMA LoadDisconnectsFaults ==
    ASSUME StakeInv, FaultsInv, LoadRollsBackNode \/ RecoverRewinds
    PROVE  FaultsInv'
<1>1. /\ status \in {"loading", "recovering"} /\ status' = status /\ Disconnect(TRUE)
      /\ UNCHANGED <<diffDB, connected, faults>>
  BY DEF LoadRollsBackNode, RecoverRewinds, LoadDisconnects
<1>2. ~Pending /\ ~Pending'
  BY <1>1 DEF StakeInv, StatusInv, Pending
<1>3. Len(bestNode) > 1
  <2>1. Len(bestNode) \in Nat /\ Len(diffs) \in Nat /\ recoverTo \in Nat
    BY TipFacts DEF StakeInv, NodesInv, PoolInv, StatusInv
  <2>2. Misfits # {} => Len(diffs) > 0
    BY MisfitFacts
  <2>3. NodeHeight(bestNode) > 0
    BY <2>1, <2>2 DEF LoadRollsBackNode, RecoverRewinds, Aligned, NodeHeight
  <2> QED BY <2>1, <2>3 DEF NodeHeight
<1> QED BY <1>1, <1>2, <1>3, DisconnectFaults

\* The other steps of the start: the databases are loaded, the pool trimmed, the cache filled.
LEMMA LoadFaults ==
    ASSUME StakeInv, FaultsInv,
           Load \/ LoadTrimsPool \/ LoadFails \/ LoadRPCFails \/ PopulateLiveTicketCache
    PROVE  FaultsInv'
<1>1. status \in {"down", "loading", "recovering"} /\ UNCHANGED <<diffDB, faults>>
  BY DEF Load, LoadTrimsPool, LoadFails, LoadRPCFails, PopulateLiveTicketCache, disk
<1>2. ~Pending'
  BY DEF Load, LoadTrimsPool, LoadFails, LoadRPCFails, PopulateLiveTicketCache, StakeInv,
     StatusInv, Pending
<1>3. \/ /\ Load
         /\ \/ bestNode' = stakeDisk /\ stakeDisk' = stakeDisk
            \/ bestNode' = GenesisNode /\ stakeDisk' = GenesisNode
         /\ \/ Contiguous /\ status' = "loading" /\ diffs' = AllDiffs
            \/ ~Contiguous /\ status' = "panicked"
      \/ /\ bestNode' = bestNode /\ stakeDisk' = stakeDisk
         /\ \/ LoadTrimsPool /\ status' = status
            \/ Contiguous /\ status' = "recovering" /\ diffs' = AllDiffs
            \/ PopulateLiveTicketCache /\ status' = "starting"
  BY DEF Load, LoadTrimsPool, LoadFails, LoadRPCFails, PopulateLiveTicketCache, StakeInv, StatusInv,
     disk
<1>4. /\ diffDB \in [1 .. MaxHeight -> PoolDiff \cup {NoDiff}] /\ diffs \in Seq(PoolDiff)
      /\ Len(diffs) \in Nat /\ TrueNode(bestNode) /\ NodeHeight(bestNode) \in Nat
      /\ Len(bestNode) \in Nat
  BY TipFacts DEF StakeInv, NodesInv, PoolInv
<1>5. StoredInv'
  <2>1. CASE Contiguous /\ status' \in {"loading", "recovering"} /\ diffs' = AllDiffs
    <3>1. diffs' \in Seq(PoolDiff)
      BY <1>4, <2>1, AllDiffsFacts
    <3> QED BY <1>1, <2>1, <3>1, StoredPrefix
  <2>2. CASE LoadTrimsPool /\ status' = status
    <3>1. diffs' = SubSeq(diffs, 1, NodeHeight(bestNode)) /\ NodeHeight(bestNode) < Len(diffs)
      BY <1>4, <2>2 DEF LoadTrimsPool, TrimTo
    <3>2. /\ diffs' \in Seq(PoolDiff) /\ Len(diffs') <= Len(diffs)
          /\ \A i \in 1 .. Len(diffs') : diffs'[i] = diffs[i]
      BY <1>4, <3>1
    <3> QED BY <1>1, <2>2, <3>2, StoredPrefix
  <2>3. CASE PopulateLiveTicketCache /\ status' = "starting"
    <3>1. diffs' = diffs
      BY <2>3 DEF PopulateLiveTicketCache
    <3> QED BY <1>1, <1>4, <2>3, <3>1, StoredPrefix
  <2>4. CASE ~Contiguous
    BY <1>1, <2>4 DEF FaultsInv, StoredInv, May
  <2> QED BY <1>3, <2>1, <2>2, <2>3, <2>4
<1>6. AlignedInv'
  <2> SUFFICES ASSUME ~May("stakeWrite")
               PROVE  /\ stakeDisk' = bestNode' /\ status' # "up"
                      /\ status' = "starting" => Len(diffs') = NodeHeight(bestNode')
    BY <1>1 DEF AlignedInv, May
  <2>1. stakeDisk = bestNode
    BY DEF FaultsInv, AlignedInv
  <2>2. PopulateLiveTicketCache => Len(diffs') = NodeHeight(bestNode')
    BY DEF PopulateLiveTicketCache, Aligned
  <2> QED BY <1>1, <1>3, <2>1, <2>2
<1>7. AccurateInv'
  <2> SUFFICES ASSUME OnlyRPCFails
               PROVE  /\ \A k \in 1 .. Done' - 1 : diffDB'[k] = TrueDiff(bestNode'[k + 1].blk)
                      /\ status' \in {"up", "starting"} =>
                            Short(liveTicketCache', lostTickets', bestNode'[Done'].live)
    BY <1>1, <1>2 DEF AccurateInv, OnlyRPCFails
  <2>1. CASE bestNode' = bestNode
    <3>1. ~Pending
      BY <1>1 DEF FaultsInv, AccurateInv
    <3>2. Done' = Done /\ Done = Len(bestNode)
      BY <1>2, <2>1, <3>1 DEF Done
    <3>3. \A k \in 1 .. Done - 1 : diffDB[k] = TrueDiff(bestNode[k + 1].blk)
      BY DEF FaultsInv, AccurateInv
    <3>4. status' \in {"up", "starting"} =>
              Short(liveTicketCache', lostTickets', bestNode[Len(bestNode)].live)
      BY <1>1, <1>3 DEF PopulateLiveTicketCache, Short
    <3> QED BY <1>1, <2>1, <3>2, <3>3, <3>4
  <2>2. CASE bestNode' = GenesisNode /\ status' \notin {"up", "starting"}
    <3>1. Done' = 1
      BY <1>2, <2>2 DEF Done, GenesisNode
    <3> QED BY <2>2, <3>1
  <2>3. stakeDisk = bestNode
    BY OnlyRPC DEF FaultsInv, AlignedInv
  <2> QED BY <1>3, <2>1, <2>2, <2>3
<1> QED BY <1>5, <1>6, <1>7 DEF FaultsInv

\* Every step preserves the invariant.
LEMMA NextFaultsInv == StakeInv /\ MainInv /\ FaultsInv /\ [Next]_vars => FaultsInv'
<1> SUFFICES ASSUME StakeInv, MainInv, FaultsInv, [Next]_vars
             PROVE  FaultsInv'
  OBVIOUS
<1>1. CASE Handler
  BY <1>1, QuietFaults, ConnectBlockFaults, PoolAppendFaults, DisconnectBlockFaults DEF Handler
<1>2. CASE Startup
  BY <1>2, QuietFaults, LoadFaults, LoadDisconnectsFaults, RewindStakeDBFaults DEF Startup
<1>3. CASE RPCFaults
  BY <1>3, QuietFaults, LoadFaults DEF RPCFaults
<1>4. CASE Crash \/ (\E b \in Block : NodeExtends(b) \/ NodeReorganizes(b)) \/ UNCHANGED vars
  BY <1>4, QuietFaults
<1> QED BY <1>1, <1>2, <1>3, <1>4 DEF Next

-----------------------------------------------------------------------------
(* MainInv: main.go and ChainDB beside the stake database.                 *)

\* Steps that give ChainDB nothing new to store.
LEMMA MainStays ==
    ASSUME MainInv, stage' \in Stages, storing' \in {storing, NoStore},
           UNCHANGED <<tables, previous, best, missed>>, lostTickets' \subseteq Tickets
    PROVE  MainInv'
<1>1. NoStore \in Store
  <2>1. <<>> \in Seq(Block)
    OBVIOUS
  <2> QED BY <2>1 DEF NoStore, Store
<1>2. storing' \in Store /\ GoodStore(storing', best')
  BY <1>1 DEF MainInv, GoodStore
<1> QED BY <1>2 DEF MainInv, tables

\* Those that do not touch ChainDB's part at all, or that end it.
LEMMA MainQuiet ==
    ASSUME MainInv,
           \/ ConnectRPCFails \/ DisconnectRPCFails \/ ConnectOld \/ ConnectNodeFails
           \/ connectBlock \/ PoolAppend \/ ReorgAborted
           \/ ConnectPanics \/ DisconnectPanics \/ StartupFails \/ Crash
           \/ PurgeFails \/ importPanics \/ SyncFails
           \/ Load \/ LoadRollsBackNode \/ LoadTrimsPool \/ LoadFails \/ LoadRPCFails
           \/ RecoverRewinds \/ PopulateLiveTicketCache
           \/ OrphanedTipLength \/ StartSync \/ SyncDone
           \/ UNCHANGED vars
    PROVE  MainInv'
<1>1. stage \in Stages /\ lostTickets \subseteq Tickets
  BY DEF MainInv
<1>2. CASE \/ ConnectRPCFails \/ DisconnectRPCFails \/ ConnectOld \/ ConnectNodeFails
           \/ connectBlock \/ PoolAppend
  <2>1. /\ Fail \/ Progress \/ UNCHANGED <<stage, storing>>
        /\ UNCHANGED <<tables, previous, best, missed, lostTickets>>
    BY <1>2 DEF ConnectRPCFails, DisconnectRPCFails, ConnectOld, ConnectNodeFails, connectBlock,
       PoolAppend, cache, node
  <2>2. stage' \in {stage, "failed"} /\ storing' \in {storing, NoStore}
    BY <2>1 DEF Fail, Progress
  <2> QED BY <1>1, <2>1, <2>2, MainStays DEF Stages
<1>3. CASE \/ ReorgAborted \/ ConnectPanics \/ DisconnectPanics \/ StartupFails \/ Crash
           \/ PurgeFails \/ importPanics \/ SyncFails
           \/ LoadRollsBackNode \/ LoadTrimsPool \/ LoadFails \/ LoadRPCFails \/ RecoverRewinds
           \/ UNCHANGED vars
  <2>1. UNCHANGED <<stage, storing, tables, previous, best, missed, lostTickets>>
    BY <1>3 DEF ReorgAborted, ConnectPanics, DisconnectPanics, StartupFails, Crash, PurgeFails,
       importPanics, SyncFails, LoadRollsBackNode, LoadTrimsPool, LoadFails, LoadRPCFails,
       RecoverRewinds, LoadDisconnects, vars, main, memory, cache, node
  <2> QED BY <1>1, <2>1, MainStays
<1>4. CASE OrphanedTipLength \/ StartSync \/ SyncDone
  <2>1. /\ stage' \in {"purge", "rewind", "import", "listen"}
        /\ UNCHANGED <<storing, tables, previous, best, missed, lostTickets>>
    BY <1>4 DEF OrphanedTipLength, StartSync, SyncDone, memory, cache, node
  <2> QED BY <1>1, <2>1, MainStays DEF Stages
<1>5. CASE PopulateLiveTicketCache
  <2>1. lostTickets' = {} /\ UNCHANGED <<stage, storing, tables, previous, best, missed>>
    BY <1>5 DEF PopulateLiveTicketCache, main, node
  <2> QED BY <1>1, <2>1, MainStays
<1>6. CASE Load
  <2>1. /\ chainDB' = chainDB /\ chainMeta' = chainMeta /\ previous' = previous /\ best' = best
        /\ stage' \in Stages /\ storing' = NoStore /\ lostTickets' = {} /\ missed' \in BOOLEAN
    BY <1>6 DEF Load, tables, Stages
  <2>2. storing' \in Store /\ GoodStore(storing', best')
    <3>1. <<>> \in Seq(Block)
      OBVIOUS
    <3> QED BY <2>1, <3>1 DEF NoStore, Store, GoodStore
  <2> QED BY <2>1, <2>2 DEF MainInv
<1> QED BY <1>2, <1>3, <1>4, <1>5, <1>6

\* Tickets that undoDiff cannot fetch are tickets.
LEMMA MainUndo ==
    ASSUME StakeInv, MainInv, disconnectBlock \/ RewindStakeDB
    PROVE  MainInv'
<1>1. /\ UndoCache
      /\ Fail \/ UNCHANGED <<stage, storing>>
      /\ UNCHANGED <<tables, previous, best, missed>>
  BY DEF disconnectBlock, RewindStakeDB, main, node
<1>2. ReAdded(NodeHeight(bestNode) - 1) \subseteq Tickets
  <2>1. Len(bestNode) \in Nat /\ Len(bestNode) >= 1 /\ diffs \in Seq(PoolDiff) /\ Len(diffs) \in Nat
    BY TipFacts DEF StakeInv, NodesInv, PoolInv
  <2>2. CASE NodeHeight(bestNode) - 1 \in Nat
    <3>1. \A i \in (NodeHeight(bestNode) - 1) + 1 .. Len(diffs) : i \in 1 .. Len(diffs)
      BY <2>1, <2>2
    <3>2. \A i \in 1 .. Len(diffs) : diffs[i] \in PoolDiff
      BY <2>1, ElementOfSeq
    <3>3. \A d \in PoolDiff : d.Out \subseteq Tickets
      BY DEF PoolDiff
    <3> QED BY <3>1, <3>2, <3>3 DEF ReAdded
  <2>3. NodeHeight(bestNode) - 1 \in Nat
    <3>1. CASE RewindStakeDB
      BY <3>1, RewindFacts
    <3>2. CASE disconnectBlock
      <4>1. job.undo > 0
        BY <3>2 DEF disconnectBlock, DisconnectReady
      <4>2. job # NoJob /\ job.undo \in Nat
        BY <4>1, NoJobFacts DEF StakeInv, JobInv, Job
      <4>3. job.undo <= NodeHeight(bestNode)
        BY <4>2, HeadFacts
      <4> QED BY <2>1, <4>1, <4>2, <4>3 DEF NodeHeight
    <3> QED BY <3>1, <3>2
  <2> QED BY <2>2, <2>3
<1>3. lostTickets' \subseteq Tickets
  BY <1>1, <1>2 DEF UndoCache, MainInv
<1>4. stage' \in Stages /\ storing' \in {storing, NoStore}
  BY <1>1 DEF Fail, MainInv, Stages
<1> QED BY <1>1, <1>3, <1>4, MainStays

\* Steps that only move ChainDB, what it is to store, or the recorded block.
LEMMA MainMoves ==
    ASSUME MainInv, stage' \in Stages, storing' \in Store, GoodStore(storing', best),
           chainDB' \in Block, chainMeta' \in Block, previous' \in Block,
           UNCHANGED <<cache, best, missed>>
    PROVE  MainInv'
  BY DEF MainInv, cache

\* A block, or the head of a reorganisation, for ChainDB after the stake database.
LEMMA MainHandlers ==
    ASSUME StakeInv, MainInv, ReorgHandler \/ importBlock \/ \E b \in Block : BlockHandler(b)
    PROVE  MainInv'
<1>1. best \in Block /\ Height(best) \in Nat /\ chainDB \in Block /\ Height(chainDB) \in Nat
  BY HeightFacts DEF StakeInv, ChainInv, MainInv
<1>2. ASSUME NEW b \in Block, NEW k \in {"block", "sync"},
             storing' = [kind |-> k, root |-> NoBlock, blocks |-> <<b>>, head |-> b]
      PROVE  storing' \in Store /\ GoodStore(storing', best)
  <2>1. <<b>> \in Seq(Block) /\ <<b>> # <<>>
    OBVIOUS
  <2> QED BY <1>2, <2>1 DEF Store, GoodStore
<1>3. CASE \E b \in Block : BlockHandler(b)
  <2>1. PICK b \in Block : BlockHandler(b)
    BY <1>3
  <2>2. /\ storing' = [kind |-> "block", root |-> NoBlock, blocks |-> <<b>>, head |-> b]
        /\ UNCHANGED <<stage, tables, previous, cache, best, missed>>
    BY <2>1 DEF BlockHandler, node
  <2> QED BY <1>2, <2>2, MainMoves DEF MainInv, tables
<1>4. CASE importBlock
  <2> DEFINE b == BlockAt(best, Height(chainDB) + 1)
  <2>1. /\ Height(chainDB) < Height(best)
        /\ storing' = [kind |-> "sync", root |-> NoBlock, blocks |-> <<b>>, head |-> b]
        /\ UNCHANGED <<stage, tables, previous, cache, best, missed>>
    BY <1>4 DEF importBlock, node
  <2>2. Height(chainDB) + 1 \in 0 .. Height(best)
    BY <1>1, <2>1
  <2>3. b \in Block
    BY <1>1, <2>2, BlockAtFacts
  <2> HIDE DEF b
  <2> QED BY <1>2, <2>1, <2>3, MainMoves DEF MainInv, tables
<1>5. CASE ReorgHandler
  <2> DEFINE r == Head(reorgQ)
             h == CommonHeight(r.new, r.old)
             root == BlockAt(r.new, h)
  <2>1. /\ reorgQ # <<>> /\ reorgQ' = Tail(reorgQ) /\ UNCHANGED <<best, announced>>
        /\ storing' = [kind |-> "reorg", root |-> root, blocks |-> <<>>, head |-> r.new]
        /\ UNCHANGED <<stage, tables, previous, cache, missed>>
    BY <1>5 DEF ReorgHandler
  <2>2. r \in [old : Block, new : Block] /\ Forks(r, best)
    BY <2>1, QueueTail
  <2> HIDE DEF r
  <2>3. /\ r.new \in Block /\ r.old \in Block /\ Height(r.old) \in Nat /\ Height(r.new) \in Nat
        /\ Height(r.old) < Height(r.new) /\ Height(r.new) <= Height(best) /\ ~OnChain(r.old, r.new)
    BY <2>2, HeightFacts DEF Forks
  <2>4. h \in 0 .. Height(r.old) - 1
    BY <2>3, ForkAncestor
  <2> HIDE DEF h
  <2>5. h \in 0 .. Height(r.new) /\ h < Height(r.new)
    BY <2>3, <2>4
  <2>6. root \in Block /\ Height(root) = h
    BY <2>3, <2>5, BlockAtFacts
  <2> HIDE DEF root
  <2>7. <<>> \in Seq(Block) /\ root # NoBlock
    BY <2>6, BoundsAssumption
  <2>8. storing' \in Store
    BY <2>1, <2>3, <2>6, <2>7 DEF Store
  <2>9. GoodStore(storing', best)
    BY <2>1, <2>3, <2>5, <2>6, <2>7 DEF GoodStore
  <2> QED BY <2>1, <2>8, <2>9, MainMoves DEF MainInv, tables
<1> QED BY <1>3, <1>4, <1>5

\* What ChainDB is to do.
LEMMA StoreFacts ==
    ASSUME MainInv, storing # NoStore
    PROVE  /\ storing.head \in Block /\ storing.blocks \in Seq(Block)
           /\ storing.root = NoBlock => storing.blocks # <<>> /\ Head(storing.blocks) \in Block
           /\ storing.root # NoBlock => /\ storing.root \in Block
                                        /\ Height(storing.root) < Height(storing.head)
                                        /\ Height(storing.head) <= Height(best)
<1>1. storing \in Store /\ GoodStore(storing, best)
  BY DEF MainInv
<1>2. storing.blocks \in Seq(Block) /\ storing.root \in Block \cup {NoBlock}
  BY <1>1 DEF Store
<1>3. storing.root = NoBlock => storing.blocks # <<>>
  BY <1>1 DEF GoodStore
<1>4. storing.blocks # <<>> => Head(storing.blocks) \in Block
  BY <1>2, HeadTailProperties, EmptySeq
<1> QED BY <1>1, <1>2, <1>3, <1>4 DEF GoodStore

\* ChainDB goes back to the root, or stores a block.
LEMMA MainStores ==
    ASSUME StakeInv, MainInv,
           TipToSideChain \/ switchToSideChain \/ StoreBlock \/ SetDBBestBlock \/ StoreFails
    PROVE  MainInv'
<1>1. /\ storing # NoStore /\ UNCHANGED <<cache, best, missed>>
      /\ chainDB \in Block /\ chainMeta \in Block /\ previous \in Block /\ stage \in Stages
      /\ storing \in Store /\ GoodStore(storing, best)
  BY DEF TipToSideChain, switchToSideChain, StoreBlock, SetDBBestBlock, StoreFails, ChainDBReady,
     memory, node, MainInv
<1>2. /\ storing.head \in Block /\ storing.blocks \in Seq(Block)
      /\ storing.root = NoBlock => storing.blocks # <<>> /\ Head(storing.blocks) \in Block
      /\ storing.root # NoBlock => /\ storing.root \in Block
                                   /\ Height(storing.root) < Height(storing.head)
                                   /\ Height(storing.head) <= Height(best)
  BY <1>1, StoreFacts
<1>3. /\ best \in Block /\ Height(best) \in Nat /\ Height(chainDB) \in Nat
      /\ Height(storing.head) \in Nat
      /\ storing.root # NoBlock => Height(storing.root) \in Nat
  BY <1>1, <1>2, HeightFacts DEF StakeInv, ChainInv
<1>4. CASE TipToSideChain
  <2>1. /\ storing.root # NoBlock /\ Height(chainDB) > Height(storing.root)
        /\ chainDB' = Parent[chainDB] /\ UNCHANGED <<stage, storing, chainMeta, previous>>
    BY <1>4 DEF TipToSideChain
  <2>2. chainDB # Genesis
    BY <1>3, <2>1, HeightFacts
  <2>3. chainDB' \in Block
    BY <1>1, <2>1, <2>2, HeightFacts
  <2> QED BY <1>1, <2>1, <2>3, MainMoves
<1>5. CASE StoreBlock
  <2>1. /\ storing.root = NoBlock /\ chainDB' = Head(storing.blocks)
        /\ UNCHANGED <<stage, storing, chainMeta, previous>>
    BY <1>5 DEF StoreBlock
  <2> QED BY <1>1, <1>2, <2>1, MainMoves
<1>6. CASE SetDBBestBlock
  <2> DEFINE bs == storing.blocks
  <2>1. /\ storing.root = NoBlock /\ chainMeta' = chainDB /\ UNCHANGED <<stage, chainDB>>
        /\ storing' = IF Len(bs) = 1 THEN NoStore ELSE [storing EXCEPT !.blocks = Tail(bs)]
        /\ previous' \in {storing.head, previous}
    BY <1>6 DEF SetDBBestBlock
  <2>2. Tail(bs) \in Seq(Block) /\ (Len(bs) # 1 => Tail(bs) # <<>>)
    <3>1. bs \in Seq(Block) /\ bs # <<>>
      BY <1>2, <2>1
    <3> HIDE DEF bs
    <3>2. Tail(bs) \in Seq(Block) /\ Len(Tail(bs)) = Len(bs) - 1 /\ Len(bs) \in Nat
      BY <3>1, HeadTailProperties, EmptySeq
    <3>3. Tail(bs) = <<>> => Len(Tail(bs)) = 0
      BY <3>2, EmptySeq
    <3> QED BY <3>2, <3>3
  <2> HIDE DEF bs
  <2>3. NoStore \in Store
    <3>1. <<>> \in Seq(Block)
      OBVIOUS
    <3> QED BY <3>1 DEF NoStore, Store
  <2>4. storing' \in Store /\ GoodStore(storing', best)
    <3>1. CASE Len(bs) = 1
      BY <2>1, <2>3, <3>1 DEF GoodStore
    <3>2. CASE Len(bs) # 1
      <4>1. storing' = [storing EXCEPT !.blocks = Tail(bs)]
        BY <2>1, <3>2
      <4>2. storing' \in Store /\ storing'.head = storing.head /\ storing'.root = NoBlock
            /\ storing'.blocks = Tail(bs)
        BY <1>1, <2>1, <2>2, <4>1 DEF Store
      <4> QED BY <1>2, <2>2, <3>2, <4>2 DEF GoodStore
    <3> QED BY <3>1, <3>2
  <2> QED BY <1>1, <1>2, <2>1, <2>4, MainMoves
<1>7. CASE StoreFails
  <2>1. /\ storing' = NoStore /\ stage' \in {"failed", stage} /\ previous' \in {storing.head, previous}
        /\ UNCHANGED tables
    BY <1>7 DEF StoreFails
  <2>2. NoStore \in Store
    <3>1. <<>> \in Seq(Block)
      OBVIOUS
    <3> QED BY <3>1 DEF NoStore, Store
  <2> QED BY <1>1, <1>2, <2>1, <2>2, MainMoves DEF GoodStore, Stages, tables
<1>8. CASE switchToSideChain
  <2> DEFINE h == Height(storing.root)
             c == Chain[best]
             missing == SubSeq(c, Height(chainDB) + 2, h + 1)
             above == BlocksAbove(storing.head, h)
             bs == missing \o above
  <2>1. /\ storing.root # NoBlock /\ UNCHANGED <<stage, tables, previous>>
        /\ storing' = [storing EXCEPT !.root = NoBlock, !.blocks = bs]
    BY <1>8 DEF switchToSideChain
  <2>2. h \in 0 .. Height(storing.head) /\ h < Height(storing.head) /\ h <= Height(best) /\ h \in Nat
    BY <1>2, <1>3, <2>1
  <2>3. above \in Seq(Block) /\ Len(above) = Height(storing.head) - h
    BY <1>2, <2>2, BlocksAboveFacts
  <2>4. c \in Seq(Block) /\ Len(c) = Height(best) + 1
    BY <1>3, ChainEquation, HeightFacts
  <2> HIDE DEF c, h
  <2>5. missing \in Seq(Block)
    BY <1>3, <2>2, <2>4
  <2> HIDE DEF missing, above
  <2>6. bs \in Seq(Block) /\ Len(bs) = Len(missing) + Len(above) /\ Len(missing) \in Nat
    BY <2>3, <2>5, ConcatProperties, LenProperties
  <2> HIDE DEF bs
  <2>7. bs # <<>>
    BY <1>3, <2>2, <2>3, <2>6
  <2>8. storing' \in Store /\ storing'.head = storing.head /\ storing'.root = NoBlock
        /\ storing'.blocks = bs
    BY <1>1, <2>1, <2>6 DEF Store
  <2>9. GoodStore(storing', best)
    BY <1>2, <2>7, <2>8 DEF GoodStore
  <2> QED BY <1>1, <2>1, <2>8, <2>9, MainMoves DEF tables
<1> QED BY <1>4, <1>5, <1>6, <1>7, <1>8

\* The start repairs and purges ChainDB, and sets the recorded block.
LEMMA MainStarts ==
    ASSUME StakeInv, MainInv, NewChainDB \/ DeleteBestBlock \/ Listen
    PROVE  MainInv'
<1>1. /\ chainDB \in Block /\ chainMeta \in Block /\ previous \in Block /\ stage \in Stages
      /\ storing \in Store /\ GoodStore(storing, best)
      /\ Height(chainDB) \in Nat /\ Height(chainMeta) \in Nat
  BY HeightFacts DEF MainInv
<1>2. CASE NewChainDB
  <2>1. /\ chainDB' = BlockAt(chainDB, RepairedHeight) /\ chainMeta' = chainDB'
        /\ UNCHANGED <<stage, storing, previous, cache, best, missed>>
    BY <1>2 DEF NewChainDB, memory, node
  <2>2. RepairedHeight \in 0 .. Height(chainDB)
    <3>1. chainDB # Genesis => Height(chainDB) > 0
      BY <1>1, HeightFacts
    <3>2. CASE chainDB = Genesis
      BY <1>1, <3>2 DEF RepairedHeight
    <3>3. CASE chainDB # Genesis /\ Height(chainMeta) < Height(chainDB)
      BY <1>1, <3>3 DEF RepairedHeight
    <3>4. CASE chainDB # Genesis /\ ~(Height(chainMeta) < Height(chainDB))
      <4>1. RepairedHeight = Height(chainDB) - 1
        BY <3>4 DEF RepairedHeight
      <4> QED BY <1>1, <3>1, <3>4, <4>1
    <3> QED BY <3>2, <3>3, <3>4
  <2>3. chainDB' \in Block
    BY <1>1, <2>1, <2>2, BlockAtFacts
  <2> QED BY <1>1, <2>1, <2>3, MainMoves
<1>3. CASE DeleteBestBlock
  <2>1. /\ Height(chainDB) > recoverTo /\ chainDB' = Parent[chainDB] /\ chainMeta' = Parent[chainDB]
        /\ UNCHANGED <<stage, storing, previous, cache, best, missed>>
    BY <1>3 DEF DeleteBestBlock, memory, node
  <2>2. recoverTo \in Nat
    BY DEF StakeInv, StatusInv
  <2>3. chainDB # Genesis
    BY <1>1, <2>1, <2>2, HeightFacts
  <2>4. Parent[chainDB] \in Block
    BY <1>1, <2>3, HeightFacts
  <2> QED BY <1>1, <2>1, <2>4, MainMoves
<1>4. CASE Listen
  <2>1. /\ previous' = chainDB /\ stage' = "live" /\ UNCHANGED <<storing, tables, cache, best, missed>>
    BY <1>4 DEF Listen, memory, node
  <2> QED BY <1>1, <2>1, MainMoves DEF Stages, tables
<1> QED BY <1>2, <1>3, <1>4

\* dcrd moves on to a higher block.
LEMMA MainAnnounce ==
    ASSUME StakeInv, MainInv, NEW b \in Block, NodeExtends(b) \/ NodeReorganizes(b)
    PROVE  MainInv'
<1>1. best \in Block /\ Height(best) \in Nat /\ Height(b) \in Nat
  BY HeightFacts DEF StakeInv, ChainInv
<1>2. Height(best) < Height(b)
  <2>1. CASE NodeExtends(b)
    <3>1. b # Genesis /\ Parent[b] = best
      BY <2>1 DEF NodeExtends
    <3> QED BY <3>1, HeightFacts
  <2>2. CASE NodeReorganizes(b)
    BY <1>1, <2>2 DEF NodeReorganizes
  <2> QED BY <2>1, <2>2
<1>3. best' = b /\ missed' \in BOOLEAN /\ UNCHANGED <<stage, storing, chainDB, chainMeta, previous, lostTickets>>
  <2>1. Announce(b) /\ UNCHANGED <<memory, main>>
    BY DEF NodeExtends, NodeReorganizes
  <2>2. best' = b /\ missed' \in BOOLEAN
    BY <2>1 DEF Announce, MainInv
  <2> QED BY <2>1, <2>2 DEF memory, cache, main, tables
<1>4. GoodStore(storing, b)
  <2>1. CASE storing = NoStore
    BY <2>1 DEF GoodStore
  <2>2. CASE storing # NoStore
    <3>1. storing.head \in Block /\ GoodStore(storing, best)
      BY <2>2, StoreFacts DEF MainInv
    <3>2. Height(storing.head) \in Nat
      BY <3>1, HeightFacts
    <3>3. Height(storing.head) <= Height(best) => Height(storing.head) <= Height(b)
      BY <1>1, <1>2, <3>2
    <3> QED BY <2>2, <3>1, <3>3 DEF GoodStore
  <2> QED BY <2>1, <2>2
<1> QED BY <1>3, <1>4 DEF MainInv

\* A new database.
LEMMA InitMainInv == Init => MainInv
<1> SUFFICES ASSUME Init
             PROVE  MainInv
  OBVIOUS
<1>1. <<>> \in Seq(Block)
  OBVIOUS
<1>2. storing \in Store /\ GoodStore(storing, best)
  BY <1>1 DEF Init, NoStore, Store, GoodStore
<1> QED BY <1>2, GenesisAssumption DEF Init, MainInv, Stages

\* Every step preserves it.
LEMMA NextMainInv == StakeInv /\ MainInv /\ [Next]_vars => MainInv'
<1> SUFFICES ASSUME StakeInv, MainInv, [Next]_vars
             PROVE  MainInv'
  OBVIOUS
<1>1. CASE Handler
  BY <1>1, MainQuiet, MainUndo, MainHandlers, MainStores DEF Handler
<1>2. CASE Startup
  BY <1>2, MainQuiet, MainUndo, MainHandlers, MainStarts DEF Startup
<1>3. CASE RPCFaults
  BY <1>3, MainQuiet, MainStores DEF RPCFaults
<1>4. CASE Crash \/ UNCHANGED vars
  BY <1>4, MainQuiet
<1>5. CASE \E b \in Block : NodeExtends(b) \/ NodeReorganizes(b)
  BY <1>5, MainAnnounce
<1> QED BY <1>1, <1>2, <1>3, <1>4, <1>5 DEF Next

\* The induction.
LEMMA Invariance == Spec => []StakeInv /\ []MainInv /\ []FaultsInv
<1>1. Init => StakeInv /\ MainInv /\ FaultsInv
  BY InitStakeInv, InitMainInv, InitFaultsInv
<1>2. StakeInv /\ MainInv /\ FaultsInv /\ [Next]_vars => StakeInv' /\ MainInv' /\ FaultsInv'
  BY NextStakeInv, NextMainInv, NextFaultsInv
<1> QED BY <1>1, <1>2, PTL DEF Spec

-----------------------------------------------------------------------------
(* The theorems.                                                           *)

\* Every variable keeps its type: in particular the stake node is never undone
\* below the genesis block, and heights stay within dcrd's.
THEOREM TypeCorrect == Spec => []TypeOK
<1>1. StakeInv /\ MainInv => TypeOK
  <2> SUFFICES ASSUME StakeInv, MainInv
               PROVE  TypeOK
    OBVIOUS
  <2>1. bestNode \in Seq(NodeEntry) /\ bestNode # <<>> /\ stakeDisk \in Seq(NodeEntry) /\ stakeDisk # <<>>
    BY DEF StakeInv, NodesInv, TrueNode
  <2>2. job \in Job /\ connected \in [blk : Block \cup {NoBlock}, diff : PoolDiff]
    BY DEF StakeInv, JobInv
  <2>3. /\ diffs \in Seq(PoolDiff) /\ diffDB \in [1 .. MaxHeight -> PoolDiff \cup {NoDiff}]
        /\ liveTicketCache \subseteq Tickets
        /\ blockCache \in [0 .. MaxHeight -> Block \cup {NoBlock}]
    BY DEF StakeInv, PoolInv, CacheInv
  <2>4. /\ best \in Block /\ announced \subseteq Block
        /\ reorgQ \in Seq([old : Block, new : Block])
    BY DEF StakeInv, ChainInv
  <2>5. /\ status \in {"up", "down", "loading", "recovering", "starting", "panicked"}
        /\ recoverTo \in 0 .. MaxHeight /\ crashes \in 0 .. MaxCrashes
    BY DEF StakeInv, StatusInv
  <2>6. /\ stage \in Stages /\ storing \in Store /\ chainDB \in Block /\ chainMeta \in Block
        /\ previous \in Block /\ lostTickets \subseteq Tickets /\ missed \in BOOLEAN
    BY DEF MainInv
  <2> QED BY <2>1, <2>2, <2>3, <2>4, <2>5, <2>6 DEF TypeOK, Job, Stages, Store
<1> QED BY <1>1, Invariance, PTL

(***************************************************************************)
(* The blocks of the stake node are a chain of dcrd's tree and the live    *)
(* tickets at each height are those of that chain: the maturing block,     *)
(* which ConnectBlock looks up by height in a cache that also takes        *)
(* refused blocks or asks of a node that has moved on, is always the right *)
(* one, whatever fails and wherever the process crashes.                   *)
(***************************************************************************)
THEOREM StakeNodeStaysTrue == Spec => []StakeNodeIsTrue
<1>1. StakeInv => StakeNodeIsTrue
  <2> SUFFICES ASSUME StakeInv
               PROVE  /\ \A i \in 1 .. Len(bestNode) : bestNode[i].live = LiveAt[bestNode[i].blk]
                      /\ Chain[Tip(bestNode)] = [i \in 1 .. Len(bestNode) |-> bestNode[i].blk]
    BY DEF StakeNodeIsTrue
  <2>1. TrueNode(bestNode)
    BY DEF StakeInv, NodesInv
  <2> DEFINE t == Tip(bestNode)
             n == Len(bestNode)
             c == [i \in 1 .. n |-> bestNode[i].blk]
  <2>2. t \in Block /\ n \in Nat /\ n = Height(t) + 1 /\ \A i \in 1 .. n : bestNode[i].blk \in Block
    BY <2>1, TipFacts DEF TrueNode
  <2>3. Chain[t] \in Seq(Block) /\ Len(Chain[t]) = n
    BY <2>2, ChainEquation, HeightFacts
  <2>4. \A i \in 1 .. n : bestNode[i].blk = Chain[t][i]
    <3>1. \A i \in 1 .. n : bestNode[i].blk = BlockAt(t, i - 1) /\ (i - 1) + 1 = i
      BY <2>1 DEF TrueNode
    <3> QED BY <3>1 DEF BlockAt
  <2>5. c \in Seq(Block) /\ Len(c) = n /\ \A i \in 1 .. n : c[i] = bestNode[i].blk
    BY <2>2
  <2> HIDE DEF c
  <2>6. Chain[t] = c
    BY <2>3, <2>4, <2>5, SeqEqual
  <2> QED BY <2>1, <2>6 DEF TrueNode, c
<1> QED BY <1>1, Invariance, PTL

\* No handler is running: the two halves of ConnectBlock are done.
LEMMA IdleFacts == Idle => status = "up" /\ ~Pending
  BY DEF Idle, Serving, Pending

\* Crashes only, or RPC failures only: no write fails.
LEMMA WritesSucceed == OnlyCrashes \/ OnlyRPCFails => ~May("poolWrite") /\ ~May("stakeWrite")
<1>1. OnlyCrashes => \A f \in faults : f = "crash"
  BY DEF OnlyCrashes
<1>2. OnlyCrashes => ~May("poolWrite") /\ ~May("stakeWrite")
  BY <1>1 DEF May
<1> QED BY <1>2, OnlyRPC

(***************************************************************************)
(* Between handler calls the next diff is one that Append accepts: the     *)
(* two databases are at the same height, after any number of crashes, or   *)
(* of RPC failures, at any step.                                           *)
(***************************************************************************)
THEOREM HeightsAlwaysAgree == Spec => []HeightsAgree
<1>1. FaultsInv => HeightsAgree
  BY IdleFacts, WritesSucceed DEF FaultsInv, AlignedInv, HeightsAgree
<1> QED BY <1>1, Invariance, PTL

\* LoadAllPoolDiffs never finds a gap between the keys, wherever a crash cut
\* ConnectBlock, DisconnectBlock or the recovery off.
THEOREM PoolDBNeverPanics == Spec => []PoolDBLoads
<1>1. FaultsInv => PoolDBLoads
  BY WritesSucceed DEF FaultsInv, StoredInv, PoolDBLoads
<1> QED BY <1>1, Invariance, PTL

\* Between handler calls what is in memory is what is on disk.
THEOREM DiskIsAlwaysCurrent == Spec => []DiskIsCurrent
<1>1. FaultsInv => DiskIsCurrent
  BY WritesSucceed DEF FaultsInv, StoredInv, AlignedInv, DiskIsCurrent
<1> QED BY <1>1, Invariance, PTL

(***************************************************************************)
(* Whatever call to dcrd fails, and after any restart, the ticket cache    *)
(* has live tickets only, and of those it lacks only tickets that undoDiff *)
(* could not fetch since the cache was last filled: connecting blocks,     *)
(* reorganisations and the rewinds of the start lose and add nothing else. *)
(***************************************************************************)
THEOREM CacheStaysAccurate == Spec => []TicketCacheIsAccurate
<1>1. FaultsInv => TicketCacheIsAccurate
  BY IdleFacts DEF FaultsInv, AccurateInv, Done, Short, TicketCacheIsAccurate
<1> QED BY <1>1, Invariance, PTL

\* PoolAt, whose definition is recursive, is the live set where each diff makes
\* the live set at its height of the one below.
LEMMA PoolAtFacts ==
    ASSUME NEW ds, NEW h \in Nat, NEW live, live[0] = {},
           \A i \in 1 .. h : live[i] = ApplyDiff(live[i - 1], ds[i])
    PROVE  PoolAt(ds, h) = live[h]
<1> DEFINE I == 0 .. h
           Val(f, i) == IF i = 0 THEN {} ELSE ApplyDiff(f[i - 1], ds[i])
           Eqn(f) == f = [i \in I |-> Val(f, i)]
           G == [i \in I |-> live[i]]
           pool == CHOOSE f : Eqn(f)
<1>1. PoolAt(ds, h) = pool[h]
  BY DEF PoolAt
<1>2. \A i \in I : i = 0 \/ (i # 0 /\ i \in 1 .. h /\ i - 1 \in I)
  OBVIOUS
<1>3. Eqn(G)
  <2>1. \A i \in I : G[i] = live[i]
    OBVIOUS
  <2>2. \A i \in I : live[i] = Val(G, i)
    BY <1>2, <2>1
  <2>3. [i \in I |-> live[i]] = [i \in I |-> Val(G, i)]
    BY <2>2
  <2> QED BY <2>3
<1>4. Eqn(pool)
  <2> HIDE DEF Eqn, G
  <2> QED BY <1>3
<1> HIDE DEF pool
<1>5. \A i \in I : pool[i] = Val(pool, i)
  BY <1>4
<1>6. \A i \in I : pool[i] = live[i]
  <2> DEFINE S == {i \in I : pool[i] # live[i]}
  <2> SUFFICES ASSUME S # {}
               PROVE  FALSE
    OBVIOUS
  <2>0. S \in SUBSET Nat
    OBVIOUS
  <2>1. PICK m \in S : \A k \in S : m <= k
    <3> HIDE DEF S
    <3> QED BY <2>0, NatBounds
  <2>2. m \in I /\ pool[m] # live[m]
    BY <2>1
  <2>3. m # 0
    BY <1>5, <2>2
  <2>4. m \in 1 .. h /\ m - 1 \in I /\ ~(m <= m - 1)
    BY <2>2, <2>3
  <2>5. pool[m - 1] = live[m - 1]
    BY <2>1, <2>4
  <2>6. pool[m] = ApplyDiff(pool[m - 1], ds[m])
    BY <1>5, <2>2, <2>3
  <2> QED BY <2>2, <2>4, <2>5, <2>6
<1> QED BY <1>1, <1>6

(***************************************************************************)
(* As long as only calls to dcrd fail, the ticket pool has the diff of     *)
(* every block, and Pool(h) is the live set of the stake node at h, for    *)
(* every height h, through reorganisations, panics and restarts.           *)
(***************************************************************************)
THEOREM PoolFollowsStakeNode == Spec => []PoolTracksStakeNode
<1>1. StakeInv /\ FaultsInv => PoolTracksStakeNode
  <2> SUFFICES ASSUME StakeInv, FaultsInv, OnlyRPCFails, Idle
               PROVE  /\ Len(diffs) = NodeHeight(bestNode)
                      /\ \A h \in 0 .. Len(diffs) : PoolAt(diffs, h) = bestNode[h + 1].live
    BY DEF PoolTracksStakeNode, PoolMatchesStakeNode
  <2> DEFINE n == Len(bestNode)
             live == [i \in 0 .. n - 1 |-> bestNode[i + 1].live]
  <2>1. Len(diffs) = NodeHeight(bestNode) /\ Len(diffs) = n - 1
    BY IdleFacts, WritesSucceed DEF FaultsInv, AlignedInv, NodeHeight
  <2>2. TrueNode(bestNode) /\ n \in Nat /\ n >= 1
    BY TipFacts DEF StakeInv, NodesInv
  <2>3. \A i \in 1 .. n : bestNode[i].blk \in Block /\ bestNode[i].live = LiveAt[bestNode[i].blk]
    BY <2>2, TipFacts DEF TrueNode
  <2>4. Done = n
    BY IdleFacts DEF Done
  <2>5. \A i \in 1 .. n - 1 : diffs[i] = TrueDiff(bestNode[i + 1].blk)
    BY <2>1, <2>4, WritesSucceed DEF FaultsInv, StoredInv, AccurateInv
  <2>6. \A i \in 1 .. n : bestNode[i].blk = BlockAt(Tip(bestNode), i - 1)
    BY <2>2 DEF TrueNode
  <2>7. Tip(bestNode) \in Block /\ Height(Tip(bestNode)) = n - 1
    BY <2>2, TipFacts DEF NodeHeight
  <2> HIDE DEF n
  <2>8. bestNode[1].blk = Genesis
    <3>1. 1 \in 1 .. n /\ 0 \in 0 .. n - 1
      BY <2>2
    <3>2. bestNode[1].blk \in Block /\ Height(bestNode[1].blk) = 0
      BY <2>6, <2>7, <3>1, BlockAtFacts
    <3> QED BY <3>2, HeightFacts
  <2>9. \A i \in 1 .. n - 1 : bestNode[i + 1].live = ApplyDiff(bestNode[i].live, diffs[i])
    <3> SUFFICES ASSUME NEW i \in 1 .. n - 1
                 PROVE  bestNode[i + 1].live = ApplyDiff(bestNode[i].live, diffs[i])
      OBVIOUS
    <3>1. i \in 1 .. n /\ i + 1 \in 1 .. n /\ i \in 0 .. n - 1 /\ i - 1 \in 0 .. n - 1 /\ (i + 1) - 1 = i
      BY <2>2
    <3> DEFINE b == bestNode[i + 1].blk
               p == bestNode[i].blk
    <3>2. b = BlockAt(Tip(bestNode), i) /\ p = BlockAt(Tip(bestNode), i - 1)
      BY <2>6, <3>1
    <3>3. b \in Block /\ Height(b) = i
      BY <2>7, <3>1, <3>2, BlockAtFacts
    <3>4. b # Genesis /\ i - 1 \in 0 .. i /\ i - 1 \in 0 .. Height(b) - 1
      BY <3>3, HeightFacts
    <3>5. BlockAt(b, i - 1) = p
      BY <2>7, <3>1, <3>2, <3>4, BlockAtFacts
    <3>6. BlockAt(b, i - 1) = BlockAt(Parent[b], i - 1)
      BY <3>3, <3>4, BlockAtTop
    <3>7. Parent[b] \in Block /\ Height(Parent[b]) = i - 1
      BY <3>3, <3>4, HeightFacts
    <3>8. p = Parent[b]
      BY <3>5, <3>6, <3>7, BlockAtTop
    <3>9. LiveAt[b] = ApplyDiff(LiveAt[p], TrueDiff(b))
      BY <3>3, <3>4, <3>8, LiveEquation
    <3> QED BY <2>3, <2>5, <3>1, <3>9
  <2>10. /\ live[0] = {}
         /\ \A i \in 1 .. n - 1 : live[i] = ApplyDiff(live[i - 1], diffs[i])
         /\ \A i \in 0 .. n - 1 : live[i] = bestNode[i + 1].live
    <3>1. \A i \in 0 .. n - 1 : live[i] = bestNode[i + 1].live
      OBVIOUS
    <3>2. 0 \in 0 .. n - 1 /\ 1 \in 1 .. n
      BY <2>2
    <3>3. live[0] = {}
      BY <2>3, <2>8, <3>1, <3>2, LiveEquation
    <3>4. \A i \in 1 .. n - 1 : i \in 0 .. n - 1 /\ i - 1 \in 0 .. n - 1 /\ (i - 1) + 1 = i
      BY <2>2
    <3> HIDE DEF live
    <3> QED BY <2>9, <3>1, <3>3, <3>4
  <2> HIDE DEF live
  <2>11. ASSUME NEW h \in 0 .. Len(diffs)
         PROVE  PoolAt(diffs, h) = bestNode[h + 1].live
    <3>1. h \in Nat /\ h \in 0 .. n - 1 /\ \A i \in 1 .. h : i \in 1 .. n - 1
      BY <2>1, <2>2
    <3>2. PoolAt(diffs, h) = live[h]
      BY <2>10, <3>1, PoolAtFacts
    <3> QED BY <2>10, <3>1, <3>2
  <2> QED BY <2>1, <2>11
<1> QED BY <1>1, Invariance, PTL
=============================================================================
