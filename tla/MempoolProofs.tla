---------------------------- MODULE MempoolProofs ---------------------------
(***************************************************************************)
(* Proofs about Mempool, for any transactions, votes and blocks, any       *)
(* failures and any interleaving of dcrd with the handlers and lookups.    *)
(***************************************************************************)
EXTENDS Mempool, FiniteSetTheorems, TLAPS

(***************************************************************************)
(* The inductive invariant, in parts.  First, a transaction is announced   *)
(* by dcrd once: as long as it waits in the queue, or TxHandler is between *)
(* its two stores, it has not been broadcast.                              *)
(***************************************************************************)
PendingOnce ==
    /\ \A i \in 1 .. Len(queue) : queue[i].tx \in Tx =>
          /\ queue[i].tx \in seen
          /\ told[queue[i].tx] = 0
          /\ queue[i].tx # work.tx
          /\ \A j \in 1 .. Len(queue) : queue[j].tx = queue[i].tx => j = i
    /\ work.at = "signal" =>
          /\ work.tx \in seen
          /\ told[work.tx] = 0
          /\ work.tx \notin inventory.txs
    /\ work.at # "signal" => work.tx = "none"
    /\ \A t \in Tx : told[t] > 0 => t \in seen

\* What clients were told is in the inventory, and what is in the inventory they
\* were told of, except while Refresh replaces it.
ShownIsInventory ==
    work.at # "address" =>
        /\ shown \subseteq inventory.txs
        /\ \A t \in inventory.txs : t \in shown \/ told[t] > 0

Finite == IsFiniteSet(inventory.txs) /\ IsFiniteSet(pool) /\ IsFiniteSet(work.txs)

BlockComing == \E i \in 1 .. Len(queue) : queue[i] = BlockMsg

\* A transaction that was mined while it waited has the block behind it in the
\* queue, and votes are on blocks dcrd has.
BlocksFollow ==
    /\ \A i \in 1 .. Len(queue) :
          /\ queue[i].tx \in Tx \ pool =>
                \E j \in 1 .. Len(queue) : j > i /\ queue[j] = BlockMsg
          /\ queue[i].tx \in Vote => VoteOn[queue[i].tx] <= tip
    /\ work.at = "signal" =>
          /\ work.tx \notin pool => BlockComing
          /\ work.tx \in Vote => VoteOn[work.tx] <= tip

\* Transactions that are not in S yet, and will not be ignored when last is the
\* last block.
WillArrive(t, last) ==
    \/ work.tx = t
    \/ \E i \in 1 .. Len(queue) : queue[i].tx = t /\ queue[i].time >= blockTime[last]

\* S is the mempool as of block last, up to what is still in the queue and what
\* the collection skipped.
Follows(S, last) ==
    /\ last < tip => BlockComing
    /\ \A t \in S \ pool : BlockComing
    /\ \A t \in pool \ S : BlockComing \/ WillArrive(t, last) \/ t \in skipped

HeadersInPast == \A b \in 0 .. tip : blockTime[b] <= now

PoolFollowed ==
    ~scenario.skewed =>
        /\ HeadersInPast
        /\ (work.at = "address" \/ (work.at \in {"idle", "signal"} /\ refreshed)) =>
              Follows(inventory.txs, lastBlock)
        /\ work.at = "collect" /\ work.best < tip => BlockComing
        /\ work.at = "parse" => Follows(work.txs, work.best)

MempoolInv ==
    TypeOK /\ PendingOnce /\ ShownIsInventory /\ Finite /\ VotesCountOnce
           /\ BlocksFollow /\ PoolFollowed

-----------------------------------------------------------------------------
(* The counts.                                                             *)

\* VotesCountOnce, of any inventory.
VotesOn(S, last) == {v \in S \cap Vote : VoteOn[v] = last}
Sure(inv) == Cardinality(inv.txs \ (Vote \cup TSpend)) + Cardinality(inv.voted)

Counted(inv, last) ==
    /\ inv.voted = {Ticket[v] : v \in VotesOn(inv.txs, last)}
    /\ inv.count = Cardinality(inv.txs)
    /\ inv.likely \in Sure(inv) .. (Sure(inv) + Cardinality(inv.txs \cap TSpend))

\* VotesCountOnce is Counted, of the inventory and the last block.
LEMMA CountedInventory == VotesCountOnce <=> Counted(inventory, lastBlock)
BY DEF VotesCountOnce, Counted, VotesOn, Sure

\* The tickets of finitely many votes are finitely many.
LEMMA TicketsFinite ==
    ASSUME NEW S, IsFiniteSet(S)
    PROVE  IsFiniteSet({Ticket[v] : v \in S})
<1> DEFINE T == {Ticket[v] : v \in S}
           f == [v \in S |-> Ticket[v]]
<1>1. f \in Surjection(S, T)
  BY DEF Surjection
<1> QED BY <1>1, FS_Surjection

\* The parts of a finite inventory that are counted.
LEMMA PartsFinite ==
    ASSUME NEW S, NEW last, IsFiniteSet(S)
    PROVE  /\ IsFiniteSet(S \ (Vote \cup TSpend)) /\ Cardinality(S \ (Vote \cup TSpend)) \in Nat
           /\ IsFiniteSet(S \cap TSpend) /\ Cardinality(S \cap TSpend) \in Nat
           /\ IsFiniteSet({Ticket[v] : v \in VotesOn(S, last)})
           /\ Cardinality({Ticket[v] : v \in VotesOn(S, last)}) \in Nat
           /\ Cardinality(S) \in Nat
<1>1. /\ S \ (Vote \cup TSpend) \in SUBSET S /\ S \cap TSpend \in SUBSET S
      /\ VotesOn(S, last) \in SUBSET S
  BY DEF VotesOn
<1>2. IsFiniteSet(S \ (Vote \cup TSpend)) /\ IsFiniteSet(S \cap TSpend) /\ IsFiniteSet(VotesOn(S, last))
  BY <1>1, FS_Subset
<1>3. IsFiniteSet({Ticket[v] : v \in VotesOn(S, last)})
  BY <1>2, TicketsFinite
<1> QED BY <1>2, <1>3, FS_CardinalityType

\* ParseTxns counts every ticket once, and all treasury spends.
LEMMA ParseCounts ==
    ASSUME NEW S \in SUBSET Tx, NEW last, IsFiniteSet(S)
    PROVE  Counted(ParseTxns(S, last), last) /\ ParseTxns(S, last) \in Inventory
<1> DEFINE inv == ParseTxns(S, last)
           K == {Ticket[v] : v \in VotesOn(S, last)}
           R == S \ (Vote \cup TSpend)
           P == S \cap TSpend
<1>1. /\ inv.txs = S /\ inv.voted = K /\ inv.count = Cardinality(S)
      /\ inv.likely = Cardinality(S \ Vote) + Cardinality(K)
      /\ inv = [txs |-> S, voted |-> K, count |-> inv.count, likely |-> inv.likely]
  BY DEF ParseTxns, VotesOn
<1>2. IsFiniteSet(R) /\ IsFiniteSet(P) /\ Cardinality(R) \in Nat /\ Cardinality(P) \in Nat
      /\ Cardinality(K) \in Nat /\ Cardinality(S) \in Nat
  BY PartsFinite
<1>3. R \cup P = S \ Vote /\ R \cap P = {}
  BY KindsAssumption
<1>4. Cardinality(S \ Vote) = Cardinality(R) + Cardinality(P)
  <2>1. Cardinality(R \cup P) = Cardinality(R) + Cardinality(P) - Cardinality(R \cap P)
    BY <1>2, FS_Union
  <2>2. Cardinality(R \cap P) = 0
    BY <1>3, FS_EmptySet
  <2>3. Cardinality(R \cup P) = Cardinality(S \ Vote)
    BY <1>3
  <2> HIDE DEF R, P
  <2> QED BY <2>1, <2>2, <2>3, <1>2
<1>5. Counted(inv, last)
  BY <1>1, <1>2, <1>4 DEF Counted, Sure
<1>6. K \in SUBSET Range(Ticket)
  BY VotesAreOnBlocks DEF VotesOn, Range
<1>7. inv \in Inventory
  BY <1>1, <1>2, <1>4, <1>6 DEF Inventory
<1> QED BY <1>5, <1>7

\* TxHandler counts a transaction that is not in the inventory as ParseTxns
\* does, apart from treasury spends.
LEMMA AddCounts ==
    ASSUME NEW inv \in Inventory, NEW t \in Tx \ inv.txs, NEW last,
           IsFiniteSet(inv.txs), Counted(inv, last)
    PROVE  /\ Counted(Add(inv, t, last), last)
           /\ Add(inv, t, last) \in Inventory
           /\ Add(inv, t, last).txs = inv.txs \cup {t}
           /\ IsFiniteSet(inv.txs \cup {t})
<1> DEFINE S == inv.txs
           new == Add(inv, t, last)
           K == {Ticket[v] : v \in VotesOn(S, last)}
           L == {Ticket[v] : v \in VotesOn(S \cup {t}, last)}
           R == S \ (Vote \cup TSpend)
           P == S \cap TSpend
           R1 == (S \cup {t}) \ (Vote \cup TSpend)
           P1 == (S \cup {t}) \cap TSpend
           low == Cardinality(R1) + Cardinality(L)
           Likely == /\ new.voted = L /\ new.likely \in Nat
                     /\ new.likely \in low .. (low + Cardinality(P1))
<1>1. /\ inv.voted = K /\ inv.count = Cardinality(S)
      /\ inv.likely \in (Cardinality(R) + Cardinality(K)) .. (Cardinality(R) + Cardinality(K) + Cardinality(P))
  BY DEF Counted, Sure
<1>2. IsFiniteSet(R) /\ IsFiniteSet(P) /\ IsFiniteSet(K) /\ Cardinality(R) \in Nat
      /\ Cardinality(P) \in Nat /\ Cardinality(K) \in Nat /\ Cardinality(S) \in Nat
  BY PartsFinite
<1>3. IsFiniteSet(S \cup {t}) /\ Cardinality(S \cup {t}) = Cardinality(S) + 1
  BY FS_AddElement
<1>4. K \in SUBSET Range(Ticket) /\ L \in SUBSET Range(Ticket)
  BY VotesAreOnBlocks DEF VotesOn, Range
<1>5. new.txs = S \cup {t} /\ new.count = Cardinality(S) + 1
  BY <1>1 DEF Add
<1>6. new = [txs |-> new.txs, voted |-> new.voted, count |-> new.count, likely |-> new.likely]
  BY DEF Add
<1>7. ASSUME t \in Vote /\ VoteOn[t] = last /\ Ticket[t] \notin K
      PROVE  Likely
  <2>1. L = K \cup {Ticket[t]} /\ R1 = R /\ P1 = P
    BY <1>7, KindsAssumption DEF VotesOn
  <2>2. new.voted = L /\ new.likely = inv.likely + 1
    BY <1>1, <1>7, <2>1, KindsAssumption DEF Add, Counts
  <2>3. Cardinality(L) = Cardinality(K) + 1
    <3> HIDE DEF K, L
    <3>1. Cardinality(K \cup {Ticket[t]}) = Cardinality(K) + 1
      BY <1>2, <1>7, FS_AddElement
    <3> QED BY <2>1, <3>1
  <2> HIDE DEF K, L, R, P, R1, P1, new
  <2> QED BY <1>1, <1>2, <2>1, <2>2, <2>3
<1>8. ASSUME t \in Vote /\ ~(VoteOn[t] = last /\ Ticket[t] \notin K)
      PROVE  Likely
  <2>1. L = K /\ R1 = R /\ P1 = P
    BY <1>8, KindsAssumption DEF VotesOn
  <2>2. new.voted = L /\ new.likely = inv.likely
    BY <1>1, <1>8, <2>1 DEF Add, Counts
  <2> HIDE DEF K, L, R, P, R1, P1, new
  <2> QED BY <1>1, <1>2, <2>1, <2>2
<1>9. ASSUME t \in TSpend
      PROVE  Likely
  <2>1. L = K /\ R1 = R /\ P1 = P \cup {t}
    BY <1>9, KindsAssumption DEF VotesOn
  <2>2. new.voted = L /\ new.likely = inv.likely
    BY <1>1, <1>9, <2>1, KindsAssumption DEF Add, Counts
  <2>3. Cardinality(P1) = Cardinality(P) + 1
    BY <1>2, <2>1, FS_AddElement
  <2> HIDE DEF K, L, R, P, R1, P1, new
  <2> QED BY <1>1, <1>2, <2>1, <2>2, <2>3
<1>10. ASSUME t \in Regular
      PROVE  Likely
  <2>1. L = K /\ R1 = R \cup {t} /\ P1 = P
    BY <1>10, KindsAssumption DEF VotesOn
  <2>2. new.voted = L /\ new.likely = inv.likely + 1
    BY <1>1, <1>10, <2>1, KindsAssumption DEF Add, Counts
  <2>3. Cardinality(R1) = Cardinality(R) + 1
    BY <1>2, <2>1, FS_AddElement
  <2> HIDE DEF K, L, R, P, R1, P1, new
  <2> QED BY <1>1, <1>2, <2>1, <2>2, <2>3
<1>11. Likely
  BY <1>1, <1>7, <1>8, <1>9, <1>10 DEF Tx
<1>12. Sure(new) = low /\ new.txs \cap TSpend = P1 /\ VotesOn(new.txs, last) = VotesOn(S \cup {t}, last)
  BY <1>5, <1>11 DEF Sure
<1>13. Counted(new, last)
  BY <1>3, <1>5, <1>11, <1>12 DEF Counted
<1>14. new \in Inventory
  <2>1. new.txs \in SUBSET Tx /\ new.count \in Nat
    BY <1>2, <1>5 DEF Inventory
  <2>2. new.voted \in SUBSET Range(Ticket) /\ new.likely \in Nat
    BY <1>4, <1>11
  <2> HIDE DEF new
  <2> QED BY <2>1, <2>2, <1>6 DEF Inventory
<1> QED BY <1>3, <1>5, <1>13, <1>14

-----------------------------------------------------------------------------
\* The monitor before its first block.
LEMMA InitInv == Init => MempoolInv
<1> SUFFICES ASSUME Init PROVE MempoolInv
  OBVIOUS
<1> USE DEF Init
<1>1. TypeOK
  BY ScenariosAssumption, KindsAssumption DEF TypeOK, Idle, Work, EmptyInventory, Inventory
<1>2. Finite /\ VotesCountOnce
  <2>1. VotesOn({}, 0) = {} /\ {Ticket[v] : v \in VotesOn({}, 0)} = {}
    BY DEF VotesOn
  <2>2. Counted(inventory, lastBlock)
    BY <2>1, FS_EmptySet DEF Counted, Sure, EmptyInventory
  <2> QED BY <2>2, CountedInventory, FS_EmptySet DEF Finite, Idle, EmptyInventory
<1>3. PendingOnce /\ ShownIsInventory /\ BlocksFollow /\ PoolFollowed
  BY DEF PendingOnce, ShownIsInventory, BlocksFollow, PoolFollowed, Follows, HeadersInPast,
         Idle, EmptyInventory
<1> QED BY <1>1, <1>2, <1>3 DEF MempoolInv

-----------------------------------------------------------------------------
(* The queue grows at its end and shrinks at its head.                     *)

\* A notification is added to the queue.
LEMMA QueueGrows ==
    ASSUME queue \in Seq(Message), NEW m \in Message, queue' = Append(queue, m)
    PROVE  /\ queue' \in Seq(Message) /\ Len(queue) \in Nat /\ Len(queue') = Len(queue) + 1
           /\ \A i \in 1 .. Len(queue) : queue'[i] = queue[i]
           /\ queue'[Len(queue) + 1] = m
OBVIOUS

\* A notification is taken from the queue.
LEMMA QueueShrinks ==
    ASSUME queue \in Seq(Message), queue # <<>>, queue' = Tail(queue)
    PROVE  /\ queue' \in Seq(Message) /\ Len(queue) \in Nat /\ Len(queue) = Len(queue') + 1
           /\ Len(queue') \in Nat
           /\ Head(queue) = queue[1] /\ queue[1] \in Message
           /\ \A i \in 1 .. Len(queue') : queue'[i] = queue[i + 1]
OBVIOUS

\* What is behind the head stays in the queue.
LEMMA BehindHead ==
    ASSUME queue \in Seq(Message), queue # <<>>, queue' = Tail(queue),
           NEW i \in 1 .. Len(queue), i # 1
    PROVE  \E k \in 1 .. Len(queue') : queue'[k] = queue[i] /\ i = k + 1
<1>1. i - 1 \in 1 .. Len(queue') /\ queue'[i - 1] = queue[i]
  BY QueueShrinks
<1> QED BY <1>1

-----------------------------------------------------------------------------
(* Each action preserves the invariant.                                    *)

\* dcrd accepts a transaction.
LEMMA AcceptInv ==
    ASSUME MempoolInv, NEW t \in Tx, Accept(t)
    PROVE  MempoolInv'
<1> USE DEF Accept, MempoolInv
<1> DEFINE m == [tx |-> t, time |-> now + 1]
<1>1. /\ queue' \in Seq(Message) /\ Len(queue) \in Nat /\ Len(queue') = Len(queue) + 1
      /\ \A i \in 1 .. Len(queue) : queue'[i] = queue[i]
      /\ queue'[Len(queue) + 1] = m
  <2>1. m \in Message /\ queue \in Seq(Message)
    BY DEF TypeOK, Message
  <2> QED BY <2>1, QueueGrows
<1>2. TypeOK'
  BY <1>1 DEF TypeOK, Work
<1>3. PendingOnce'
  <2>1. told[t] = 0 /\ work.tx # t
    BY KindsAssumption DEF PendingOnce, TypeOK
  <2>2. \A i \in 1 .. Len(queue) : queue[i].tx # t
    BY DEF PendingOnce
  <2>3. \A i \in 1 .. Len(queue') : i \in 1 .. Len(queue) \/ i = Len(queue) + 1
    BY <1>1
  <2> QED BY <1>1, <2>1, <2>2, <2>3 DEF PendingOnce
<1>4. ShownIsInventory'
  BY DEF ShownIsInventory
<1>5. Finite' /\ VotesCountOnce'
  BY FS_AddElement DEF Finite, VotesCountOnce
<1>6. BlocksFollow'
  BY <1>1 DEF BlocksFollow, TypeOK, BlockComing, PendingOnce
<1>7. PoolFollowed'
  <2> SUFFICES ASSUME ~scenario.skewed
               PROVE  PoolFollowed'
    BY DEF PoolFollowed
  <2>1. HeadersInPast /\ HeadersInPast'
    <3>1. /\ HeadersInPast /\ tip' = tip /\ blockTime' = blockTime /\ now' = now + 1
          /\ now \in Nat /\ blockTime \in [0 .. tip -> Nat]
      BY DEF PoolFollowed, TypeOK
    <3> HIDE DEF Accept, MempoolInv
    <3> QED BY <3>1 DEF HeadersInPast
  <2>2. BlockComing => BlockComing'
    BY <1>1 DEF BlockComing
  <2>3. ASSUME NEW S, NEW last \in 0 .. tip, Follows(S, last)
        PROVE  Follows(S, last)'
    <3>1. WillArrive(t, last)'
      BY <1>1, <2>1 DEF WillArrive, HeadersInPast, TypeOK
    <3>2. \A u : WillArrive(u, last) => WillArrive(u, last)'
      BY <1>1 DEF WillArrive
    <3> QED BY <2>2, <2>3, <3>1, <3>2 DEF Follows
  <2>4. lastBlock \in 0 .. tip /\ work.best \in 0 .. tip
    BY DEF TypeOK, Work
  <2> QED BY <2>1, <2>2, <2>3, <2>4 DEF PoolFollowed
<1> QED BY <1>2, <1>3, <1>4, <1>5, <1>6, <1>7

\* dcrd connects a block.
LEMMA MineInv ==
    ASSUME MempoolInv, Mine
    PROVE  MempoolInv'
<1> USE DEF Mine, MempoolInv
<1>1. /\ queue' \in Seq(Message) /\ Len(queue) \in Nat /\ Len(queue') = Len(queue) + 1
      /\ \A i \in 1 .. Len(queue) : queue'[i] = queue[i]
      /\ queue'[Len(queue) + 1] = BlockMsg
  <2>1. BlockMsg \in Message /\ queue \in Seq(Message)
    BY DEF TypeOK, Message, BlockMsg
  <2> QED BY <2>1, QueueGrows
<1>2. BlockComing'
  <2>1. Len(queue) + 1 \in 1 .. Len(queue')
    BY <1>1
  <2> QED BY <1>1, <2>1 DEF BlockComing
<1>3. tip \in Nat /\ tip' = tip + 1 /\ now \in Nat /\ now' = now + 1 /\ pool' \subseteq pool
  BY ScenariosAssumption DEF TypeOK
<1>4. TypeOK'
  <2>1. tip' \in 0 .. scenario'.blocks
    BY <1>3, ScenariosAssumption DEF TypeOK
  <2>2. blockTime' \in [0 .. tip' -> Nat]
    <3>1. PICK ahead \in IF scenario.skewed THEN {0, Skew} ELSE {0} :
             blockTime' = [b \in 0..(tip + 1) |-> IF b = tip + 1 THEN now + 1 + ahead ELSE blockTime[b]]
      OBVIOUS
    <3>2. ahead \in Nat
      BY VotesAreOnBlocks
    <3> QED BY <1>3, <3>1, <3>2 DEF TypeOK
  <2> QED BY <1>1, <1>3, <2>1, <2>2 DEF TypeOK, Work
<1>5. PendingOnce'
  <2>1. \A i \in 1 .. Len(queue') : i \in 1 .. Len(queue) \/ queue'[i].tx \notin Tx
    BY <1>1, KindsAssumption DEF BlockMsg
  <2> QED BY <1>1, <2>1 DEF PendingOnce
<1>6. ShownIsInventory'
  BY DEF ShownIsInventory
<1>7. Finite' /\ VotesCountOnce'
  BY <1>3, FS_Subset DEF Finite, VotesCountOnce
<1>8. BlocksFollow'
  <2>1. ASSUME NEW i \in 1 .. Len(queue'), queue'[i].tx \in Tx
        PROVE  /\ Len(queue) + 1 > i /\ queue'[i] = queue[i] /\ i \in 1 .. Len(queue)
    BY <1>1, <2>1, KindsAssumption DEF BlockMsg
  <2>2. \A v \in Vote : VoteOn[v] \in Nat /\ v \in Tx
    BY VotesAreOnBlocks DEF Tx
  <2> QED BY <1>1, <1>2, <1>3, <2>1, <2>2 DEF BlocksFollow
<1>9. PoolFollowed'
  <2>1. ~scenario.skewed /\ HeadersInPast => HeadersInPast'
    BY <1>3 DEF HeadersInPast, TypeOK
  <2> QED BY <1>2, <2>1 DEF PoolFollowed, Follows
<1> QED BY <1>4, <1>5, <1>6, <1>7, <1>8, <1>9

(***************************************************************************)
(* What the head of the queue was waiting for: the facts common to the     *)
(* actions that take a transaction from it.                                *)
(***************************************************************************)
LEMMA ReceivedFacts ==
    ASSUME MempoolInv, NEW t \in Tx, NEW time, Received(t, time), queue' = Tail(queue)
    PROVE  /\ queue' \in Seq(Message) /\ Len(queue) = Len(queue') + 1 /\ Len(queue') \in Nat
           /\ \A i \in 1 .. Len(queue') : queue'[i] = queue[i + 1] /\ i + 1 \in 1 .. Len(queue)
           /\ 1 \in 1 .. Len(queue) /\ queue[1].tx = t /\ queue[1].time = time
           /\ work = Idle /\ queue \in Seq(Message) /\ queue # <<>>
           /\ BlockComing => BlockComing'
           /\ \A i \in 1 .. Len(queue) : i # 1 =>
                 \E k \in 1 .. Len(queue') : queue'[k] = queue[i] /\ i = k + 1
<1>1. queue \in Seq(Message) /\ queue # <<>> /\ Head(queue) = [tx |-> t, time |-> time] /\ work = Idle
  BY DEF MempoolInv, TypeOK, Received
<1>2. /\ queue' \in Seq(Message) /\ Len(queue) = Len(queue') + 1 /\ Len(queue') \in Nat
      /\ \A i \in 1 .. Len(queue') : queue'[i] = queue[i + 1]
      /\ queue[1] = [tx |-> t, time |-> time]
  BY <1>1, QueueShrinks
<1>3. \A i \in 1 .. Len(queue) : i # 1 =>
         \E k \in 1 .. Len(queue') : queue'[k] = queue[i] /\ i = k + 1
  BY <1>1, BehindHead
<1>4. queue[1] # BlockMsg
  BY <1>2, KindsAssumption DEF BlockMsg
<1>5. BlockComing => BlockComing'
  BY <1>3, <1>4 DEF BlockComing
<1> QED BY <1>1, <1>2, <1>3, <1>5

\* BlocksFollow, of what is left in the queue.
LEMMA TailFollows ==
    ASSUME BlocksFollow, queue \in Seq(Message), queue # <<>>, queue' = Tail(queue),
           NEW i \in 1 .. Len(queue')
    PROVE  /\ queue'[i].tx \in Tx \ pool =>
                 \E j \in 1 .. Len(queue') : j > i /\ queue'[j] = BlockMsg
           /\ queue'[i].tx \in Vote => VoteOn[queue'[i].tx] <= tip
<1>1. /\ queue'[i] = queue[i + 1] /\ i + 1 \in 1 .. Len(queue)
      /\ Len(queue) = Len(queue') + 1 /\ Len(queue') \in Nat
  BY QueueShrinks
<1>2. ASSUME queue'[i].tx \in Tx \ pool
      PROVE  \E j \in 1 .. Len(queue') : j > i /\ queue'[j] = BlockMsg
  <2>1. PICK j \in 1 .. Len(queue) : j > i + 1 /\ queue[j] = BlockMsg
    BY <1>1, <1>2 DEF BlocksFollow
  <2>2. PICK k \in 1 .. Len(queue') : queue'[k] = queue[j] /\ j = k + 1
    BY <2>1, BehindHead
  <2> QED BY <2>1, <2>2
<1> QED BY <1>1, <1>2 DEF BlocksFollow

\* TxHandler returns early.
LEMMA TxIgnoredInv ==
    ASSUME MempoolInv, NEW t \in Tx, NEW time \in 0 .. now, TxIgnored(t, time)
    PROVE  MempoolInv'
<1> USE DEF TxIgnored, MempoolInv, dcrd
<1>1. /\ queue' \in Seq(Message) /\ Len(queue) = Len(queue') + 1 /\ Len(queue') \in Nat
      /\ \A i \in 1 .. Len(queue') : queue'[i] = queue[i + 1] /\ i + 1 \in 1 .. Len(queue)
      /\ 1 \in 1 .. Len(queue) /\ queue[1].tx = t /\ queue[1].time = time
      /\ work = Idle /\ queue \in Seq(Message) /\ queue # <<>>
      /\ BlockComing => BlockComing'
      /\ \A i \in 1 .. Len(queue) : i # 1 =>
            \E k \in 1 .. Len(queue') : queue'[k] = queue[i] /\ i = k + 1
  BY ReceivedFacts
<1>2. TypeOK'
  BY <1>1 DEF TypeOK, Work
<1>3. PendingOnce'
  BY <1>1 DEF PendingOnce
<1>4. ShownIsInventory'
  BY DEF ShownIsInventory
<1>5. Finite' /\ VotesCountOnce'
  BY DEF Finite, VotesCountOnce
<1>6. BlocksFollow'
  <2>1. ASSUME NEW i \in 1 .. Len(queue')
        PROVE  /\ queue'[i].tx \in Tx \ pool =>
                     \E j \in 1 .. Len(queue') : j > i /\ queue'[j] = BlockMsg
               /\ queue'[i].tx \in Vote => VoteOn[queue'[i].tx] <= tip
    BY TailFollows, <1>1
  <2> QED BY <1>1, <2>1 DEF BlocksFollow, Idle
<1>7. PoolFollowed'
  <2>1. ASSUME Follows(inventory.txs, lastBlock)
        PROVE  Follows(inventory.txs, lastBlock)'
    <3>1. ASSUME NEW u \in pool \ inventory.txs, WillArrive(u, lastBlock)
          PROVE  WillArrive(u, lastBlock)'
      <4>1. PICK i \in 1 .. Len(queue) : queue[i].tx = u /\ queue[i].time >= blockTime[lastBlock]
        BY <1>1, <3>1, KindsAssumption DEF WillArrive, Idle, TypeOK
      <4>2. i # 1
        BY <1>1, <3>1, <4>1 DEF Ignored, TypeOK
      <4> QED BY <1>1, <4>1, <4>2 DEF WillArrive
    <3> QED BY <1>1, <2>1, <3>1 DEF Follows
  <2> QED BY <1>1, <2>1 DEF PoolFollowed, Idle, HeadersInPast
<1> QED BY <1>2, <1>3, <1>4, <1>5, <1>6, <1>7

\* TxHandler enters the transaction in the address map.
LEMMA TxAddressesInv ==
    ASSUME MempoolInv, NEW t \in Tx, NEW time \in 0 .. now, TxAddresses(t, time)
    PROVE  MempoolInv'
<1> USE DEF TxAddresses, MempoolInv, dcrd
<1>1. /\ queue' \in Seq(Message) /\ Len(queue) = Len(queue') + 1 /\ Len(queue') \in Nat
      /\ \A i \in 1 .. Len(queue') : queue'[i] = queue[i + 1] /\ i + 1 \in 1 .. Len(queue)
      /\ 1 \in 1 .. Len(queue) /\ queue[1].tx = t /\ queue[1].time = time
      /\ work = Idle /\ queue \in Seq(Message) /\ queue # <<>>
      /\ BlockComing => BlockComing'
      /\ \A i \in 1 .. Len(queue) : i # 1 =>
            \E k \in 1 .. Len(queue') : queue'[k] = queue[i] /\ i = k + 1
  BY ReceivedFacts
<1>2. work' = [at |-> "signal", tx |-> t, best |-> 0, txs |-> {}]
  BY DEF Idle
<1>3. TypeOK'
  <2>1. work' \in Work'
    BY <1>2, ScenariosAssumption DEF TypeOK, Work
  <2> QED BY <1>1, <2>1 DEF TypeOK
<1>4. PendingOnce'
  BY <1>1, <1>2 DEF PendingOnce, Ignored
<1>5. ShownIsInventory'
  BY <1>1, <1>2 DEF ShownIsInventory, Idle
<1>6. Finite' /\ VotesCountOnce'
  <2>1. work'.txs = {}
    <3> HIDE DEF TxAddresses, MempoolInv
    <3> QED BY <1>2, Zenon
  <2> QED BY <2>1, FS_EmptySet DEF Finite, VotesCountOnce
<1>7. BlocksFollow'
  <2>1. t \notin pool => BlockComing'
    BY <1>1 DEF BlocksFollow, BlockComing
  <2>2. ASSUME NEW i \in 1 .. Len(queue')
        PROVE  /\ queue'[i].tx \in Tx \ pool =>
                     \E j \in 1 .. Len(queue') : j > i /\ queue'[j] = BlockMsg
               /\ queue'[i].tx \in Vote => VoteOn[queue'[i].tx] <= tip
    BY TailFollows, <1>1
  <2>3. t \in Vote => VoteOn[t] <= tip
    BY <1>1 DEF BlocksFollow
  <2>4. work'.tx = t
    BY <1>2
  <2> QED BY <2>1, <2>2, <2>3, <2>4 DEF BlocksFollow
<1>8. PoolFollowed'
  <2>1. ASSUME Follows(inventory.txs, lastBlock)
        PROVE  Follows(inventory.txs, lastBlock)'
    <3>1. ASSUME NEW u \in pool \ inventory.txs, WillArrive(u, lastBlock)
          PROVE  WillArrive(u, lastBlock)'
      <4>1. PICK i \in 1 .. Len(queue) : queue[i].tx = u /\ queue[i].time >= blockTime[lastBlock]
        BY <1>1, <3>1, KindsAssumption DEF WillArrive, Idle, TypeOK
      <4> QED BY <1>1, <1>2, <4>1 DEF WillArrive
    <3> QED BY <1>1, <2>1, <3>1 DEF Follows
  <2> QED BY <1>1, <1>2, <2>1 DEF PoolFollowed, Idle, HeadersInPast
<1> QED BY <1>3, <1>4, <1>5, <1>6, <1>7, <1>8

\* TxHandler enters it in the store and the inventory.
LEMMA TxStoredInv ==
    ASSUME MempoolInv, TxStored
    PROVE  MempoolInv'
<1> USE DEF TxStored, MempoolInv, dcrd
<1> DEFINE t == work.tx
<1>1. /\ t \in Tx /\ t \in seen /\ told[t] = 0 /\ t \notin inventory.txs /\ t \notin shown
      /\ inventory \in Inventory /\ told \in [Tx -> Nat] /\ work \in Work
  BY KindsAssumption DEF PendingOnce, TypeOK, ShownIsInventory
<1>2. CASE InFuture(t)
  <2>1. UNCHANGED <<inventory, told>> /\ work' = Idle
    BY <1>2
  <2>2. TypeOK'
    BY <1>1, <2>1, ScenariosAssumption DEF TypeOK, Work, Idle
  <2>3. PendingOnce' /\ ShownIsInventory'
    BY <1>1, <2>1, KindsAssumption DEF PendingOnce, ShownIsInventory, Idle
  <2>4. Finite' /\ VotesCountOnce'
    <3>1. work'.txs = {}
      BY <2>1 DEF Idle
    <3> QED BY <2>1, <3>1, FS_EmptySet DEF Finite, VotesCountOnce
  <2>5. BlocksFollow'
    BY <2>1 DEF BlocksFollow, Idle
  <2>6. PoolFollowed'
    <3>1. VoteOn[t] \in Nat /\ VoteOn[t] > lastBlock /\ VoteOn[t] <= tip
      BY <1>2, VotesAreOnBlocks DEF BlocksFollow, InFuture
    <3>2. lastBlock \in Nat /\ tip \in Nat
      BY ScenariosAssumption DEF TypeOK
    <3>3. ~scenario.skewed /\ refreshed => BlockComing
      BY <3>1, <3>2 DEF PoolFollowed, Follows
    <3> QED BY <2>1, <3>3 DEF PoolFollowed, Follows, Idle, HeadersInPast, BlockComing
  <2> QED BY <2>2, <2>3, <2>4, <2>5, <2>6
<1>3. CASE ~InFuture(t)
  <2>1. /\ inventory' = Add(inventory, t, lastBlock) /\ work' = Idle
        /\ told' = [told EXCEPT ![t] = @ + 1] /\ lastBlock' = lastBlock
    BY <1>3
  <2>2. /\ inventory' \in Inventory /\ inventory'.txs = inventory.txs \cup {t}
        /\ IsFiniteSet(inventory'.txs) /\ Counted(inventory', lastBlock)
    <3>1. IsFiniteSet(inventory.txs) /\ Counted(inventory, lastBlock) /\ t \in Tx \ inventory.txs
      BY <1>1, CountedInventory DEF Finite
    <3> DEFINE new == Add(inventory, t, lastBlock)
    <3>2. /\ Counted(new, lastBlock) /\ new \in Inventory
          /\ new.txs = inventory.txs \cup {t} /\ IsFiniteSet(inventory.txs \cup {t})
      <4> HIDE DEF t, TxStored, MempoolInv
      <4> QED BY <1>1, <3>1, AddCounts
    <3> HIDE DEF t, TxStored, MempoolInv
    <3> QED BY <2>1, <3>2
  <2>3. VotesCountOnce'
    BY <2>1, <2>2 DEF VotesCountOnce, Counted, VotesOn, Sure
  <2>4. Finite'
    BY <2>1, <2>2, FS_EmptySet DEF Finite, Idle
  <2>5. told' \in [Tx -> Nat] /\ told'[t] = 1 /\ \A u \in Tx : u # t => told'[u] = told[u]
    BY <1>1, <2>1
  <2>6. TypeOK'
    BY <1>1, <2>1, <2>2, <2>5, ScenariosAssumption DEF TypeOK, Work, Idle
  <2>7. PendingOnce'
    BY <1>1, <2>1, <2>5, KindsAssumption DEF PendingOnce, Idle
  <2>8. ShownIsInventory'
    BY <1>1, <2>1, <2>2, <2>5 DEF ShownIsInventory, Idle, TypeOK, Inventory
  <2>9. BlocksFollow'
    BY <2>1 DEF BlocksFollow, Idle
  <2>10. PoolFollowed'
    <3>1. t \notin pool => BlockComing
      BY DEF BlocksFollow
    <3>2. ASSUME Follows(inventory.txs, lastBlock)
          PROVE  Follows(inventory.txs, lastBlock)'
      <4>1. \A u \in pool : u # t /\ WillArrive(u, lastBlock) => WillArrive(u, lastBlock)'
        BY <2>1 DEF WillArrive
      <4>2. BlockComing <=> BlockComing'
        BY DEF BlockComing
      <4> QED BY <2>1, <2>2, <3>1, <3>2, <4>1, <4>2 DEF Follows
    <3> QED BY <2>1, <3>2 DEF PoolFollowed, Idle, HeadersInPast
  <2> QED BY <2>3, <2>4, <2>6, <2>7, <2>8, <2>9, <2>10
<1> QED BY <1>2, <1>3

\* Collect's first call: the block that is handled leaves the queue, and the best
\* block dcrd names has every block behind it.
LEMMA CollectBestInv ==
    ASSUME MempoolInv, CollectBest
    PROVE  MempoolInv'
<1> USE DEF CollectBest, MempoolInv, dcrd
<1>1. queue \in Seq(Message) /\ queue # <<>> /\ queue' = Tail(queue) /\ work = Idle /\ tip \in Nat
  BY ScenariosAssumption DEF TypeOK
<1>2. /\ queue' \in Seq(Message) /\ Len(queue) = Len(queue') + 1 /\ Len(queue') \in Nat
      /\ \A i \in 1 .. Len(queue') : queue'[i] = queue[i + 1] /\ i + 1 \in 1 .. Len(queue)
  BY <1>1, QueueShrinks
<1>3. work' = [at |-> "collect", tx |-> "none", best |-> tip, txs |-> {}]
  BY DEF Idle
<1>4. TypeOK'
  <2>1. work' \in Work'
    BY <1>1, <1>3 DEF Work
  <2> QED BY <1>2, <2>1 DEF TypeOK
<1>5. PendingOnce'
  <2>1. work'.at = "collect" /\ work'.tx = "none" /\ "none" \notin Tx
    <3> HIDE DEF CollectBest, MempoolInv
    <3> QED BY <1>3, KindsAssumption
  <2>2. \A i, j \in 1 .. Len(queue') : i + 1 = j + 1 => i = j
    OBVIOUS
  <2> QED BY <1>2, <2>1, <2>2 DEF PendingOnce
<1>6. ShownIsInventory'
  BY <1>1, <1>3 DEF ShownIsInventory, Idle
<1>7. Finite' /\ VotesCountOnce'
  <2>1. work'.txs = {}
    <3> HIDE DEF CollectBest, MempoolInv
    <3> QED BY <1>3, Zenon
  <2> QED BY <2>1, FS_EmptySet DEF Finite, VotesCountOnce
<1>8. BlocksFollow'
  <2>1. ASSUME NEW i \in 1 .. Len(queue')
        PROVE  /\ queue'[i].tx \in Tx \ pool =>
                     \E j \in 1 .. Len(queue') : j > i /\ queue'[j] = BlockMsg
               /\ queue'[i].tx \in Vote => VoteOn[queue'[i].tx] <= tip
    BY TailFollows, <1>1
  <2>2. work'.at = "collect"
    BY <1>3
  <2> QED BY <2>1, <2>2 DEF BlocksFollow
<1>9. PoolFollowed'
  BY <1>1, <1>3 DEF PoolFollowed, HeadersInPast
<1> QED BY <1>4, <1>5, <1>6, <1>7, <1>8, <1>9

\* Collect's second call: whatever dcrd did since the first is in the queue.
LEMMA CollectTxsInv ==
    ASSUME MempoolInv, CollectTxs
    PROVE  MempoolInv'
<1> USE DEF CollectTxs, MempoolInv, dcrd
<1>1. /\ work \in Work /\ pool \in SUBSET Tx /\ skipped' \in SUBSET pool
      /\ work' = [at |-> "parse", tx |-> work.tx, best |-> work.best, txs |-> pool \ skipped']
  BY DEF TypeOK, Work
<1>2. TypeOK'
  BY <1>1 DEF TypeOK, Work
<1>3. PendingOnce' /\ ShownIsInventory'
  BY <1>1 DEF PendingOnce, ShownIsInventory
<1>4. Finite' /\ VotesCountOnce'
  <2>1. IsFiniteSet(pool \ skipped')
    BY FS_Subset DEF Finite
  <2> QED BY <1>1, <2>1 DEF Finite, VotesCountOnce
<1>5. BlocksFollow'
  BY <1>1 DEF BlocksFollow
<1>6. PoolFollowed'
  BY <1>1 DEF PoolFollowed, HeadersInPast, Follows, BlockComing
<1> QED BY <1>2, <1>3, <1>4, <1>5, <1>6

\* Collect fails: the inventory stays, and clients fetch it again.
LEMMA RefreshFailsInv ==
    ASSUME MempoolInv, RefreshFails
    PROVE  MempoolInv'
<1> USE DEF RefreshFails, MempoolInv, dcrd
<1>1. work' = [at |-> "idle", tx |-> "none", best |-> 0, txs |-> {}] /\ tip \in Nat
  BY ScenariosAssumption DEF TypeOK, Idle
<1>2. TypeOK'
  <2>1. inventory.txs \in SUBSET Tx
    BY DEF TypeOK, Inventory
  <2>2. work' \in Work'
    BY <1>1 DEF Work
  <2> QED BY <2>1, <2>2 DEF TypeOK
<1>3. PendingOnce' /\ ShownIsInventory'
  BY <1>1, KindsAssumption DEF PendingOnce, ShownIsInventory
<1>4. Finite' /\ VotesCountOnce'
  <2>1. work'.txs = {}
    <3> HIDE DEF RefreshFails, MempoolInv
    <3> QED BY <1>1, Zenon
  <2> QED BY <2>1, FS_EmptySet DEF Finite, VotesCountOnce
<1>5. BlocksFollow'
  BY <1>1 DEF BlocksFollow
<1>6. PoolFollowed'
  BY <1>1 DEF PoolFollowed, HeadersInPast
<1> QED BY <1>2, <1>3, <1>4, <1>5, <1>6

\* Refresh replaces the inventory by the one Collect has read.
LEMMA RefreshInv ==
    ASSUME MempoolInv, Refresh
    PROVE  MempoolInv'
<1> USE DEF Refresh, MempoolInv, dcrd
<1>1. /\ work \in Work
      /\ work' = [at |-> "address", tx |-> work.tx, best |-> work.best, txs |-> work.txs]
  BY DEF TypeOK, Work
<1>2. /\ inventory' \in Inventory /\ inventory'.txs = work.txs
      /\ Counted(inventory', lastBlock') /\ IsFiniteSet(work.txs)
  <2>1. work.txs \in SUBSET Tx /\ IsFiniteSet(work.txs)
    BY <1>1 DEF Work, Finite
  <2>2. /\ inventory' = ParseTxns(work.txs, work.best) /\ lastBlock' = work.best
        /\ ParseTxns(work.txs, work.best).txs = work.txs
    BY DEF ParseTxns
  <2> HIDE DEF Refresh, MempoolInv
  <2>3. /\ Counted(ParseTxns(work.txs, work.best), work.best)
        /\ ParseTxns(work.txs, work.best) \in Inventory
    BY <2>1, ParseCounts
  <2> QED BY <2>1, <2>2, <2>3
<1>3. TypeOK'
  BY <1>1, <1>2 DEF TypeOK, Work
<1>4. PendingOnce' /\ ShownIsInventory'
  BY <1>1 DEF PendingOnce, ShownIsInventory
<1>5. Finite'
  BY <1>1, <1>2 DEF Finite
<1>6. VotesCountOnce'
  BY <1>2 DEF VotesCountOnce, Counted, VotesOn, Sure
<1>7. BlocksFollow'
  BY <1>1 DEF BlocksFollow
<1>8. PoolFollowed'
  BY <1>1, <1>2 DEF PoolFollowed, HeadersInPast, Follows, BlockComing, WillArrive
<1> QED BY <1>3, <1>4, <1>5, <1>6, <1>7, <1>8

\* The addresses and the signal: clients fetch the new inventory.
LEMMA RefreshAddressesInv ==
    ASSUME MempoolInv, RefreshAddresses
    PROVE  MempoolInv'
<1> USE DEF RefreshAddresses, MempoolInv, dcrd
<1>1. /\ work \in Work /\ work' = [at |-> "idle", tx |-> "none", best |-> 0, txs |-> {}]
      /\ tip \in Nat /\ work.tx = "none"
  BY ScenariosAssumption DEF TypeOK, Idle, PendingOnce
<1>2. TypeOK'
  BY <1>1 DEF TypeOK, Work, Inventory
<1>3. PendingOnce' /\ ShownIsInventory'
  BY <1>1, KindsAssumption DEF PendingOnce, ShownIsInventory
<1>4. Finite' /\ VotesCountOnce'
  <2>1. work'.txs = {}
    <3> HIDE DEF RefreshAddresses, MempoolInv
    <3> QED BY <1>1, Zenon
  <2> QED BY <2>1, FS_EmptySet DEF Finite, VotesCountOnce
<1>5. BlocksFollow'
  BY <1>1 DEF BlocksFollow
<1>6. PoolFollowed'
  BY <1>1 DEF PoolFollowed, HeadersInPast, Follows, BlockComing, WillArrive
<1> QED BY <1>2, <1>3, <1>4, <1>5, <1>6

\* Lookups and stuttering steps touch nothing the invariant is about but view.
LEMMA LookupInv ==
    ASSUME MempoolInv, UnconfirmedTxnsForAddress \/ UNCHANGED vars
    PROVE  MempoolInv'
<1> USE DEF UnconfirmedTxnsForAddress, vars, dcrd, MempoolInv
<1>1. TypeOK'
  BY DEF TypeOK, Work
<1>2. PendingOnce' /\ ShownIsInventory'
  BY DEF PendingOnce, ShownIsInventory
<1>3. Finite' /\ VotesCountOnce'
  BY DEF Finite, VotesCountOnce
<1>4. BlocksFollow'
  BY DEF BlocksFollow, BlockComing
<1>5. PoolFollowed'
  BY DEF PoolFollowed, HeadersInPast, Follows, BlockComing, WillArrive
<1> QED BY <1>1, <1>2, <1>3, <1>4, <1>5

\* Every step preserves the invariant.
LEMMA NextInv == MempoolInv /\ [Next]_vars => MempoolInv'
<1> SUFFICES ASSUME MempoolInv, [Next]_vars
             PROVE  MempoolInv'
  OBVIOUS
<1>1. ASSUME NEW t \in Tx, Accept(t)
      PROVE  MempoolInv'
  BY <1>1, AcceptInv
<1>2. CASE Mine
  BY <1>2, MineInv
<1>3. ASSUME NEW t \in Tx, NEW time \in 0 .. now, TxIgnored(t, time)
      PROVE  MempoolInv'
  BY <1>3, TxIgnoredInv
<1>4. ASSUME NEW t \in Tx, NEW time \in 0 .. now, TxAddresses(t, time)
      PROVE  MempoolInv'
  BY <1>4, TxAddressesInv
<1>5. CASE TxStored
  BY <1>5, TxStoredInv
<1>6. CASE CollectBest
  BY <1>6, CollectBestInv
<1>7. CASE CollectTxs
  BY <1>7, CollectTxsInv
<1>8. CASE RefreshFails
  BY <1>8, RefreshFailsInv
<1>9. CASE Refresh
  BY <1>9, RefreshInv
<1>10. CASE RefreshAddresses
  BY <1>10, RefreshAddressesInv
<1>11. CASE UnconfirmedTxnsForAddress \/ UNCHANGED vars
  BY <1>11, LookupInv
<1> QED BY <1>1, <1>2, <1>3, <1>4, <1>5, <1>6, <1>7, <1>8, <1>9, <1>10, <1>11 DEF Next

\* The induction.
LEMMA Invariance == Spec => []MempoolInv
BY InitInv, NextInv, PTL DEF Spec

-----------------------------------------------------------------------------
(* The theorems.                                                           *)

\* Type correctness: in particular Collect's height is never beyond dcrd's best
\* block, and what is queued, stored and counted are transactions dcrd has announced.
THEOREM TypeCorrect == Spec => []TypeOK
<1>1. MempoolInv => TypeOK
  BY DEF MempoolInv
<1> QED BY Invariance, <1>1, PTL

\* However TxHandler and CollectAndStore take turns, the counts of the inventory
\* are those of its transactions, and every ticket that votes on the last block
\* counts once.
THEOREM VotesAreCountedOnce == Spec => []VotesCountOnce
<1>1. MempoolInv => VotesCountOnce
  BY DEF MempoolInv
<1> QED BY Invariance, <1>1, PTL

\* When the queue is empty and the last block's CollectAndStore did not fail, the
\* inventory is dcrd's mempool, but for transactions mempoolTxns could not fetch,
\* and clients know all of it, although Collect reads the best block and the
\* transactions in two calls and dcrd goes on in between.
THEOREM QuietMonitorKnowsPool == Spec => []MonitorKnowsPool
<1>1. MempoolInv => MonitorKnowsPool
  <2> SUFFICES ASSUME MempoolInv, Quiet, refreshed, ~scenario.skewed
               PROVE  /\ inventory.txs \subseteq pool /\ pool \ skipped \subseteq inventory.txs
                      /\ \A t \in inventory.txs : t \in shown \/ told[t] > 0
    BY DEF MonitorKnowsPool
  <2>1. queue = <<>> /\ work = Idle /\ work.at = "idle" /\ work.tx = "none"
    BY DEF Quiet, Idle
  <2>2. ~BlockComing
    BY <2>1 DEF BlockComing
  <2>3. \A t \in Tx : ~WillArrive(t, lastBlock)
    BY <2>1, KindsAssumption DEF WillArrive
  <2>4. Follows(inventory.txs, lastBlock) /\ pool \subseteq Tx
    BY <2>1 DEF MempoolInv, PoolFollowed, TypeOK
  <2>5. inventory.txs \subseteq pool /\ pool \ skipped \subseteq inventory.txs
    BY <2>2, <2>3, <2>4 DEF Follows
  <2> QED BY <2>1, <2>5 DEF MempoolInv, ShownIsInventory
<1> QED BY Invariance, <1>1, PTL

\* TxHandler broadcasts a transaction at most once, and never one that was in an
\* inventory that clients were told to fetch.
THEOREM BroadcastOnce == Spec => NoRepeatedBroadcast
<1>1. ASSUME MempoolInv, [Next]_vars, NEW t \in Tx, told'[t] > told[t]
      PROVE  told[t] = 0 /\ t \notin shown
  <2>1. told \in [Tx -> Nat]
    BY <1>1 DEF MempoolInv, TypeOK
  <2>2. CASE told' = told
    BY <1>1, <2>1, <2>2
  <2>3. CASE TxStored
    <3>1. work.at = "signal" /\ t = work.tx
      BY <1>1, <2>1, <2>3 DEF TxStored
    <3> QED BY <1>1, <3>1 DEF MempoolInv, PendingOnce, ShownIsInventory
  <2>4. told' = told \/ TxStored
    BY <1>1 DEF Next, vars, Accept, Mine, TxIgnored, TxAddresses, CollectBest, CollectTxs,
                RefreshFails, Refresh, RefreshAddresses, UnconfirmedTxnsForAddress
  <2> QED BY <2>2, <2>3, <2>4
<1>2. MempoolInv /\ [Next]_vars
         => [\A t \in Tx : told'[t] > told[t] => told[t] = 0 /\ t \notin shown]_vars
  BY <1>1
<1> QED BY Invariance, <1>2, PTL DEF Spec, NoRepeatedBroadcast
=============================================================================
