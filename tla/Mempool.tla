------------------------------- MODULE Mempool ------------------------------
(***************************************************************************)
(* The mempool monitor, mempool/monitor.go: TxHandler for every            *)
(* transaction and BlockHandler for every block that dcrd announces, both  *)
(* called from the notifier's queue, and the lookups of the HTTP API by    *)
(* address, which run at the same time.                                    *)
(*                                                                         *)
(* Collect asks dcrd for its best block and, with another call, for its    *)
(* transactions; dcrd goes on in between.  The inventory and txnsStore are *)
(* replaced under one lock, addrMap after that under another, and          *)
(* TxHandler sends its address signals (up to ten seconds each) between    *)
(* its entry in addrMap and the one in txnsStore.                          *)
(*                                                                         *)
(* Blocks are heights of one chain.  All transactions concern the address  *)
(* that is looked up, and spend one of its outputs.                        *)
(***************************************************************************)
EXTENDS Integers, Sequences, FiniteSets, Functions

CONSTANTS Regular,    \* transactions other than votes and treasury spends
          TSpend,     \* treasury spends
          Vote,       \* votes
          VoteOn,     \* the block each votes on
          Ticket,     \* the ticket each spends
          Skew,       \* seconds by which a miner's clock may be ahead
          Scenarios   \* bounds: how many blocks, and what may happen

Tx == Regular \union TSpend \union Vote

\* A transaction is of one kind.
ASSUME KindsAssumption ==
    /\ Regular \cap TSpend = {} /\ Regular \cap Vote = {} /\ TSpend \cap Vote = {}
    /\ {"block", "none"} \cap Tx = {}

ASSUME VotesAreOnBlocks == VoteOn \in [Vote -> Nat] /\ DOMAIN Ticket = Vote /\ Skew \in Nat
ASSUME ScenariosAssumption == \A s \in Scenarios : s.blocks \in Nat

VARIABLES
    tip, blockTime,  \* dcrd: its best block, the time in the header of each block,
    pool, seen, now, \*       its mempool, all that ever were in it, and the time
    queue,           \* the notifier's anyQ: transactions and blocks
    work,            \* the handler that is running, and what it has read so far
    lastBlock,       \* p.lastBlock
    inventory,       \* p.inventory: the transactions, the tickets that have voted, the counts
    txnsStore,       \* p.txnsStore
    addrMap,         \* the transactions in p.addrMap
    view,            \* outs.TxnsStore of the address: what lookups have put in it
    told,            \* history: how often each transaction was broadcast
    shown,           \* history: the transactions in the inventory of the last SigMempoolUpdate
    refreshed,       \* did the last block end in a new inventory?
    skipped,         \* history: the transactions the last collection left out
    scenario

dcrd == <<tip, blockTime, pool, seen, now>>
vars == <<dcrd, queue, work, lastBlock, inventory, txnsStore, addrMap, view, told, shown, refreshed, skipped, scenario>>

Idle == [at |-> "idle", tx |-> "none", best |-> 0, txs |-> {}]

BlockMsg == [tx |-> "block", time |-> 0]

-----------------------------------------------------------------------------
(* The inventory.                                                          *)

\* Faulty variant: every vote on the last block counts.
CountsTwice(inv, t, last) == t \in Vote => VoteOn[t] = last

\* A vote counts when it is on the last block and no vote of its ticket has.
Counts(inv, t, last) == t \in Vote => VoteOn[t] = last /\ Ticket[t] \notin inv.voted

\* TxHandler's part: a treasury spend is not counted as mineable.
Add(inv, t, last) ==
    [txs    |-> inv.txs \union {t},
     voted  |-> IF t \in Vote /\ Counts(inv, t, last) THEN inv.voted \union {Ticket[t]} ELSE inv.voted,
     count  |-> inv.count + 1,
     likely |-> IF Counts(inv, t, last) /\ t \notin TSpend THEN inv.likely + 1 ELSE inv.likely]

EmptyInventory == [txs |-> {}, voted |-> {}, count |-> 0, likely |-> 0]

\* ParseTxns goes through all transactions; the order does not matter.  Here
\* treasury spends count.
ParseTxns(S, last) ==
    LET votes == {v \in S \intersect Vote : VoteOn[v] = last}
        voted == {Ticket[v] : v \in votes}
    IN [txs |-> S, voted |-> voted, count |-> Cardinality(S),
        likely |-> Cardinality(S \ Vote) + Cardinality(voted)]

Message == [tx : Tx \union {"block"}, time : Nat]
Inventory == [txs : SUBSET Tx, voted : SUBSET Range(Ticket), count : Nat, likely : Nat]
Work == [at : {"idle", "signal", "collect", "parse", "address"}, tx : Tx \union {"none"},
         best : 0..tip, txs : SUBSET Tx]

TypeOK ==
    /\ scenario \in Scenarios
    /\ tip \in 0..scenario.blocks /\ blockTime \in [0..tip -> Nat]
    /\ pool \subseteq seen /\ seen \subseteq Tx /\ now \in Nat
    /\ queue \in Seq(Message)
    /\ work \in Work
    /\ lastBlock \in 0..tip
    /\ inventory \in Inventory
    /\ txnsStore \subseteq Tx /\ addrMap \subseteq Tx /\ shown \subseteq Tx
    /\ view \in [Tx -> {"none", "data", "nil"}]
    /\ told \in [Tx -> Nat]
    /\ refreshed \in BOOLEAN /\ skipped \subseteq Tx

Init ==
    /\ scenario \in Scenarios
    /\ tip = 0 /\ blockTime = [b \in {0} |-> 0] /\ pool = {} /\ seen = {} /\ now = 0
    /\ queue = <<>> /\ work = Idle
    /\ lastBlock = 0 /\ inventory = EmptyInventory /\ txnsStore = {} /\ addrMap = {}
    /\ view = [t \in Tx |-> "none"] /\ told = [t \in Tx |-> 0] /\ shown = {}
    /\ refreshed = TRUE /\ skipped = {}

-----------------------------------------------------------------------------
(* dcrd.                                                                   *)

Accept(t) ==
    /\ t \in scenario.txs \ seen
    /\ t \in Vote => VoteOn[t] <= tip
    /\ now' = now + 1
    /\ pool' = pool \union {t} /\ seen' = seen \union {t}
    /\ queue' = Append(queue, [tx |-> t, time |-> now + 1])
    /\ UNCHANGED <<tip, blockTime, work, lastBlock, inventory, txnsStore, addrMap, view, told, shown, refreshed, skipped, scenario>>

\* A block takes some transactions out of the mempool.  The time in its header
\* is the miner's.
Mine ==
    /\ tip < scenario.blocks
    /\ tip' = tip + 1 /\ now' = now + 1
    /\ \E S \in SUBSET pool : pool' = pool \ S
    /\ \E ahead \in IF scenario.skewed THEN {0, Skew} ELSE {0} :
          blockTime' = [b \in 0..(tip + 1) |-> IF b = tip + 1 THEN now + 1 + ahead ELSE blockTime[b]]
    /\ queue' = Append(queue, BlockMsg)
    /\ UNCHANGED <<seen, work, lastBlock, inventory, txnsStore, addrMap, view, told, shown, refreshed, skipped, scenario>>

-----------------------------------------------------------------------------
(* TxHandler.                                                              *)

Received(t, time) == work = Idle /\ queue # <<>> /\ Head(queue) = [tx |-> t, time |-> time]

\* Faulty variant: no look at the inventory.
IgnoredByTimeOnly(t, time) == time < blockTime[lastBlock]

\* Transactions from before the last block, and those in the inventory, are ignored.
Ignored(t, time) == time < blockTime[lastBlock] \/ t \in inventory.txs

TxIgnored(t, time) ==
    /\ Received(t, time) /\ Ignored(t, time)
    /\ queue' = Tail(queue)
    /\ UNCHANGED <<dcrd, work, lastBlock, inventory, txnsStore, addrMap, view, told, shown, refreshed, skipped, scenario>>

\* The outpoints go to addrMap; then the address signals are sent.
TxAddresses(t, time) ==
    /\ Received(t, time) /\ ~Ignored(t, time)
    /\ addrMap' = addrMap \union {t}
    /\ work' = [Idle EXCEPT !.at = "signal", !.tx = t]
    /\ queue' = Tail(queue)
    /\ UNCHANGED <<dcrd, lastBlock, inventory, txnsStore, view, told, shown, refreshed, skipped, scenario>>

\* A vote on a block that has not been processed waits for that block.
InFuture(t) == t \in Vote /\ VoteOn[t] > lastBlock

\* The rest of TxHandler: txnsStore, the inventory, the broadcast.
TxStored ==
    /\ work.at = "signal"
    /\ txnsStore' = txnsStore \union {work.tx}
    /\ IF InFuture(work.tx) THEN UNCHANGED <<inventory, told>>
       ELSE /\ inventory' = Add(inventory, work.tx, lastBlock)
            /\ told' = [told EXCEPT ![work.tx] = @ + 1]
    /\ work' = Idle
    /\ UNCHANGED <<dcrd, queue, lastBlock, addrMap, view, shown, refreshed, skipped, scenario>>

-----------------------------------------------------------------------------
(* BlockHandler: CollectAndStore and the signal.                           *)

\* Faulty variant: the height of the block that is being mined.
CollectNext ==
    /\ work = Idle /\ queue # <<>> /\ Head(queue) = BlockMsg
    /\ queue' = Tail(queue)
    /\ work' = [Idle EXCEPT !.at = "collect", !.best = tip + 1]
    /\ UNCHANGED <<dcrd, lastBlock, inventory, txnsStore, addrMap, view, told, shown, refreshed, skipped, scenario>>

\* The first call of Collect that matters: GetBestBlock.
CollectBest ==
    /\ work = Idle /\ queue # <<>> /\ Head(queue) = BlockMsg
    /\ queue' = Tail(queue)
    /\ work' = [Idle EXCEPT !.at = "collect", !.best = tip]
    /\ UNCHANGED <<dcrd, lastBlock, inventory, txnsStore, addrMap, view, told, shown, refreshed, skipped, scenario>>

\* mempoolTxns: the transactions of dcrd's mempool, but for those that cannot
\* be fetched afterwards.  They are left out, and the collection goes on.
CollectTxs ==
    /\ work.at = "collect"
    /\ \E S \in SUBSET pool :
          /\ S # {} => scenario.fails
          /\ skipped' = S
          /\ work' = [work EXCEPT !.at = "parse", !.txs = pool \ S]
    /\ UNCHANGED <<dcrd, queue, lastBlock, inventory, txnsStore, addrMap, view, told, shown, refreshed, scenario>>

\* Another call fails: the old inventory stays, and the signal is sent all the same.
RefreshFails ==
    /\ scenario.fails
    /\ work.at = "collect"
    /\ work' = Idle
    /\ refreshed' = FALSE /\ shown' = inventory.txs
    /\ UNCHANGED <<dcrd, queue, lastBlock, inventory, txnsStore, addrMap, view, told, skipped, scenario>>

\* Faulty variant: the transactions are added to the inventory there is.
RefreshKeepsInventory ==
    /\ work.at = "parse"
    /\ lastBlock' = work.best
    /\ inventory' = ParseTxns(inventory.txs \union work.txs, work.best)
    /\ txnsStore' = work.txs
    /\ work' = [work EXCEPT !.at = "address"]
    /\ UNCHANGED <<dcrd, queue, addrMap, view, told, shown, refreshed, skipped, scenario>>

\* Refresh, under p.mtx: last block, inventory and txnsStore.
Refresh ==
    /\ work.at = "parse"
    /\ lastBlock' = work.best
    /\ inventory' = ParseTxns(work.txs, work.best)
    /\ txnsStore' = work.txs
    /\ work' = [work EXCEPT !.at = "address"]
    /\ UNCHANGED <<dcrd, queue, addrMap, view, told, shown, refreshed, skipped, scenario>>

\* The new addrMap, whose address has not been looked up yet, and the signal.
RefreshAddresses ==
    /\ work.at = "address"
    /\ addrMap' = work.txs
    /\ view' = [t \in Tx |-> "none"]
    /\ shown' = inventory.txs
    /\ refreshed' = TRUE
    /\ work' = Idle
    /\ UNCHANGED <<dcrd, queue, lastBlock, inventory, txnsStore, told, skipped, scenario>>

-----------------------------------------------------------------------------
\* UnconfirmedTxnsForAddress copies the transactions of the address from
\* txnsStore, and keeps what it found, or that it found nothing.
UnconfirmedTxnsForAddress ==
    /\ scenario.lookups
    /\ view' = [t \in Tx |-> IF t \in addrMap /\ view[t] = "none"
                             THEN IF t \in txnsStore THEN "data" ELSE "nil"
                             ELSE view[t]]
    /\ UNCHANGED <<dcrd, queue, work, lastBlock, inventory, txnsStore, addrMap, told, shown, refreshed, skipped, scenario>>

Next ==
    \/ \E t \in Tx : Accept(t)
    \/ Mine
    \/ \E t \in Tx, time \in 0..now : TxIgnored(t, time) \/ TxAddresses(t, time)
    \/ TxStored \/ CollectBest \/ CollectTxs \/ RefreshFails \/ Refresh \/ RefreshAddresses
    \/ UnconfirmedTxnsForAddress

Spec == Init /\ [][Next]_vars

-----------------------------------------------------------------------------
(* Properties                                                              *)

\* Nothing is left to do.
Quiet == queue = <<>> /\ work = Idle

\* When nothing is left to do the inventory is dcrd's mempool, but for
\* transactions the last collection could not fetch (collector.go:85), and the
\* clients know all of it: a transaction was broadcast, or was in the inventory
\* they were told to fetch.  Transactions and blocks may come in any order, and
\* dcrd may be ahead of the block that is handled.
MonitorKnowsPool ==
    (Quiet /\ refreshed /\ ~scenario.skewed) =>
        /\ inventory.txs \subseteq pool
        /\ pool \ skipped \subseteq inventory.txs
        /\ \A t \in inventory.txs : t \in shown \/ told[t] > 0

\* A transaction is broadcast as new at most once, and not after an inventory
\* that has it was published: transactions that wait in the queue while
\* Collect reads dcrd's mempool are in both.
NoRepeatedBroadcast == [][\A t \in Tx : told'[t] > told[t] => told[t] = 0 /\ t \notin shown]_vars

\* The counts kept by TxHandler, one transaction at a time, and by ParseTxns
\* for all of them agree: every ticket that votes on the last block counts
\* once, however many votes of it there are.  Only treasury spends count in
\* the one and not in the other.
VotesCountOnce ==
    LET votes == {v \in inventory.txs \intersect Vote : VoteOn[v] = lastBlock}
        sure  == Cardinality(inventory.txs \ (Vote \union TSpend)) + Cardinality(inventory.voted)
    IN /\ inventory.voted = {Ticket[v] : v \in votes}
       /\ inventory.count = Cardinality(inventory.txs)
       /\ inventory.likely \in sure..(sure + Cardinality(inventory.txs \intersect TSpend))

\* "the values stored in TxnsStore are pointers, and they are already allocated
\* and stored in MempoolMonitor.txnsStore": a lookup never leaves a
\* transaction of the address without its data.
LookupsFindTxs == \A t \in Tx : view[t] # "nil"
=============================================================================
