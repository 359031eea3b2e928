# Block pipeline, mempool and hubs of Bison Explorer (dcrdata): TLA+ verification

This directory holds TLA+ models of the part of the explorer that has to be
right for everything else to be right: how blocks and reorganisations announced
by a dcrd node get into the stake database, the ticket pool and the PostgreSQL
chain database; how the mempool monitor follows dcrd's mempool; and how the two
websocket hubs get signals and transactions to their clients. The models are
checked by TLC on small instances. TLAPS proves the type invariant of every
state machine, the refinement and every safety property of the passing runs but one
(`PoolRecovers`), for every value of the constants (section 4); that one and liveness
are model-checked only.
Paths below are relative to `src/`.

## 1. The system

### Components

| Component | State | Operations | What makes it correct |
|---|---|---|---|
| **Ticket pool** `stakedb/ticketpool.go` | `tip`, `cursor`, `diffs`, `pool`; one badger record per height | `Append`, `Trim`, `Pool(h)`, `AdvanceToTip`, loading | `Pool(h)` is the live set at `h`; the cursor stays inside the slice; a successful append is durable |
| **Stake database** `stakedb/stakedb.go` | `BestNode` (memory and ffldb), `PoolDB`, `liveTicketCache`, `blockCache`, `poolInfo` | `ConnectBlock`, `DisconnectBlock(s)`, `NewStakeDatabase`, `LoadAndRecover`, `PopulateLiveTicketCache` | the stake node is that of a real chain; both databases stay at one height; it survives crashes |
| **Stake chain monitor** `stakedb/chainmonitor.go` | a mutex | `ConnectBlock`, `ReorgHandler`, `switchToSideChain` | ends on the new chain from wherever the stake database was |
| **Notifier** `cmd/dcrdata/internal/notification` | `anyQ`, `previous` | `superQueue`, `processBlock`, `catchUpMissedBlocks`, `runBlockHandlers`, `signalReorg`, `processTx` | in order, once recorded never lost, gaps replayed, never stuck |
| **Block data monitor** `blockdata/chainmonitor.go` | `reorgLock` | `ConnectBlock` (collect, then the savers), `ReorgHandler` | the data of a block is stored with that block, and not during a reorganisation |
| **Chain database** `db/dcrpg` | `blocks.is_mainchain`, `bestBlock`, the other tables | `Store`/`StoreBlock`, `TipToSideChain`, `ReorgHandler`, `SyncChainDB`, purge | main chain rows are one chain that ends at `bestBlock` |
| **Node access** `rpcutils` | prefetch client's two blocks | `CommonAncestor`, `OrphanedTipLength`, prefetch | right answers at the boundaries |
| **Mempool monitor** `mempool` | `inventory`, `lastBlock`, `txnsStore`, `addrMap` | `TxHandler`, `BlockHandler`, `Refresh`, `UnconfirmedTxnsForAddress` | the inventory is dcrd's mempool; nothing announced twice; tickets count once |
| **Pub/sub hub** `pubsub` | client map, a channel and a list of transactions per client | `Run`, `Stop`, `receiveLoop`, `sendLoop` | no send on a closed channel, nothing lost or repeated, slow and gone clients block nobody, `Stop` ends |
| **Explorer hub** `cmd/dcrdata/internal/explorer/websocket*.go` | client map, two channels per client, one buffer of transactions | `run`, `Stop`, `RootWebsocket` | the same |
| **Start-up** `cmd/dcrdata/main.go`, `db/dcrpg/sync.go` | how far it has come | recovery, purge, rewind, batch sync, `SetPreviousBlock`, `Listen` | no block missed between sync and listening |
| **Caches** `db/cache`, `trylock` | address rows keyed by block, chart series | store, clear, `Lengthen`, `Snip`, `ReorgHandler` | never serve rows of an orphaned block |
| HTTP API, pages, governance, exchanges, other chains, swap scanner, front end | | | stateless, or independent of the pipeline |

`PROJECT.json` lists all of them with their status.

### How they interact

dcrd sends "block connected", "reorganisation" and "transaction accepted"
notifications over a websocket. The RPC client's goroutine puts them in the
channel `anyQ`; one goroutine, `superQueue`, takes them out and runs the
registered handler *groups* one after the other, the members of a group
concurrently:

    block:   stakedb.ConnectBlock  ->  blockdata.ConnectBlock (collect, ChainDB.Store,
             other savers)  ->  height update, mempool.BlockHandler
    reorg:   stakedb.ReorgHandler  ->  blockdata.ReorgHandler | dcrpg.ReorgHandler
             ->  charts.ReorgHandler
    tx:      mempool.TxHandler | insight

Handlers report through a channel; after `SyncHandlerDeadline` (20 minutes)
`superQueue` gives up on them but cannot stop them. A block whose parent is not
`previous` is either replayed from the node *by height* (`catchUpMissedBlocks`)
or discarded. Handlers ask the node again for blocks and hashes, and the node
may have moved on by then. `ChainDB.StoreBlock` needs the pool info that the
stake database put in its cache for the block and its parent. Readers (page
requests) call `PoolDB.Pool(h)` at any time and move the same cursor the writer
uses. The savers of block data and the mempool monitor send signals to the two
hubs over the unbuffered channel `HubRelay`; a hub's event loop passes them on
to a channel per client, which the client's own goroutine reads.

### What is hard

* Two databases per block (ffldb, badger) and a third (PostgreSQL) without a
  common transaction: a crash or an error between any two writes.
* The node is a moving target: everything looked up by height or "best block"
  may belong to another branch, or another block, than the message being handled.
* Handlers that fail, time out and go on; replays of what was already done.
* Notifications that are lost, or a reorganisation that arrives after the
  blocks of the new branch have already been delivered.
* A shared cursor moved by writer and readers, boundaries at genesis and tip.
* Event loops and handlers that wait for each other on bounded channels, and
  channels that are closed by one while another sends.
* State under two locks (mempool's address map and transaction store) that is
  changed in two steps.

Every place where one of these bites is listed under `hazards` in
`PROJECT.json`, with the properties that would catch it.

## 2. The modules

| Module | Models | Uses |
|---|---|---|
| `BlockTree` | the blocks dcrd knows, as a tree; `GetBlockHash`, heights, the loop of `CommonAncestor` | |
| `TicketPool` | `stakedb.TicketPool`, one writer, readers, a disk that may fail | |
| `TicketPoolProofs` | the inductive invariant, the theorems | `TicketPool` |
| `StakeDB` | `StakeDatabase`, the stake `ChainMonitor`, ChainDB's best row and meta table, crash and the whole start | `BlockTree` |
| `Notifier` | `Notifier`, block data monitor, `ChainDB` rows, stake database tip | `BlockTree`, `FollowedChain` |
| `FollowedChain` | what ChainDB's readers are promised: one chain whose rows come and go one at a time, and a best block that follows before the next does | `BlockTree` |
| `Mempool` | the mempool monitor, dcrd's mempool, lookups | |
| `PubSubHub` | the pub/sub event loop and the loops of its connections | |
| `ExplorerHub` | the explorer's event loop, its ticker and its connections | |
| `BlockTreeProofs` | chains and heights of any tree; what `CommonAncestor` returns | `BlockTree` |
| `StakeDBProofs` | three inductive invariants: whatever fails, the start and ChainDB, and with some writes that succeed | `StakeDB`, `BlockTreeProofs` |
| `NotifierProofs` | three inductive invariants; the main chain, the replay, the refinement of `FollowedChain`, the heights when reorganisations fail | `Notifier`, `BlockTreeProofs` |
| `MempoolProofs` | the inductive invariant, what the monitor knows, counts and announces | `Mempool` |
| `TxSequences` | lemmas on the runs of transactions 1, 2, 3, ... both hubs hand out | |
| `PubSubHubProofs`, `ExplorerHubProofs` | closed channels, transactions once and in order | the hub, `TxSequences` |
| `MC*` | trees, votes and scenarios for TLC | the module of that name |

The first three state machines are layers of one system. `TicketPool` shows that
`Pool(h)` is what the list of diffs says; `StakeDB` therefore uses the list and
computes `PoolAt(diffs, h)` directly. `StakeDB` shows what `ConnectBlock` and
the reorganisation do to the tip; `Notifier` therefore sees the stake database
as a tip that accepts its children and itself (`StakeAccepts`), with the two
ways it can fail. Conversely `StakeDB` sees the notifier through what reaches
its handlers: blocks at the next height, reorganisations in order, after the
fact. `Mempool` sees the notifier as a FIFO queue of transactions and blocks.
The hubs see everybody else as senders on `HubRelay`.

One abstract specification says what a component promises, and the detailed
module is shown to implement it (`ImplementsFollowedChain`). `FollowedChain` has a set
of main chain blocks and a tip, which readers see separately. They are mapped to
`MainRows` and `bestBlock`, in the scenarios whose faults the replay makes good
(`Replayable`): there the rows are one chain of dcrd's tree, every step of the pipeline
inserts the row of a child (`Insert`), takes the last row off (`Remove`) or moves
`bestBlock` to the end of the chain (`Settle`), and a row follows another only when
`bestBlock` has moved. In the other scenarios nothing is claimed.

**Scenarios.** What may go wrong together decides what can be promised. A
behaviour of `StakeDB` chooses a member of `Reach` at the start (a set of faults
and the part of the tree dcrd gets to), one of the other modules a member of
`Scenarios`; it never changes. One run so covers several fault sets, and each property says for
which of them it holds.

In each module an operator called a *faulty variant* stands before the
definition it varies. It is not part of the specification: it is a plausible
mistake in that piece of code, and TLC finds the property it is listed with
violated once it takes the definition's place. That is the evidence that the
property depends on the code.

### TicketPool

State: the fields of the struct; `diffDB` is badger by height. `op` is the
holder of the mutex with the height it moves to. `live` and `unstored` are
history: the true live set per height, and the heights whose store reported an
error. `answer` is what `Pool` returned in the last step.

The loops of `advance` and `retreat` are one iteration per step, so every
intermediate position of the cursor is a state. `Append` is two steps because it
reads `tip` before it takes the lock (`ticketpool.go:651`); the writer itself is
sequential since every caller holds `nodeMtx`. `LoopFails` is the early return on
a size mismatch, with what each of the three callers does with the error. A diff
that is appended builds on the live set before it (`BuildsOn`): `ConnectBlock`
takes the outgoing tickets from the node's own winners and expired tickets, and
`ConnectNode` refuses a maturing ticket that is live already.

### StakeDB

State: `bestNode` is the stake node with its undo data, one `[blk, live]` per
height; `stakeDisk` what the last successful `Update` wrote. `diffs`/`diffDB` are
the ticket pool in memory and on disk. `job` is the handler call in progress
(blocks to undo, then blocks to connect), `connected` the point inside
`ConnectBlock` between the two database writes. `lostTickets` is history: the
tickets `undoDiff` could not fetch since the cache was filled.

ChainDB is here its best main chain row (`chainDB`, standing for the chain below
it) and its meta table (`chainMeta`), since the start compares both with dcrd and
with the stake database; `storing` is what ChainDB has to do once the stake
database is done. `status` distinguishes the phases of a start: `loading`
(`NewStakeDatabase`), `recovering` (`LoadAndRecover`), `starting` (`main.go` before the
sync), and `panicked` for a ticket pool that cannot be loaded any more; `stage` is
how far `main.go` has come: `check`, `purge`, `rewind`, `import`, `failed`, `listen`,
`live`. `missed` is history: dcrd moved between the last sync and `Listen`.

| Actions | Code |
|---|---|
| `ConnectRPCFails`, `ConnectPanics`, `ConnectOld`, `ConnectNodeFails`, `connectBlock`, `PoolAppend` | `ConnectBlock`, `connectBlock`: the ways through them, in order; the block is cached before it is checked, as in the code |
| `disconnectBlock`, `DisconnectRPCFails`, `DisconnectPanics` | `DisconnectBlock`, `undoDiff`; with `undo` it loses any of the tickets it asks dcrd for (`UndoCache`) |
| `BlockHandler`, `ReorgHandler`, `ReorgAborted` | `ChainMonitor.ConnectBlock`, `ReorgHandler`, `switchToSideChain` |
| `TipToSideChain`, `switchToSideChain`, `StoreBlock`, `SetDBBestBlock`, `StoreFails` | ChainDB after the stake database: rows and meta table, with a crash between any two |
| `Load`, `LoadRollsBackNode`, `LoadTrimsPool`, `LoadFails`, `LoadRPCFails`, `RecoverRewinds`, `PopulateLiveTicketCache` | `NewTicketPool`, `LoadAllPoolDiffs`, `Open` (with its new genesis node when the block of the tip cannot be fetched), `NewStakeDatabase`, `LoadAndRecover` |
| `NewChainDB`, `OrphanedTipLength`, `DeleteBestBlock`, `RewindStakeDB`, `PurgeFails`, `StartSync`, `importBlock`, `importPanics`, `SyncFails`, `SyncDone`, `Listen`, `StartupFails` | the repair of the meta table in `NewChainDB`; `main.go:453-528`: the orphans of ChainDB's tip, `PurgeBestBlocks` with its error after rows are deleted, `RewindStakeDB`; `importBlocks` with its panic; `main.go:1611-1645`: the last sync, `SetPreviousBlock`, `Listen` |
| `Crash`, `NodeExtends`, `NodeReorganizes` | environment |

`ConnectNodeOK` stands for dcrd's `stake.Node.ConnectNode` (external): the votes
of a block are votes of winners of its parent, so only a child of the node's
block connects. `faults`, a member of `DOMAIN Reach` chosen at the start, says
which failures may strike in a behaviour.

`ShallowForksAssumption`: forks are shallower than `TicketMaturity`. The code
looks up the maturing block by height, in a cache or from the node, and needs
this; on mainnet `TicketMaturity` is 256.

### Notifier

State: `anyQ`, `previous`; `task` is what `superQueue` is in the middle of (idle,
replaying, running the groups of a block, or a step of a reorganisation);
`stakeTip`, `stakeSaved` (whether ffldb has it) and `poolInfo` are the stake database as
seen from here; `rows` is
the blocks table with its `is_mainchain` flag, `misdated` the rows that hold the
data of another block, `bestBlock` ChainDB's tip. `overdue` are the block
handlers and `late` the reorg handler that go on after their deadline. `clean`
and `told` are history used to say "since the last fault".

| Actions | Code |
|---|---|
| `processBlock`, `catchUpMissedBlocks` | the same; the next block of a replay is dcrd's at that height, at that moment |
| `stakeConnectBlock`, `collectOnce`, `blockdataConnectBlock`, `blockdataBlockStored` | the groups of `runBlockHandlers`, with one disjunct for each outcome that leaves different state. `StoreBlock` is two steps, the row and then `bestBlock` (group `"stored"` in between); it may fail between them, before them, or after them in a later saver |
| `signalReorg`, `stakeRewind`, `stakeConnect`, `chainRewind`, `TipToSideChain`, `TipMoved`, `chainConnect`, `chainStored`, `recordReorg` | a reorganisation, one row or one block at a time: `TipToSideChain` flags the row of the tip, `TipMoved` moves `bestBlock` to its parent; `chainConnect` inserts a row, `chainStored` sets `bestBlock`. dcrd and readers come between any two |
| `HandlerOverdue`, `OverdueConnects`, `OverdueCollects`, `OverdueInserts`, `OverdueStored`, `ReorgOverdue` | `SyncHandlerDeadline` passes, in any group, and the handler goes on beside `superQueue` |
| `blockdataReorgFails` | the error path of block data's `ReorgHandler`, which panics |
| `NodeExtends`, `NodeReorganizes` | dcrd |

Two locks keep these apart. `reorgLock` is held by block data's `ConnectBlock`
from its first call to dcrd to its end (groups `"hash"`, `"best"` and `"stored"`: it collects the block
by its hash, or dcrd's best block when the heights are equal), and its
`ReorgHandler` waits for it. The mutex of the stake `ChainMonitor` is held by a
reorg handler that is still in the stake database (`stakeMtxFree`). The steps of
a reorganisation take `"main"` or `"late"` as a parameter: the same code runs
for `superQueue` or on its own.

`RowsTip` is where the rows end: at `bestBlock`, or one row beside it between two such
steps. `TipToSideChain` walks down the rows as in the code and loops for ever when it
runs out of them (step `"hung"`); what other goroutines do beside that loop is
not modelled, and neither is a process after a panic.

Fault names: `lost`/`lostReorg` (notifications not delivered), `rpc` (the node
does not answer `processBlock` or the replay), `stake` (ConnectBlock fails, before or
after the tip moved), `disk` (`BestNode` is replaced and the write to ffldb fails),
`collect`, `store` (StoreBlock, or the first statement of TipToSideChain, fails half way), `late`
(after the store), `deadline` and `reorgDeadline`, `ancestor` (common ancestor
not found), `reorg` (a reorg handler fails), `reorgCollect` (block data of the
new head cannot be collected), `moves` (dcrd moves between the two calls of
`collectOnce`; in the other scenarios these two calls see one dcrd).

### Mempool

State: dcrd's mempool, tip, header times and clock; `queue`, the transactions and
blocks in `anyQ`; `work`, the handler that runs with what it has read; the
monitor's `lastBlock`, `inventory`, `txnsStore`, `addrMap`; `view`, what lookups
have put in the address's own `TxnsStore`. `told`, `shown`, `refreshed` and `skipped` are
history: what clients have been told, and which transactions the last collection left
out because dcrd did not return them.

`TxHandler` is `TxIgnored`, or `TxAddresses` and then `TxStored`: between the two
the code sends address signals without a lock. A block is `CollectBest`,
`CollectTxs`, `Refresh`, `RefreshAddresses`, or `RefreshFails`; each of them is
one call to dcrd or one critical section. `Add` is the inventory as `TxHandler`
keeps it, `ParseTxns` as a refresh computes it. `UnconfirmedTxnsForAddress` is one
step because it holds the lock of the address map throughout.

### PubSubHub

State: `run` is the event loop (at its select, relaying a message to the clients
in `todo`, or waiting for handlers at its end); per connection its spoke, the
position of `WebSocketHandler`, `receiveLoop` and `sendLoop`, its subscriptions
and list of transactions. A connection begins with the handshake (`Upgrade`, or
`HandshakeFails`). A step of the loop is one case of the select or one
client of the loop over clients: other goroutines run in between. `sendMsg` has
the three ways out of the code's select (sent, handler gone, five seconds
passed). A transaction is a number; `joined` and `got` are history, to say which
were to be received and which were.

### ExplorerHub

State: as before, with two channels per client, one buffer of transactions for all,
the ticker of `periodicBufferSend`, and `pushers`, the goroutines that
`maybeSendTxns` starts for a full buffer, by the send they are about to do. Signals
never wait (`Signal` unregisters those whose channel is full, as in the code);
exchange updates do (`SendUpdate`). A handler that returns waits in its
deferred `UnregisterClient` (`handler = "unregister"`) until the loop takes it. A
handler receives a signal (`TakeSignal`) and reads `newTxs` under the lock in a later
step (`ReadTxs`): the loop can replace the list in between.
`panicked` is a send on a closed `bufferTickerChan`.

## 3. The runs

| Run | Checks | Shows |
|---|---|---|
| `ticketpool` | `TypeOK`, `CursorInBounds`, `PoolIsLiveAtCursor`, `StoredDiffsAreCurrent`, `PoolAnswersLiveSet`, `LockIsReleased` | lookups are right under any interleaving with appends and trims, and every loop ends |
| `stakedb` | `TypeOK`, `StakeNodeIsTrue`, `PoolTracksStakeNode`, `TicketCacheIsAccurate`, `DiskIsCurrent`, `PoolDBLoads`, `HeightsAgree`, `PoolRecovers` | whatever fails, the live tickets of the stake node are those of a real chain; failing calls leave the copies of the state in agreement, but for the tickets `undoDiff` could not fetch; after crashes at any point, during the start too, the pool is right again once the process listens, also where badger still had the diff of an orphaned block |
| `stakedb_live` | `RestartsUnlessStranded`, `FollowsNode` | after every crash the process listens again and gets to dcrd's tip, unless the crash left the stake database off the chain ChainDB shares with dcrd, or dcrd moved just before `Listen` |
| `notifier` | `TypeOK`, `MainChainIsBestChain`, `OneMainBlockPerHeight`, `RecordedIsProcessed`, `ReplayCatchesUp`, `AncestorIsLastShared`, `ImplementsFollowedChain`, `SuperQueueReturns`, `FollowsNode` | failed and lost blocks are replayed, the main chain rows are always exactly one chain that ends at `bestBlock` or one row beside it, a failed or dropped reorganisation does not leave two main chain blocks at a height, and nothing, deadlines included, keeps `superQueue` but the loop of `notifier_hang` |
| `pubsub` | `TypeOK`, `NoSendOnClosedSpoke`, `TxsOnceInOrder`, `HubStops`, `GoneClientLeaves` | slow, leaving and unsubscribing clients disturb neither each other nor the stop; no transaction is lost or repeated between event loop and send loop |
| `explorer` | `TypeOK`, `NoSendOnClosedSpoke`, `TxsOnceUnlessReplaced`, `BufferedTxsLeave`, `GoneClientLeaves`, `HubStops` | the same of the explorer's hub, as far as it holds |
| `mempool` | `TypeOK`, `MonitorKnowsPool`, `VotesCountOnce`, `NoRepeatedBroadcast` | transactions and blocks in any order end in dcrd's mempool, but for what a collection could not fetch; each is announced once, and the two ways of counting agree |
| `notifier_hole` | `NoHoleInDB` | **violated**, see 6 |
| `notifier_hang` | `TipToSideChainEnds` | **violated** |
| `notifier_data` | `DataIsOfTheBlock` | **violated** |
| `explorer_stop` | `StopClosesConnections` | **violated** |
| `mempool_lookup` | `LookupsFindTxs` | **violated** |

### Bounds, and why they are enough

For every property of section 4 larger values are covered by the proof. They matter
for liveness and for `PoolRecovers`, and for the scenarios a run must contain to say anything:

* `TicketPool`: two tickets distinguish a diff's `In`, `Out` and untouched
  tickets; height 2 gives a cursor that can be below, at and above every target,
  a trim to height 0, a height that is appended, trimmed and appended again, and
  requests for -1 and tip + 1 (`Requests`).
* `StakeDB`: the tree has a trunk of `TicketMaturity` = 4 blocks and two branches
  of 3 and 4, so that reorganisations up to three blocks deep go in both directions and
  tickets mature and win differently on each branch (`MCTicketsIn`, `MCWinners`):
  a diff of one branch is wrong on the other, in content and (at one height) in
  size, so that recovery's size check sees it. `MaxCrashes` = 2 allows a crash during
  the recovery from a crash. `RecoverDepth` = 2 stands for the 288 of
  `main.go:164`; it is less than the depth of the deepest fork, so that recovery
  does not always rewind below the fork (harsher than the code's 288). Scenarios of
  `stakedb`: `{rpc, undo}` on the tree without the last block of each branch, `{crash}`
  on the whole tree, all five faults together on a tree that ends with the first
  blocks after the fork. `stakedb_live` has `{crash}` on the whole tree.
* `Notifier`: forks at three heights, so that a second reorganisation that is
  deeper, shallower or beside the first arrives while the first is queued.
  `MaxCatchUp` = 2 (2000 in the code) is small enough that gaps of 1, 2 and 3
  blocks occur: below, at and above the limit. Scenarios: no faults on the full
  tree; `rpc`, `stake`, `collect`, `late`, `lost`, `reorgCollect`, then `reorg`,
  `ancestor`, `lostReorg` on the *nested* tree; on a short tree everything but
  deadlines, `disk` and `moves`, then `disk`, `deadline` with `store`, and `deadline` with
  `reorgDeadline`. The nested tree lacks branch d, the only one that forks below the
  ancestor of a reorganisation that may still be queued; there, with replays,
  `TipToSideChain` misses its root (`notifier_hang`) and the properties about its
  result are void. One block handler (`MaxOverdue`) and one reorg handler may be
  past their deadline at a time: 20 minutes each.
* `PubSubHub`, `ExplorerHub`: two connections, channels of one or two messages and
  a buffer of two transactions, so that every channel fills up and the buffer is
  sent both full and by the ticker. The scenarios (`MCPubSubHub`, `MCExplorerHub`)
  divide what may happen: who leaves, who unsubscribes, whether the hub stops,
  whether exchange updates come.
* `Mempool`: two votes of one ticket on block 1, one of another on block 2, a
  treasury spend and another transaction; up to three blocks; collections that fail or
  lack transactions. A vote can so come
  before its block has been handled, a ticket vote twice, a transaction be mined
  while it waits in the queue, and dcrd be two blocks ahead. `Skew` = 2 makes a
  header's time later than the next transaction's.
* Except for `TicketPool` the environment is finite (blocks, transactions,
  connections), so the system may be quiescent: deadlock is not checked there
  (`CHECK_DEADLOCK FALSE`), and "dcrd's best block no longer changes" is true of
  every infinite behaviour. `TicketPool` never stops and is checked for deadlock.

### Fairness

* `TicketPool`: weak fairness of `Holder`. The goroutine that holds the mutex
  does not block: it loops over slices in memory.
* `StakeDB`: weak fairness of `Handler` (a handler goroutine in progress is
  scheduled) and of `Startup` (a service manager starts the process again), and
  strong fairness of `ReorgHandler`: it is enabled only between other handler
  calls, but the reorganisation sits in a FIFO queue, so finitely many messages
  come before it. Faults, crashes and dcrd's moves are under no fairness.
* `Notifier`: weak fairness of `superQueue`, a loop over a channel, and of the
  overdue handlers, which are goroutines nobody stopped. The waits for `reorgLock`
  and for the stake monitor's mutex are part of the model, so weak fairness does
  not assume them away. No deadline has to pass.
* The hubs: weak fairness of the goroutines' own steps. Strong fairness where a
  select has several ready cases, among which Go chooses at random (quit, send of
  the buffer, unregister), for the pings, which a ticker keeps sending, and for a
  write to a peer that has left, which fails in the end. Nobody has to connect,
  to leave, to subscribe, or to stop the hub.
* `Mempool` has no liveness property.

## 4. The proofs

TLAPS checks these theorems, from the assumptions below and nothing else. They
hold for every value of the constants (any tree of blocks, any tickets, clients
and transactions, any sizes of queues and channels, any set of scenarios) and
every interleaving. "States" names the definition the runs check on an instance.

| Module | Theorem | States |
|---|---|---|
| `TicketPoolProofs` | `TypeCorrect` | `[]TypeOK` |
| | `CursorSafe` | `[]CursorInBounds` |
| | `PoolCorrect` | `[]PoolIsLiveAtCursor` |
| | `AppendDurable` | `[]StoredDiffsAreCurrent` |
| | `PoolAnswersCorrect` | `PoolAnswersLiveSet` (an action property) |
| `StakeDBProofs` | `TypeCorrect` | `[]TypeOK` |
| | `StakeNodeStaysTrue` | `[]StakeNodeIsTrue` |
| | `PoolFollowsStakeNode` | `[]PoolTracksStakeNode` |
| | `CacheStaysAccurate` | `[]TicketCacheIsAccurate` |
| | `DiskIsAlwaysCurrent` | `[]DiskIsCurrent` |
| | `HeightsAlwaysAgree` | `[]HeightsAgree` |
| | `PoolDBNeverPanics` | `[]PoolDBLoads` |
| `BlockTreeProofs` | `CommonAncestorIsLastShared` | what the loop of `CommonAncestor` returns for any two blocks |
| `NotifierProofs` | `TypeCorrect` | `[]TypeOK` |
| | `AncestorIsAlwaysLastShared` | `AncestorIsLastShared` (an action property) |
| | `MainChainIsAlwaysBestChain` | `[]MainChainIsBestChain` |
| | `RecordedIsAlwaysProcessed` | `[]RecordedIsProcessed` |
| | `ReplayAlwaysCatchesUp` | `[]ReplayCatchesUp` |
| | `OneMainBlockPerHeightAlways` | `[]OneMainBlockPerHeight` (under `OneAtATime`) |
| | `PipelineImplementsFollowedChain` | `ImplementsFollowedChain` (the refinement) |
| `MempoolProofs` | `TypeCorrect` | `[]TypeOK` |
| | `QuietMonitorKnowsPool` | `[]MonitorKnowsPool` |
| | `VotesAreCountedOnce` | `[]VotesCountOnce` |
| | `BroadcastOnce` | `NoRepeatedBroadcast` (an action property) |
| `PubSubHubProofs` | `TypeCorrect` | `[]TypeOK` |
| | `NeverSendsOnClosedSpoke` | `[]NoSendOnClosedSpoke` |
| | `ClientsGetTxsOnceInOrder` | `[]TxsOnceInOrder` |
| `ExplorerHubProofs` | `TypeCorrect` | `[]TypeOK` |
| | `NeverSendsOnClosedSpoke` | `[]NoSendOnClosedSpoke` |
| | `ClientsGetTxsOnce` | `[]TxsOnceUnlessReplaced` |

In each module one lemma per action shows that the action preserves the inductive
invariant, `NextInv` (or the module's equivalent) collects them, and the theorems
follow from the induction.

### Assumptions

Every assumption is a named `ASSUME` and is evaluated by the run of the module.

* `BlockTree`: genesis is a block, every other block has a parent, and following
  `PrevBlock` ends at genesis (`TreeAssumption`, as well-foundedness: every
  nonempty set of blocks has a member whose parent is not in it). dcrd accepts no
  block without its parent.
* `StakeDB`: `ShallowForksAssumption` (section 2); dcrd has a highest block
  (`HeightsAssumption`); the winners it draws at a block are live there
  (`WinnersAssumption`); the bounds are natural numbers and the two "nothing here"
  values are no blocks and no diffs.
* `Notifier`: `NestedForksAssumption` says what the constant `DeepBranch` is. Outside
  it, a chain that has the ancestor of a fork, and is at least as high as the fork's new
  head, is not left below that ancestor. It is no restriction on the tree: every tree has
  such a `DeepBranch`, everything but genesis if need be. The theorems use it only for
  behaviours that have faults and stay outside `DeepBranch` (`NestedForks`); the ones
  without faults fork in any way. How deep a fork may be is what `notifier_hang` is about.
* `TicketPool`: `MaxHeight` is a natural number, `Tickets` is finite (cardinalities
  are compared), `StoreOK` is a set of Booleans, `NoDiff` and `NoAnswer` are not
  values they could be confused with.
* `Mempool`: a transaction is a regular transaction, a treasury spend or a vote, and
  only one of them; a vote is on the block of some height and spends a ticket.
* The hubs: channels have a capacity and buffers a size of at least one, `"newtxs"`
  is a topic, the number of transactions of a scenario is a natural number.

### Ticket pool

None of the invariants is inductive as it stands. That the pool is right at the
cursor says nothing about the next diff; the invariant `TicketPoolInv` adds

* `Linked`: each diff builds on the live set before it and yields the one after
  it, so one step of `advance` or `retreat` goes from one live set to its
  neighbour (`ApplyUndo`: undoing a diff that builds on a set restores it);
* `TipMatches`: in the middle of `trim`, `tip` is one less than the number of
  diffs, otherwise equal. This is the window in which an access could go out of
  bounds;
* `HolderInRange`: the target of the holder is at most `tip`, and a free lock
  has no target;
* `WriterReady`: between the unlocked check and the locked part of `Append`,
  `tip` and the live set have not changed, since no trim can begin;
* `PoolAtCursor` and `StoredDiffsAreCurrent` themselves.

`PoolAnswersCorrect` needs one fact more: for a height in `0..tip` the
size check of the loops never fails (`SizeAsExpected`, by cardinality of
disjoint unions and differences), so that `Pool` returns an error only for
heights outside the chain.

### Chains of blocks

`ChainTo`, `AncestorOf`, and in `StakeDB` `LiveAt` and `PoolAt`, are recursive functions,
and the library's induction theorems are out of the provers' reach. The
proofs first show that a closed form (the one chain of a block, the last shared
block of two chains) satisfies the defining equation, so that the function, which
is some solution of it, does too; what it computes then follows from a least
counterexample, which `TreeAssumption` or the ordering of the naturals
provides. `BlockTreeProofs` gets from this that `Chain[b]` is the
chain of parents, that a block is on the chain of another exactly when it is the
one at its height, that two chains agree up to their common height, and that the
loop of `CommonAncestor`, which never looks at the tips themselves, ends at the
highest block both chains share below them.

### Stake database

Three invariants. `StakeInv` holds whatever fails, a crash between any two writes
included:

* `NodesInv`: the stake node, in memory and on disk, is the one of a real chain,
  with the live set and the undo data of every block on it;
* `ChainInv`: what dcrd has announced is not above its best block, and every queued
  reorganisation is between branches;
* `JobInv`: the blocks of a handler call exist, and between the two writes of
  `ConnectBlock` the pending diff is that of the tip;
* `CacheInv`: the block cached at a height is of that height. It may be of
  another branch; `ShallowForksAssumption` makes that harmless, since the maturing
  block is below every fork;
* `PoolInv`, `StatusInv`: types of the ticket pool, and the state a start is in.

That the diff `ConnectBlock` computes from the node's winners and the cached
maturing block is the true one (`TrueDiff`) is the heart of the argument; it
uses `WinnersAssumption` and that a maturing ticket is not live before.

`MainInv`, whatever fails too, is about the start and about ChainDB: the stage fits the
status, ChainDB's two tables hold blocks, and what ChainDB is still to do is a
chain (the root of a reorganisation lies below its head). A rewind of the start to ChainDB's
height could not be shown to stay on real blocks without it.

`FaultsInv` says what holds as long as certain writes succeed: `StoredInv` (badger
writes: what is in memory is stored and no key is missing), `AlignedInv` (ffldb
writes: disk and memory agree and the pool is at the node's height, or one
below it between the two writes), `AccurateInv` (only calls to dcrd fail, those of
`undoDiff` included: the stored diffs are those of the stake node, and the ticket cache
holds only live tickets and lacks only `lostTickets`).
`PoolFollowsStakeNode` then follows by evaluating `PoolAt` on the true diffs.

### Notifier

`NotifierInv` adds to the types that dcrd is never below a block it has notified or
that is being handled, and that a queued or running reorganisation leads to a
higher block of another branch. Without this a look-up by height
(`BlockAt(best, h)` in a replay, `Chain[best]` in `chainRewind`) could be outside the
chain. `AncestorIsAlwaysLastShared` is `CommonAncestorIsLastShared` at every best block
of dcrd.

Four theorems are about the scenarios in which the replay makes good what
fails (`Replayable`), and need a second invariant, `PipelineInv`. That the rows are the
chain of `bestBlock` breaks when `TipToSideChain` does not meet its root or when a
block is stored on another than its parent; both depend on what is still in the queue
and on where dcrd has gone since. Its parts:

* `TipsAgree`: the rows are the chain of `RowsTip` (`bestBlock`, the child whose row was
  just inserted, or the parent of the row just flagged), the stake database has the pool info
  `StoreBlock` will ask for, and the three tips are one below the other
  (`InStep`). In a reorganisation, step by step: which tip has been moved to
  the new branch, that `todo` is what is left of it, and that the ancestor can be reached
  from the tips that have not moved (`ReorgInv`, `Reachable`: above it, or, after missed
  blocks, below it on dcrd's chain);
* `CaughtUp`: the last message of the queue, or what is being handled after it, leads
  to dcrd's best block;
* with faults, `QueueNested` and `TaskNested`: the tips, and what each queued message leads
  to, are above or below the ancestor of the next reorganisation in the queue, and on
  dcrd's chain when there is none (`Fits`); a reorganisation's ancestor stays on
  dcrd's chain (`Nested`). `NestedForksAssumption` keeps this true
  when dcrd switches branches. It is what lets a replay by height, which may run into a
  newer branch, do no harm;
* without faults, `QueueGapless` and `TaskGapless`: the queue goes on, block after block, where
  the handlers are, up to the block that the next reorganisation leaves
  (`Continues`), or the handlers have run ahead of it by a replay (`Switching`). This
  holds for forks of any depth, and excludes the gaps that make a replay meet an
  older reorganisation.

Neither of the last two holds in the other's scenarios: a lost block leaves a gap, and a
deeper fork is not nested. The refinement needs only `TipsAgree` before and after a
step, and that the step inserts the row of a child, takes off the last row, or moves
`bestBlock` to where the rows end.

`OneMainBlockPerHeightAlways` also covers reorganisations that fail half way, are dropped
or are never notified, as long as no handler runs beside `superQueue`, no row is left
half stored and dcrd's forks are nested (`OneAtATime`). Nothing of `PipelineInv` survives there. The main chain rows
have holes and need not be one chain: ChainDB left below an ancestor by a failed
reorganisation fills the gap with dcrd's blocks, on top of rows of a branch dcrd never
told it to leave. The tips may be on three different branches. What is left is an order,
and the third invariant, `SingleInv`, says which:

* `QueueRising`: each message leads to a block that is lower than the heads of the
  reorganisations behind it, or is such a head, and the ancestor of a reorganisation is on
  the chain of every later ancestor. dcrd only goes up, and forks outside `DeepBranch` do
  not undercut each other (`RootKept`);
* `TipsBehind`: the same for the stake database and for what is being handled, so that a
  reorganisation never finds the stake database beside or above its new head;
* a *floor*, a block `f` that no reorganisation still to come goes below (`Floor`): the
  ancestor of the last one taken up, genesis before that. It changes in `signalReorg`
  only, and only upwards;
* `LowRows`: no main chain row is above `bestBlock`, or above the row just inserted
  (`RowInserted`), and those above the floor are on its chain. Below the floor the rows
  may be of any branch, but nothing is stored there any more, except to fill heights
  above `bestBlock`, which are empty;
* `InLine`, between reorganisations: the stake database is below `previous`, and
  `StakeAccepts` refuses every block that `superQueue` runs; or it is on
  `previous` or a child of it, and what is stored next is `bestBlock` once more or
  a block above it. `ReorgRows`, in a reorganisation, for each of its steps, a row flagged
  and a row inserted among them: ChainDB stores exactly the new
  chain's blocks above `bestBlock`, missed ones included.

When `TipToSideChain` loses its way, the rows it has flagged are only fewer, and nothing
but dcrd moves afterwards; `SingleInv` then claims nothing about `bestBlock`.

### Mempool

* `PendingOnce`: a transaction is in the queue or in the handler once, and clients
  have not been told of it;
* `ShownIsInventory`: clients know the inventory and nothing else, except while
  `Refresh` replaces it;
* `BlocksFollow`: a transaction that was mined while it waited has the block behind it in
  the queue;
* `PoolFollowed`: the inventory differs from dcrd's mempool only by what is
  still in the queue and will not be ignored for its time, and by what the last
  collection skipped. It is needed in every
  phase of `Refresh`, which reads dcrd's best block and mempool in two steps;
* `Finite`: the sets that are counted are finite.

`MonitorKnowsPool` is `PoolFollowed` with an empty queue. `BroadcastOnce` is an action
property: it follows from `PendingOnce` and `ShownIsInventory`.

### Hubs

`NoSendOnClosedSpoke` follows from `ClosedWhenRemoved` (a client's channel is closed
exactly when it leaves the map, and no client is registered twice) and, for
pub/sub, `RelaysToClients` (the loop over the clients has left to serve only
registered ones). That transactions arrive once and in order relates four places
a transaction can be in: what a client has got, what its goroutine has taken, what
waits for it, and the buffer. `TxsOnceInOrder` says that together they are the
transactions since the client joined; to be inductive it needs
`FreshUntilRegistered`, `TakesWhenWritten`, and in the explorer `BufferIsLatest` and
`OneSignal` (one signal at most is on its way to a client whose list has not been
replaced). A list waits for a client (`Unread`) while the signal is in its channel and
also after the client has taken the signal and not yet read; replaced in either, the
client counts as `replaced`.

### Only model-checked

Liveness (`LockIsReleased`, `RestartsUnlessStranded`, `FollowsNode` of both modules,
`SuperQueueReturns`, `HubStops`, `GoneClientLeaves`, `BufferedTxsLeave`): fairness and
`ENABLED` are outside what the prover does. And `PoolRecovers`, a safety property: why the
start always gets below a stale diff depends on every stage of it at once, and its
inductive invariant is not written.

## 5. What is not modelled

* Ticket pool: the byte encoding of diffs and the V0 to V1 rewrite;
  `AppendAndAdvancePool` and `CurrentPool`, which only tests call.
* Stake database: `WaitForHeight` and its waiters, which nothing calls; the
  capacity of the pool info cache (513 blocks; that an entry is missing is
  over-approximated by `StoreFails`); ticket values (the pool value is the sum over the
  cache); an ffldb file that cannot be opened.
  `connectBlock` writes the whole node where dcrd's library writes the changes of one
  block, so that in the model a successful write after a failed one repairs the disk.
* Notifier: the capacity of `anyQ` (1024, and what rpcclient does when it is
  full), the deadline of `processTx`, the two members of the second reorg group
  as separate goroutines (the panic of one of them, and its wait for `reorgLock`,
  are modelled).
* ChainDB: every table but `blocks` and the meta table, and every query. In
  `TipToSideChain` the first statement may fail (fault `store`); the errors it ignores
  are seen only as missing rows. `blockdataReorgFails` strikes at one place, the start of
  `"chainConnect"`.
* Reorganisations take one snapshot of dcrd's chain for the missed blocks they connect
  on the way (`ReorgHandler`, `chainRewind`), where the code asks dcrd at each height. dcrd
  moves before and after it, and at every other step.
* Start-up: `--purge-n-blocks`, the indexes and the stages of the batch sync after the
  blocks, coin age tables, other chains. `StakeDB` sees ChainDB as the chain of its tip;
  `Notifier` has the rows. dcrd's chain never gets shorter, so that the error of
  `OrphanedTipLength` for a ChainDB above dcrd does not arise.
* Mempool: amounts, sizes and fees; the list of the latest transactions; the
  goroutines that hand an inventory to the savers, which nothing orders; handlers
  past their deadline; `MempoolDataCache`.
* Hubs: the answers to requests other than subscriptions, which are computed and
  written without touching the hub; the addresses of an address subscription;
  the Go client `psclient`.
* Caches (`db/cache`), `trylock`, the block prefetch client: planned.
* Components listed as `not_modelled` in `PROJECT.json`, each with its reason.
  Most of the repository's lines are of this kind: SQL statements and the queries
  over them, page and API handlers that turn a query into a document, clients of
  some twenty exchanges, and copies of the batch sync for other chains. They keep
  no state of their own that a second actor could disturb, and a model of them
  would repeat the query.

## 6. What the models show about the code

Five properties that the repository's own comments state are violated (`findings`
in `PROJECT.json`):

1. `notifier_hole`: `signalReorg` records the new head although a reorg handler
   failed; the next block connects, and the blocks between are never stored.
2. `notifier_hang`: a replay by height can bring ChainDB to a newer branch
   while an older reorganisation is queued; `TipToSideChain` then never meets
   its root, flags every row and does not return.
3. `notifier_data`: `collectOnce` asks dcrd for its height and then for the data of
   its best block. A block that arrives between the two gives its data to the row of
   the one before, and the upsert never corrects it.
4. `explorer_stop`: the event loop sends exchange updates to a client's channel
   without a way out, and a handler that has left its loop waits for the event
   loop. With a full channel both wait for ever, and the hub with them.
5. `mempool_lookup`: `TxHandler` enters a transaction in the address map and, after
   the signals, in the store; a lookup in between keeps a nil transaction.

Further behaviours that the models exhibit when a fault is added to what a
property is stated for, and that bound what the passing runs claim:

* `Stranded` (`RestartsUnlessStranded`, `FollowsNode`): "StakeDatabase will catch up
  automatically if it is behind" (`main.go:506`), but nothing at the start connects blocks
  to a stake database that is below ChainDB, as `LoadAndRecover` leaves it:
  `PurgeBestBlocks` returns an error after it has deleted the rows
  (`pgblockchain.go:5354`), and `importBlocks` panics (`sync.go:1408`), at this start and
  every later one. And a stake database that a crash in a reorganisation left
  on another branch than ChainDB stays there, since only ChainDB's tip is compared with
  dcrd.
* `missed` (`FollowsNode`): nothing notifies of a block that dcrd gets between the last
  sync and `Listen` (`main.go:1612`, "TODO: make this not racy at all"); the next one
  makes it good.
* `"poolWrite"` (`PoolDBLoads`): `Append` keeps tip and slice when the store fails;
  the next record leaves a gap, at which `LoadAllPoolDiffs` panics at the next
  start (`ticketpool.go:656`).
* `"stakeWrite"`, in `Notifier` `"disk"`: memory is then a block ahead of ffldb. The next
  disconnect panics (`stakedb.go:644`), and a replay of the block is refused every
  time, since the tolerance for a repeated block compares it with the tip on disk
  (`stakedb.go:563`).
* `"undo"`: a ticket whose transaction cannot be fetched is missing from the ticket
  cache afterwards (`stakedb.go:663`), although it is "kept accurate" (`stakedb.go:389`).
  `TicketCacheIsAccurate` holds with it, and says that nothing else is missing.
* `"deadline"`, `"reorgDeadline"` (`OneMainBlockPerHeight`): a store, or a reorg
  handler, that outlives its deadline works beside the next reorganisation and
  leaves two main chain blocks at a height (`notifier.go:362`, `:510`).
* `"store"` (the same): a StoreBlock that fails half way leaves a main chain row that
  `TipToSideChain`, which starts at `bestBlock`, does not see
  (`pgblockchain.go:6281`).
* `"ancestor"` (`ReplayCatchesUp`): a dropped reorganisation leaves `previous`
  off dcrd's chain, and later blocks are discarded (`notifier.go:472`).
* `blockdataReorgFails`: the error path of block data's `ReorgHandler` calls
  `Done` on a `WaitGroup` nobody set (`blockdata/chainmonitor.go:219`).
* Pub/sub: the ticker only sets a flag, so that buffered transactions leave when a
  later transaction arrives, although `Run`'s comment speaks of "periodically
  sending" the buffers (`pubsub/websocket.go:360`); `addTxToBuffer` answers for
  the client the map yields last, whatever the others have; and a peer that
  leaves ends `receiveLoop` without unregistering anybody, so that it is the
  next failing write, of a ping at the latest, that ends the client.
* Explorer: a goroutine of `maybeSendTxns` that is about to reset the ticker when
  the hub stops sends on a closed channel, which panics, or takes the place of
  the stop signal (`websocket.go:372`); `HubStops` is stated without it. A
  client that is slower than the buffer, or that has taken a signal and not yet read
  the list, may lose transactions and read others twice (`TxsOnceUnlessReplaced` excepts
  the clients whose list was replaced before they read it).
* Mempool: a transaction that dcrd does not return is left out of a collection, and the
  refresh succeeds without it (`collector.go:84`; `MonitorKnowsPool` excepts `skipped`);
  treasury spends count as mineable after a refresh but not when they
  arrive one at a time (`VotesCountOnce` allows for it); a header whose time is ahead
  of the clock makes `TxHandler` ignore newer transactions until the next block
  (`monitor.go:128`; `MonitorKnowsPool` is stated without).

## 7. Plan

Done: `BlockTree` with the loop of `CommonAncestor`, `TicketPool`, `StakeDB` with the
whole start, `Notifier` with deadlines and its refinement of `FollowedChain`, `Mempool`,
`PubSubHub`, `ExplorerHub`; the proofs of section 4. Left, in order of importance:

1. **Caches**: pool info cache with its capacity, address cache against
   reorganisation, charts cache (`Lengthen`, `Snip`), `trylock`, the block
   prefetch client.
2. An inductive invariant for `PoolRecovers`.
