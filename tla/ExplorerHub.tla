---------------------------- MODULE ExplorerHub -----------------------------
(***************************************************************************)
(* The explorer's websocket hub: the event loop run of                     *)
(* explorer/websocket.go, its transaction buffer and ticker, and the       *)
(* handler RootWebsocket of every page that is open.                       *)
(*                                                                         *)
(* Unlike the pub/sub hub it never waits for a client's signals: one whose *)
(* channel is full is unregistered.  It does wait for the exchange channel *)
(* of every client, and a handler that returns waits for the loop, on      *)
(* Unregister.  New transactions are collected in one buffer, and what was *)
(* in it is handed to all clients when it is full or at a tick.            *)
(***************************************************************************)
EXTENDS Integers, Sequences, Functions

CONSTANTS Conn,             \* websocket connections
          SpokeCap, XcCap,  \* capacities of a client's two channels
          SignalCap,        \* capacity of bufferTickerChan and sendBufferChan (clientSignalSize)
          NewTxBufferSize,  \* transactions that make the buffer full
          Scenarios         \* bounds: who connects, how many transactions come, what may happen

ASSUME CapsArePositive == {SpokeCap, XcCap, SignalCap, NewTxBufferSize} \subseteq Nat \ {0}
ASSUME ScenariosAssumption == \A s \in Scenarios : s.txs \in Nat

VARIABLES
    run,        \* the event loop: selecting, handing an exchange update to todo, quitting or ended
    clients,    \* wsh.clients
    quit,       \* is quitWSHandler closed?
    txs,        \* number of transactions relayed so far
    txBuffer,   \* newTxBuffer
    sendBuffer, \* signals waiting in sendBufferChan
    tickerChan, \* what waits in bufferTickerChan
    ticker,     \* periodicBufferSend: waiting, on its way to sendBufferChan, or ended
    pushers,    \* goroutines of maybeSendTxns before their first and before their second send
    panicked,   \* was something sent on a closed channel?
    spoke, xc,  \* updateSig of each client, and the number of updates in its xcChan
    closed,     \* spokes the hub has closed
    handler,    \* RootWebsocket of each connection
    peer,       \* is the remote end still there?
    newTxs,     \* client.newTxs
    replaced,   \* history: clients whose newTxs were replaced before they were read
    joined,     \* history: txs out of the buffer when the client registered
    got,        \* history: transactions the handler has read
    scenario    \* the member of Scenarios this behaviour is about

txVars == <<txs, txBuffer, sendBuffer, tickerChan, ticker, pushers, panicked>>
connVars == <<spoke, xc, closed, handler, peer, newTxs, replaced, joined, got>>
vars == <<run, clients, quit, txVars, connVars, scenario>>

Selecting == [at |-> "select", todo |-> {}]

TypeOK ==
    /\ scenario \in Scenarios
    /\ run \in [at : {"select", "exchange", "quitting", "ended"}, todo : SUBSET Conn]
    /\ clients \subseteq Conn /\ closed \subseteq Conn /\ replaced \subseteq Conn
    /\ quit \in BOOLEAN /\ panicked \in BOOLEAN
    /\ txs \in 0..scenario.txs /\ txBuffer \in Seq(1..scenario.txs)
    /\ sendBuffer \in 0..SignalCap
    /\ tickerChan \in Seq({"reset", "stop"}) /\ Len(tickerChan) <= SignalCap
    /\ ticker \in {"waiting", "sending", "ended"}
    /\ pushers \in [{"reset", "send"} -> 0..scenario.txs]
    /\ spoke \in [Conn -> Seq({"signal", "newtxs"})] /\ \A c \in Conn : Len(spoke[c]) <= SpokeCap
    /\ xc \in [Conn -> 0..XcCap]
    /\ handler \in [Conn -> {"idle", "register", "select", "read", "write", "unregister", "returned"}]
    /\ peer \in [Conn -> BOOLEAN]
    /\ newTxs \in [Conn -> Seq(1..scenario.txs)]
    /\ joined \in [Conn -> 0..scenario.txs] /\ got \in [Conn -> Seq(1..scenario.txs)]

Init ==
    /\ scenario \in Scenarios
    /\ run = Selecting /\ clients = {} /\ quit = FALSE
    /\ txs = 0 /\ txBuffer = <<>>
    /\ sendBuffer = 0 /\ tickerChan = <<>> /\ ticker = "waiting"
    /\ pushers = [g \in {"reset", "send"} |-> 0] /\ panicked = FALSE
    /\ spoke = [c \in Conn |-> <<>>] /\ xc = [c \in Conn |-> 0]
    /\ closed = {} /\ replaced = {}
    /\ handler = [c \in Conn |-> "idle"] /\ peer = [c \in Conn |-> TRUE]
    /\ newTxs = [c \in Conn |-> <<>>]
    /\ joined = [c \in Conn |-> 0] /\ got = [c \in Conn |-> <<>>]

-----------------------------------------------------------------------------
(* The event loop, run.                                                    *)

registerClient(c) ==
    /\ run.at = "select" /\ handler[c] = "register"
    /\ clients' = clients \union {c}
    /\ handler' = [handler EXCEPT ![c] = "select"]
    /\ joined' = [joined EXCEPT ![c] = txs - Len(txBuffer)]
    /\ UNCHANGED <<run, quit, txVars, spoke, xc, closed, peer, newTxs, replaced, got, scenario>>

\* Faulty variant: nobody is forgotten.
unregisterNot(C) == UNCHANGED <<clients, closed>>

\* Faulty variant: the map entry stays.
unregisterOnlyCloses(C) == clients' = clients /\ closed' = closed \union (C \intersect clients)

\* unregisterClient closes the channels of the clients it is called for, and
\* ignores the ones it does not know.
unregisterClient(C) == clients' = clients \ C /\ closed' = closed \union (C \intersect clients)

\* The Unregister case; the handler that was waiting returns.
Unregister(c) ==
    /\ run.at = "select" /\ handler[c] = "unregister"
    /\ unregisterClient({c})
    /\ handler' = [handler EXCEPT ![c] = "returned"]
    /\ UNCHANGED <<run, quit, txVars, spoke, xc, peer, newTxs, replaced, joined, got, scenario>>

\* Faulty variant: found out one message too late.
Overfull == {c \in clients : Len(spoke[c]) > SpokeCap}

Full == {c \in clients : Len(spoke[c]) = SpokeCap}

\* A signal to every client, or the end of it, without waiting.
Signal(m) ==
    /\ spoke' = [c \in Conn |-> IF c \in clients \ Full THEN Append(spoke[c], m) ELSE spoke[c]]
    /\ unregisterClient(Full)

RelaySignal ==
    /\ run.at = "select"
    /\ Signal("signal")
    /\ UNCHANGED <<run, quit, txVars, xc, handler, peer, newTxs, replaced, joined, got, scenario>>

\* sigNewTx: addTxToBuffer, and a goroutine to push a full buffer.
maybeSendTxns ==
    /\ run.at = "select" /\ txs < scenario.txs
    /\ txs' = txs + 1
    /\ txBuffer' = Append(txBuffer, txs + 1)
    /\ pushers' = IF Len(txBuffer) + 1 >= NewTxBufferSize THEN [pushers EXCEPT !["reset"] = @ + 1] ELSE pushers
    /\ UNCHANGED <<run, clients, quit, sendBuffer, tickerChan, ticker, panicked, connVars, scenario>>

\* Faulty variant: the buffer is not made anew.
SameBuffer(b) == b

\* The buffer that is left for the transactions to come.
EmptyBuffer(b) == <<>>

\* A handler has the signal for its newTxs before it, or behind it, and has not read them.
Unread(c) == "newtxs" \in Range(spoke[c]) \/ handler[c] = "read"

\* The sendBufferChan case.  Whoever has not read newTxs since the last time
\* loses what was in it.
SendBuffer ==
    /\ run.at = "select" /\ sendBuffer > 0
    /\ sendBuffer' = sendBuffer - 1
    /\ IF txBuffer = <<>> THEN UNCHANGED <<txBuffer, newTxs, replaced, spoke, clients, closed>>
       ELSE /\ txBuffer' = EmptyBuffer(txBuffer)
            /\ newTxs' = [c \in Conn |-> IF c \in clients THEN txBuffer ELSE newTxs[c]]
            /\ replaced' = replaced \union {c \in clients : Unread(c)}
            /\ Signal("newtxs")
    /\ UNCHANGED <<run, quit, txs, tickerChan, ticker, pushers, panicked, xc, handler, peer, joined, got, scenario>>

\* The xcChan case: the loop waits until each client has room for the update.
ExchangeUpdate ==
    /\ scenario.exchange /\ run.at = "select"
    /\ run' = [at |-> "exchange", todo |-> clients]
    /\ UNCHANGED <<clients, quit, txVars, connVars, scenario>>

SendUpdate(c) ==
    /\ run.at = "exchange" /\ c \in run.todo /\ xc[c] < XcCap
    /\ xc' = [xc EXCEPT ![c] = @ + 1]
    /\ run' = [run EXCEPT !.todo = @ \ {c}]
    /\ UNCHANGED <<clients, quit, txVars, spoke, closed, handler, peer, newTxs, replaced, joined, got, scenario>>

UpdateDone ==
    /\ run.at = "exchange" /\ run.todo = {}
    /\ run' = Selecting
    /\ UNCHANGED <<clients, quit, txVars, connVars, scenario>>

\* The quit case: the loop waits until it can end the ticker, and unregisters
\* all clients as it returns.
Quit ==
    /\ run.at = "select" /\ quit
    /\ run' = [at |-> "quitting", todo |-> {}]
    /\ UNCHANGED <<clients, quit, txVars, connVars, scenario>>

\* Faulty variant: the clients are left to themselves.
unregisterNobody == unregisterClient({})

unregisterAllClients == unregisterClient(clients)

RunEnds ==
    /\ run.at = "quitting" /\ Len(tickerChan) < SignalCap
    /\ tickerChan' = Append(tickerChan, "stop")
    /\ run' = [at |-> "ended", todo |-> {}]
    /\ unregisterAllClients
    /\ UNCHANGED <<quit, txs, txBuffer, sendBuffer, ticker, pushers, panicked,
                   spoke, xc, handler, peer, newTxs, replaced, joined, got, scenario>>

Stop ==
    /\ scenario.stops /\ ~quit
    /\ quit' = TRUE
    /\ UNCHANGED <<run, clients, txVars, connVars, scenario>>

-----------------------------------------------------------------------------
(* The transaction ticker and the goroutines that push a full buffer.      *)

\* periodicBufferSend
Tick ==
    /\ ticker = "waiting"
    /\ ticker' = "sending"
    /\ UNCHANGED <<run, clients, quit, txs, txBuffer, sendBuffer, tickerChan, pushers, panicked, connVars, scenario>>

\* Faulty variant: the tick is lost.
TickSendsNothing ==
    /\ ticker = "sending"
    /\ ticker' = "waiting"
    /\ UNCHANGED <<run, clients, quit, txs, txBuffer, sendBuffer, tickerChan, pushers, panicked, connVars, scenario>>

TickSends ==
    /\ ticker = "sending" /\ sendBuffer < SignalCap
    /\ ticker' = "waiting"
    /\ sendBuffer' = sendBuffer + 1
    /\ UNCHANGED <<run, clients, quit, txs, txBuffer, tickerChan, pushers, panicked, connVars, scenario>>

\* A reset starts the interval again; stop closes bufferTickerChan.
TickerReceives ==
    /\ ticker = "waiting" /\ tickerChan # <<>>
    /\ tickerChan' = Tail(tickerChan)
    /\ ticker' = IF Head(tickerChan) = "stop" THEN "ended" ELSE "waiting"
    /\ UNCHANGED <<run, clients, quit, txs, txBuffer, sendBuffer, pushers, panicked, connVars, scenario>>

\* A goroutine of maybeSendTxns: reset the ticker, then have the buffer sent.
PushReset ==
    /\ pushers["reset"] > 0
    /\ \/ /\ ticker # "ended" /\ Len(tickerChan) < SignalCap
          /\ tickerChan' = Append(tickerChan, "reset")
          /\ pushers' = [pushers EXCEPT !["reset"] = @ - 1, !["send"] = @ + 1]
          /\ UNCHANGED panicked
       \/ /\ ticker = "ended"
          /\ panicked' = TRUE
          /\ pushers' = [pushers EXCEPT !["reset"] = @ - 1]
          /\ UNCHANGED tickerChan
    /\ UNCHANGED <<run, clients, quit, txs, txBuffer, sendBuffer, ticker, connVars, scenario>>

PushSend ==
    /\ pushers["send"] > 0 /\ sendBuffer < SignalCap
    /\ sendBuffer' = sendBuffer + 1
    /\ pushers' = [pushers EXCEPT !["send"] = @ - 1]
    /\ UNCHANGED <<run, clients, quit, txs, txBuffer, tickerChan, ticker, panicked, connVars, scenario>>

-----------------------------------------------------------------------------
(* The handler of a connection, RootWebsocket.                             *)

hubVars == <<run, clients, quit, txVars, closed, replaced, joined, scenario>>

Connect(c) ==
    /\ handler[c] = "idle" /\ c \in scenario.conn
    /\ handler' = [handler EXCEPT ![c] = "register"]
    /\ UNCHANGED <<hubVars, spoke, xc, peer, newTxs, got>>

\* The remote end closes the page; the reading goroutine closes the connection.
PeerLeaves(c) ==
    /\ c \in scenario.leaving /\ handler[c] \in {"register", "select", "read", "write"} /\ peer[c]
    /\ peer' = [peer EXCEPT ![c] = FALSE]
    /\ UNCHANGED <<hubVars, spoke, xc, handler, newTxs, got>>

\* The handler takes a signal.  The one for new transactions does not carry
\* them: the handler has yet to read newTxs.
TakeSignal(c) ==
    /\ handler[c] = "select" /\ spoke[c] # <<>>
    /\ spoke' = [spoke EXCEPT ![c] = Tail(@)]
    /\ handler' = [handler EXCEPT ![c] = IF Head(spoke[c]) = "newtxs" THEN "read" ELSE "write"]
    /\ UNCHANGED <<hubVars, xc, peer, newTxs, got>>

\* newTxs are read under their lock, when the hub may have replaced them.
ReadTxs(c) ==
    /\ handler[c] = "read"
    /\ got' = [got EXCEPT ![c] = @ \o newTxs[c]]
    /\ handler' = [handler EXCEPT ![c] = "write"]
    /\ UNCHANGED <<hubVars, spoke, xc, peer, newTxs>>

TakeUpdate(c) ==
    /\ handler[c] = "select" /\ xc[c] > 0
    /\ xc' = [xc EXCEPT ![c] = @ - 1]
    /\ handler' = [handler EXCEPT ![c] = "write"]
    /\ UNCHANGED <<hubVars, spoke, peer, newTxs, got>>

\* A write succeeds, or the handler is on its way out, which takes it to its
\* deferred UnregisterClient.  The peer may also be slow for ten seconds.
Write(c) ==
    /\ handler[c] = "write"
    /\ \/ peer[c] /\ handler' = [handler EXCEPT ![c] = "select"]
       \/ c \in scenario.leaving /\ handler' = [handler EXCEPT ![c] = "unregister"]
    /\ UNCHANGED <<hubVars, spoke, xc, peer, newTxs, got>>

\* updateSig was closed by the hub, or the hub is being stopped.
Leave(c) ==
    /\ handler[c] = "select"
    /\ (spoke[c] = <<>> /\ c \in closed) \/ quit
    /\ handler' = [handler EXCEPT ![c] = "unregister"]
    /\ UNCHANGED <<hubVars, spoke, xc, peer, newTxs, got>>

-----------------------------------------------------------------------------
RunLoop == (\E c \in Conn : SendUpdate(c)) \/ UpdateDone \/ RunEnds

TxLoops == TickSends \/ TickerReceives \/ PushReset \/ PushSend

ConnLoop(c) == TakeSignal(c) \/ ReadTxs(c) \/ TakeUpdate(c) \/ Write(c) \/ Leave(c)

Next ==
    \/ RunLoop \/ RelaySignal \/ maybeSendTxns \/ SendBuffer \/ ExchangeUpdate \/ Quit \/ Stop
    \/ Tick \/ TxLoops
    \/ \E c \in Conn : registerClient(c) \/ Unregister(c) \/ Connect(c) \/ PeerLeaves(c) \/ ConnLoop(c)

Spec == Init /\ [][Next]_vars

\* Goroutines that can go on do, signals (pings at the least) keep coming, and
\* a select takes each of its ready cases in the end.
Fairness ==
    /\ WF_vars(RunLoop) /\ WF_vars(Tick) /\ WF_vars(TxLoops)
    /\ SF_vars(RelaySignal) /\ SF_vars(SendBuffer) /\ SF_vars(Quit)
    /\ \A c \in Conn : WF_vars(ConnLoop(c)) /\ SF_vars(Unregister(c))

FairSpec == Spec /\ Fairness

-----------------------------------------------------------------------------
(* Properties                                                              *)

\* The event loop never sends on, or closes, a channel it has closed.
NoSendOnClosedSpoke == clients \intersect closed = {}

\* A client reads every transaction once and in order, unless the hub replaced
\* its newTxs before it had read them, be the signal still in updateSig or the
\* handler on its way to the lock: then it loses some and reads others twice.
TxsOnceUnlessReplaced ==
    \A c \in clients \ replaced :
        LET pending == IF Unread(c) THEN newTxs[c] ELSE <<>>
        IN  got[c] \o pending \o txBuffer = [i \in 1..(txs - joined[c]) |-> joined[c] + i]

\* "initiates a buffer send every bufferTickerInterval seconds": what is in the
\* buffer leaves it without waiting for more transactions.
BufferedTxsLeave == ~scenario.exchange => (txBuffer # <<>> ~> (txBuffer = <<>> \/ quit))

\* A handler that returns gets through to the loop, and the hub forgets a
\* client whose peer has left, as long as there are no exchange updates.
GoneClientLeaves == \A c \in Conn : (~scenario.exchange /\ ~peer[c]) ~> (c \notin clients \/ quit)

\* WebsocketHub "is responsible for closing all connections registered with it.
\* If the event loop is running, calling (*WebsocketHub).Stop() will handle it":
\* after Stop the loop ends, nobody is registered and nothing panics.
StopClosesConnections == quit ~> [](run.at = "ended" /\ clients = {} /\ ~panicked)

\* The same without exchange updates and without a full transaction buffer,
\* whose goroutines also meet the ticker as it ends.
HubStops == (~scenario.exchange /\ scenario.txs < NewTxBufferSize) => StopClosesConnections
=============================================================================
