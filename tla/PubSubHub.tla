----------------------------- MODULE PubSubHub ------------------------------
(***************************************************************************)
(* The pub/sub websocket hub: the event loop Run of pubsub/websocket.go,   *)
(* which relays signals to the channel ("spoke") of every registered       *)
(* client, and the send and receive loops that pubsub/pubsubhub.go runs    *)
(* for each connection.  The loops meet only on channels: Register and     *)
(* HubRelay have no buffer, a spoke has one of SpokeCap messages, and      *)
(* closing a client's killed channel tells the hub that its handler has    *)
(* returned.                                                               *)
(*                                                                         *)
(* A message is its signal.  The transactions of a client are numbers in   *)
(* the order in which the hub received them; they wait in the client's     *)
(* newTxs list and a "newtxs" signal only says that there are some.        *)
(* UnregisterClient has no caller and is left out.                         *)
(***************************************************************************)
EXTENDS Integers, Sequences

CONSTANTS Conn,             \* websocket connections
          Topic,            \* signals a client may subscribe to, "newtxs" among them
          SpokeCap,         \* capacity of a client's channel
          NewTxBufferSize,  \* transactions that make a list ready to send
          Scenarios         \* bounds: who connects, how many transactions come, what may happen

ASSUME SizesArePositive == SpokeCap \in Nat \ {0} /\ NewTxBufferSize \in Nat \ {0}
ASSUME TopicsAssumption ==
    "newtxs" \in Topic /\ \A s \in Scenarios : s.txs \in Nat /\ s.topics \subseteq Topic

VARIABLES
    run,       \* the event loop: where it is, the message it relays, the clients left to serve
    clients,   \* wsh.clients
    timeToSend,\* wsh.timeToSendTxBuffer, set by the ticker of periodicTxBufferSend
    stop,      \* the caller of Stop: not called, saying bye, or past the close of quitWSHandler
    txs,       \* number of transactions relayed so far
    spoke,     \* the messages waiting in each client's channel
    closed,    \* spokes the hub has closed
    handler,   \* WebSocketHandler of each connection; at "done" its killed channel is closed
    peer,      \* is the remote end still there?
    recv,      \* does receiveLoop still run?
    send,      \* sendLoop: at its range, writing, or ended (which closes the connection)
    subs,      \* client.subs
    newTxs,    \* client.newTxs
    outgoing,  \* the transactions of the message sendLoop is writing
    joined,    \* history: txs when the client registered
    got,       \* history: transactions written to the connection
    scenario   \* the member of Scenarios this behaviour is about

hubVars == <<run, clients, timeToSend, txs>>
connVars == <<handler, peer, recv, send, subs, outgoing, got, scenario>>
vars == <<run, clients, timeToSend, stop, txs, spoke, closed, handler, peer, recv, send, subs,
          newTxs, outgoing, joined, got, scenario>>

Signal == Topic \union {"ping", "bye"}

Selecting == [at |-> "select", msg |-> "none", todo |-> {}]
Relaying(m) == [at |-> "relay", msg |-> m, todo |-> clients]

TypeOK ==
    /\ scenario \in Scenarios
    /\ run \in [at : {"select", "relay", "killing", "ended"}, msg : Signal \union {"none"}, todo : SUBSET Conn]
    /\ clients \subseteq Conn /\ closed \subseteq Conn
    /\ timeToSend \in BOOLEAN
    /\ stop \in {"no", "bye", "quit"}
    /\ txs \in 0..scenario.txs
    /\ spoke \in [Conn -> Seq(Signal)] /\ \A c \in Conn : Len(spoke[c]) <= SpokeCap
    /\ handler \in [Conn -> {"idle", "register", "upgrade", "serve", "done"}]
    /\ peer \in [Conn -> BOOLEAN] /\ recv \in [Conn -> BOOLEAN]
    /\ send \in [Conn -> {"range", "write", "ended"}]
    /\ subs \in [Conn -> SUBSET Topic]
    /\ newTxs \in [Conn -> Seq(1..scenario.txs)] /\ outgoing \in [Conn -> Seq(1..scenario.txs)]
    /\ joined \in [Conn -> 0..scenario.txs] /\ got \in [Conn -> Seq(1..scenario.txs)]

Init ==
    /\ run = Selecting
    /\ clients = {} /\ closed = {}
    /\ timeToSend = FALSE
    /\ stop = "no" /\ scenario \in Scenarios
    /\ txs = 0
    /\ spoke = [c \in Conn |-> <<>>]
    /\ handler = [c \in Conn |-> "idle"]
    /\ peer = [c \in Conn |-> TRUE]
    /\ recv = [c \in Conn |-> FALSE]
    /\ send = [c \in Conn |-> "ended"]
    /\ subs = [c \in Conn |-> {}]
    /\ newTxs = [c \in Conn |-> <<>>] /\ outgoing = [c \in Conn |-> <<>>]
    /\ joined = [c \in Conn |-> 0] /\ got = [c \in Conn |-> <<>>]

-----------------------------------------------------------------------------
(* The event loop, Run.                                                    *)

isSubscribed(c, m) == m \in {"ping", "bye"} \/ m \in subs[c]

\* Without clients a message is dropped.
Accept(m) == run' = IF clients = {} THEN Selecting ELSE Relaying(m)

\* registerClient.  From here on sendLoop has the client's spoke to range over,
\* though it runs only after the handshake.
registerClient(c) ==
    /\ run.at = "select" /\ handler[c] = "register"
    /\ clients' = clients \union {c}
    /\ joined' = [joined EXCEPT ![c] = txs]
    /\ handler' = [handler EXCEPT ![c] = "upgrade"]
    /\ send' = [send EXCEPT ![c] = "range"]
    /\ UNCHANGED <<run, timeToSend, stop, txs, spoke, closed, peer, recv, subs, newTxs, outgoing, got, scenario>>

\* A message from Store or from the mempool monitor.
RelaySignal(m) ==
    /\ run.at = "select"
    /\ Accept(m)
    /\ UNCHANGED <<clients, timeToSend, txs, stop, spoke, closed, newTxs, joined, connVars>>

\* addTxToBuffer appends the transaction to the list of every client and
\* answers for the client the map yielded last.
addTxToBuffer(t) == newTxs' = [c \in Conn |-> IF c \in clients THEN Append(newTxs[c], t) ELSE newTxs[c]]

ReadyToSend(last) == Len(newTxs[last]) + 1 >= NewTxBufferSize

\* sigNewTx: relayed as sigNewTxs when the last list is ready or the ticker
\* has fired; otherwise it stays a sigNewTx, to which nobody can subscribe.
RelayNewTx ==
    /\ run.at = "select" /\ txs < scenario.txs
    /\ txs' = txs + 1
    /\ IF clients = {} THEN UNCHANGED <<newTxs, run>>
       ELSE /\ addTxToBuffer(txs + 1)
            /\ \E last \in clients :
                  run' = IF ReadyToSend(last) \/ timeToSend THEN Relaying("newtxs") ELSE run
    /\ UNCHANGED <<clients, timeToSend, stop, spoke, closed, joined, connVars>>

\* Faulty variant: the client stays in the map.
unregisterKeeps(c) == clients' = clients /\ closed' = closed \union {c}

\* unregisterClient, on a client whose handler has returned.
unregisterClient(c) == clients' = clients \ {c} /\ closed' = closed \union {c}

\* Faulty variant: one message more than the channel holds.
OneTooMany(c) == Len(spoke[c]) <= SpokeCap

HasRoom(c) == Len(spoke[c]) < SpokeCap

\* Faulty variant: no case for a handler that is gone and none for the timer.
sendMsgBlocks(c) ==
    /\ run.at = "relay" /\ c \in run.todo
    /\ run' = [run EXCEPT !.todo = @ \ {c}]
    /\ IF isSubscribed(c, run.msg) THEN HasRoom(c) /\ spoke' = [spoke EXCEPT ![c] = Append(@, run.msg)]
       ELSE UNCHANGED spoke
    /\ UNCHANGED <<clients, closed, timeToSend, stop, txs, newTxs, joined, connVars>>

\* One turn of the loop over the clients: a client that is not subscribed is
\* skipped; sendMsg puts the message on the spoke, or finds the handler gone,
\* or gives up after five seconds.
sendMsg(c) ==
    /\ run.at = "relay" /\ c \in run.todo
    /\ run' = [run EXCEPT !.todo = @ \ {c}]
    /\ \/ ~isSubscribed(c, run.msg) /\ UNCHANGED <<clients, closed, spoke>>
       \/ /\ isSubscribed(c, run.msg) /\ handler[c] = "done"
          /\ unregisterClient(c)
          /\ UNCHANGED spoke
       \/ /\ isSubscribed(c, run.msg) /\ HasRoom(c)
          /\ spoke' = [spoke EXCEPT ![c] = Append(@, run.msg)]
          /\ UNCHANGED <<clients, closed>>
       \/ /\ isSubscribed(c, run.msg) /\ handler[c] # "done" /\ ~HasRoom(c)
          /\ UNCHANGED <<clients, closed, spoke>>
    /\ UNCHANGED <<timeToSend, stop, txs, newTxs, joined, connVars>>

RelayDone ==
    /\ run.at = "relay" /\ run.todo = {}
    /\ run' = Selecting
    /\ timeToSend' = (timeToSend /\ run.msg # "newtxs")
    /\ UNCHANGED <<clients, stop, txs, spoke, closed, newTxs, joined, connVars>>

\* Faulty variant: the spokes of the forgotten clients stay open.
unregisterAllForgets ==
    /\ run.at = "select" /\ stop = "quit"
    /\ run' = [at |-> "killing", msg |-> "none", todo |-> clients]
    /\ clients' = {}
    /\ UNCHANGED <<closed, timeToSend, stop, txs, spoke, newTxs, joined, connVars>>

\* The quit case, and the deferred unregisterAllClients, which closes every
\* spoke and then waits for every handler.
unregisterAllClients ==
    /\ run.at = "select" /\ stop = "quit"
    /\ run' = [at |-> "killing", msg |-> "none", todo |-> clients]
    /\ clients' = {} /\ closed' = closed \union clients
    /\ UNCHANGED <<timeToSend, stop, txs, spoke, newTxs, joined, connVars>>

\* Every handler has returned; the other defers drain HubRelay, end the pings
\* and close killed.
RunEnds ==
    /\ run.at = "killing" /\ \A c \in run.todo : handler[c] = "done"
    /\ run' = [Selecting EXCEPT !.at = "ended"]
    /\ UNCHANGED <<clients, timeToSend, txs, stop, spoke, closed, newTxs, joined, connVars>>

-----------------------------------------------------------------------------
(* The goroutines and callers that talk to the loop.                       *)

\* pingClients: the ping goroutine waits on HubRelay at every tick.
RelayPing ==
    /\ run.at = "select"
    /\ Accept("ping")
    /\ UNCHANGED <<clients, timeToSend, txs, stop, spoke, closed, newTxs, joined, connVars>>

\* periodicTxBufferSend: the ticker only sets a flag.
TxBufferTick ==
    /\ ~timeToSend /\ run.at \in {"select", "relay"}
    /\ timeToSend' = TRUE
    /\ UNCHANGED <<run, clients, txs, stop, spoke, closed, newTxs, joined, connVars>>

\* Stop: warn the clients, close quitWSHandler, wait for Run at most five seconds.
Stop ==
    /\ scenario.stops
    /\ \/ stop = "no" /\ stop' = "bye" /\ UNCHANGED run
       \/ stop = "bye" /\ run.at = "select" /\ stop' = "quit" /\ Accept("bye")
    /\ UNCHANGED <<clients, timeToSend, txs, spoke, closed, newTxs, joined, connVars>>

-----------------------------------------------------------------------------
(* A connection: WebSocketHandler, receiveLoop and sendLoop.               *)

Unchanged == UNCHANGED <<hubVars, stop, closed, joined, scenario>>

\* WebSocketHandler calls NewClientHubSpoke, which waits on Register.
Connect(c) ==
    /\ handler[c] = "idle" /\ c \in scenario.conn
    /\ handler' = [handler EXCEPT ![c] = "register"]
    /\ Unchanged /\ UNCHANGED <<spoke, newTxs, peer, recv, send, subs, outgoing, got>>

\* The websocket handshake, after which the two loops start.
Upgrade(c) ==
    /\ handler[c] = "upgrade"
    /\ handler' = [handler EXCEPT ![c] = "serve"]
    /\ recv' = [recv EXCEPT ![c] = TRUE]
    /\ Unchanged /\ UNCHANGED <<spoke, newTxs, peer, send, subs, outgoing, got>>

\* It fails: no loop starts, and killed is closed while the client is registered.
HandshakeFails(c) ==
    /\ handler[c] = "upgrade" /\ c \in scenario.leaving
    /\ handler' = [handler EXCEPT ![c] = "done"]
    /\ send' = [send EXCEPT ![c] = "ended"]
    /\ Unchanged /\ UNCHANGED <<spoke, newTxs, peer, recv, subs, outgoing, got>>

PeerLeaves(c) ==
    /\ c \in scenario.leaving /\ handler[c] \in {"register", "upgrade", "serve"} /\ peer[c]
    /\ peer' = [peer EXCEPT ![c] = FALSE]
    /\ Unchanged /\ UNCHANGED <<spoke, newTxs, handler, recv, send, subs, outgoing, got>>

\* receiveLoop: a subscribe or unsubscribe request.
Request(c) ==
    /\ recv[c] /\ peer[c] /\ send[c] # "ended"
    /\ \E m \in scenario.topics :
          \/ m \notin subs[c] /\ subs' = [subs EXCEPT ![c] = @ \union {m}]
          \/ scenario.unsubscribes /\ m \in subs[c] /\ subs' = [subs EXCEPT ![c] = @ \ {m}]
    /\ Unchanged /\ UNCHANGED <<spoke, newTxs, handler, peer, recv, send, outgoing, got>>

ConnectionClosed(c) == ~peer[c] \/ send[c] = "ended"

\* receiveLoop returns: the connection is closed on either side, or what the
\* peer sent is not a message.
ReceiveEnds(c) ==
    /\ recv[c] /\ (ConnectionClosed(c) \/ c \in scenario.leaving)
    /\ recv' = [recv EXCEPT ![c] = FALSE]
    /\ Unchanged /\ UNCHANGED <<spoke, newTxs, handler, peer, send, subs, outgoing, got>>

\* What sendLoop has to write for a message: nothing when the client is not
\* subscribed any more, or when its list was sent with an earlier signal.
Writes(c, m) == isSubscribed(c, m) /\ (m = "newtxs" => newTxs[c] # <<>>)

\* Faulty variant: the list is not made anew.
takeTxsKeeps(c) == outgoing' = [outgoing EXCEPT ![c] = newTxs[c]] /\ UNCHANGED newTxs

\* The client's list goes out as a whole.
takeTxs(c) == outgoing' = [outgoing EXCEPT ![c] = newTxs[c]] /\ newTxs' = [newTxs EXCEPT ![c] = <<>>]

Take(c) ==
    /\ handler[c] = "serve" /\ send[c] = "range" /\ spoke[c] # <<>>
    /\ spoke' = [spoke EXCEPT ![c] = Tail(@)]
    /\ LET m == Head(spoke[c])
       IN /\ send' = [send EXCEPT ![c] = IF Writes(c, m) THEN "write" ELSE "range"]
          /\ IF Writes(c, m) /\ m = "newtxs" THEN takeTxs(c) ELSE UNCHANGED <<newTxs, outgoing>>
    /\ Unchanged /\ UNCHANGED <<handler, peer, recv, subs, got>>

\* A write succeeds, or sendLoop closes the connection.  What is written to a
\* peer that has just left may still find room in a buffer.
Write(c) ==
    /\ send[c] = "write"
    /\ send' = [send EXCEPT ![c] = "range"]
    /\ got' = [got EXCEPT ![c] = @ \o outgoing[c]]
    /\ outgoing' = [outgoing EXCEPT ![c] = <<>>]
    /\ Unchanged /\ UNCHANGED <<spoke, newTxs, handler, peer, recv, subs>>

WriteFails(c) ==
    /\ send[c] = "write" /\ (~peer[c] \/ c \in scenario.leaving)
    /\ send' = [send EXCEPT ![c] = "ended"]
    /\ Unchanged /\ UNCHANGED <<spoke, newTxs, handler, peer, recv, subs, outgoing, got>>

SpokeClosed(c) ==
    /\ handler[c] = "serve" /\ send[c] = "range" /\ spoke[c] = <<>> /\ c \in closed
    /\ send' = [send EXCEPT ![c] = "ended"]
    /\ Unchanged /\ UNCHANGED <<spoke, newTxs, handler, peer, recv, subs, outgoing, got>>

\* Both loops have returned: unsubscribeAll, and killed is closed.
HandlerReturns(c) ==
    /\ handler[c] = "serve" /\ ~recv[c] /\ send[c] = "ended"
    /\ handler' = [handler EXCEPT ![c] = "done"]
    /\ subs' = [subs EXCEPT ![c] = {}]
    /\ Unchanged /\ UNCHANGED <<spoke, newTxs, peer, recv, send, outgoing, got>>

-----------------------------------------------------------------------------
RunLoop == (\E c \in Conn : sendMsg(c)) \/ RelayDone \/ unregisterAllClients \/ RunEnds

Next ==
    \/ RunLoop \/ RelayNewTx \/ RelayPing \/ TxBufferTick \/ Stop
    \/ \E m \in scenario.topics \ {"newtxs"} : RelaySignal(m)
    \/ \E c \in Conn : \/ registerClient(c) \/ Connect(c) \/ Upgrade(c) \/ HandshakeFails(c) \/ PeerLeaves(c)
                       \/ Request(c) \/ ReceiveEnds(c)
                       \/ Take(c) \/ Write(c) \/ WriteFails(c) \/ SpokeClosed(c) \/ HandlerReturns(c)

Spec == Init /\ [][Next]_vars

\* What the goroutines of a connection do by themselves.
ConnLoops(c) ==
    \/ Upgrade(c) \/ HandshakeFails(c)
    \/ Take(c) \/ Write(c) \/ WriteFails(c) \/ SpokeClosed(c)
    \/ (ConnectionClosed(c) /\ ReceiveEnds(c)) \/ HandlerReturns(c)

\* Goroutines that can go on do.  A select takes each of its ready cases in
\* the end (it chooses among them at random), and writing to a peer that left
\* fails in the end.  Nobody has to connect, to leave or to stop the hub.
Fairness ==
    /\ WF_vars(RunLoop) /\ WF_vars(TxBufferTick)
    /\ SF_vars(RelayPing) /\ SF_vars(unregisterAllClients)
    /\ \A c \in Conn : WF_vars(ConnLoops(c)) /\ SF_vars(~peer[c] /\ WriteFails(c))

FairSpec == Spec /\ Fairness

-----------------------------------------------------------------------------
(* Properties                                                              *)

\* The hub never sends on a channel it has closed, and never closes one
\* twice: either is a panic of the event loop, and of the process.
NoSendOnClosedSpoke == (clients \union (IF run.at = "relay" THEN run.todo ELSE {})) \intersect closed = {}

\* Every transaction that reached the hub after a client registered is on the
\* way to it once, in order: written, being written or in its list, whatever
\* the interleaving of the event loop, which appends, with sendLoop, which
\* takes the list.
TxsOnceInOrder ==
    \A c \in Conn :
        (c \in clients /\ send[c] # "ended") =>
            got[c] \o outgoing[c] \o newTxs[c] = [i \in 1..(txs - joined[c]) |-> joined[c] + i]

\* Stop "unregisters all clients (connections)" and "Wait[s] for Run and its
\* defers to complete": Run ends, and every handler that had registered has
\* returned, however slow the peers.
HubStops ==
    stop = "quit" ~> (run.at = "ended" /\ \A c \in Conn : handler[c] \in {"idle", "register", "done"})

\* A client whose peer has left does not stay registered: the hub learns of it
\* from the pings, although its receive loop unregisters nobody.
GoneClientLeaves == \A c \in Conn : (~peer[c]) ~> (c \notin clients)
=============================================================================
