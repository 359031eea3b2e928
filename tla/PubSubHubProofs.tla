--------------------------- MODULE PubSubHubProofs --------------------------
(***************************************************************************)
(* Proofs about PubSubHub, for any connections, topics, transactions and   *)
(* sizes of the channels, and any interleaving of the event loop with the  *)
(* loops of the connections.                                               *)
(***************************************************************************)
EXTENDS PubSubHub, TxSequences

(***************************************************************************)
(* The inductive invariant, in parts.                                      *)
(***************************************************************************)

\* The loop over the clients serves registered clients: the only client it
\* removes from the map is the one it is serving.
RelaysToClients == run.at = "relay" => run.msg \in Signal /\ run.todo \subseteq clients

\* A spoke is closed when its client is removed from the map, and no client is
\* registered again: its handler has gone on.
ClosedWhenRemoved ==
    /\ clients \cap closed = {}
    /\ \A c \in clients \cup closed : handler[c] \in {"upgrade", "serve", "done"}

\* Nothing happens to a connection before the hub registers it.
FreshUntilRegistered ==
    \A c \in Conn : handler[c] \in {"idle", "register"} =>
        send[c] = "ended" /\ newTxs[c] = <<>> /\ outgoing[c] = <<>> /\ got[c] = <<>>

\* At its range sendLoop has written all it took, and clients joined in the past.
TakesWhenWritten ==
    \A c \in Conn : (send[c] = "range" => outgoing[c] = <<>>) /\ joined[c] <= txs

HubInv ==
    TypeOK /\ RelaysToClients /\ ClosedWhenRemoved /\ FreshUntilRegistered /\ TakesWhenWritten
           /\ TxsOnceInOrder

-----------------------------------------------------------------------------
\* The hub starts without clients.
LEMMA InitInv == Init => HubInv
<1> SUFFICES ASSUME Init PROVE HubInv
  OBVIOUS
<1> USE DEF Init
<1>1. TypeOK
  <2>1. /\ spoke \in [Conn -> Seq(Signal)] /\ \A c \in Conn : Len(spoke[c]) <= SpokeCap
        /\ scenario.txs \in Nat
    BY SizesArePositive, TopicsAssumption
  <2>2. run \in [at : {"select", "relay", "killing", "ended"}, msg : Signal \union {"none"}, todo : SUBSET Conn]
    BY DEF Selecting
  <2>3. /\ newTxs \in [Conn -> Seq(1..scenario.txs)] /\ outgoing \in [Conn -> Seq(1..scenario.txs)]
        /\ got \in [Conn -> Seq(1..scenario.txs)]
    BY EmptySeq
  <2>4. /\ handler \in [Conn -> {"idle", "register", "upgrade", "serve", "done"}]
        /\ peer \in [Conn -> BOOLEAN] /\ recv \in [Conn -> BOOLEAN]
        /\ send \in [Conn -> {"range", "write", "ended"}]
        /\ subs \in [Conn -> SUBSET Topic]
    OBVIOUS
  <2>5. txs \in 0..scenario.txs /\ joined \in [Conn -> 0..scenario.txs]
    BY <2>1
  <2> HIDE DEF Init
  <2> QED BY <2>1, <2>2, <2>3, <2>4, <2>5 DEF TypeOK, Init
<1>2. RelaysToClients /\ ClosedWhenRemoved /\ FreshUntilRegistered /\ TakesWhenWritten
  BY DEF RelaysToClients, ClosedWhenRemoved, FreshUntilRegistered, TakesWhenWritten, Selecting
<1>3. TxsOnceInOrder
  BY DEF TxsOnceInOrder
<1> QED BY <1>1, <1>2, <1>3 DEF HubInv

-----------------------------------------------------------------------------
(* The event loop.                                                         *)

\* registerClient: the client is to have what comes from now on.
LEMMA registerClientInv ==
    ASSUME HubInv, NEW c \in Conn, registerClient(c)
    PROVE  HubInv'
<1> USE DEF registerClient, HubInv
<1>1. TypeOK'
  BY DEF TypeOK
<1>2. RelaysToClients' /\ FreshUntilRegistered'
  BY DEF TypeOK, RelaysToClients, FreshUntilRegistered
<1>3. ClosedWhenRemoved'
  <2>1. c \notin closed /\ closed' = closed /\ clients' = clients \cup {c}
    BY DEF ClosedWhenRemoved
  <2>2. handler'[c] = "upgrade" /\ \A d \in Conn : d # c => handler'[d] = handler[d]
    BY DEF TypeOK
  <2>3. clients \cup closed \subseteq Conn
    BY DEF TypeOK
  <2>4. /\ clients \cap closed = {}
        /\ \A d \in clients \cup closed : handler[d] \in {"upgrade", "serve", "done"}
    BY DEF ClosedWhenRemoved
  <2> QED BY <2>1, <2>2, <2>3, <2>4 DEF ClosedWhenRemoved
<1>4. TakesWhenWritten'
  BY DEF TypeOK, TakesWhenWritten, FreshUntilRegistered
<1>5. TxsOnceInOrder'
  <2>1. got[c] = <<>> /\ outgoing[c] = <<>> /\ newTxs[c] = <<>> /\ joined'[c] = txs /\ txs \in Nat
    BY TopicsAssumption DEF FreshUntilRegistered, TypeOK
  <2>2. got[c] \o outgoing[c] \o newTxs[c] = [i \in 1 .. (txs - joined'[c]) |-> joined'[c] + i]
    BY <2>1
  <2>3. \A d \in Conn : d # c => joined'[d] = joined[d] /\ send'[d] = send[d] /\ (d \in clients' <=> d \in clients)
    BY DEF TypeOK
  <2> SUFFICES ASSUME NEW d \in Conn, d \in clients', send'[d] # "ended"
               PROVE  (got[d] \o outgoing[d] \o newTxs[d] = [i \in 1..(txs - joined[d]) |-> joined[d] + i])'
    BY DEF TxsOnceInOrder
  <2>4. CASE d = c
    BY <2>2, <2>4
  <2>5. CASE d # c
    <3>1. /\ joined'[d] = joined[d] /\ send[d] # "ended" /\ d \in clients
          /\ UNCHANGED <<got, outgoing, newTxs, txs>>
      BY <2>3, <2>5
    <3>2. got[d] \o outgoing[d] \o newTxs[d] = [i \in 1..(txs - joined[d]) |-> joined[d] + i]
      BY <3>1 DEF TxsOnceInOrder
    <3> QED BY <3>1, <3>2
  <2> QED BY <2>4, <2>5
<1> QED BY <1>1, <1>2, <1>3, <1>4, <1>5

\* Messages that come to HubRelay, ticks and Stop only change what Run does next.
LEMMA RunInv ==
    ASSUME HubInv,
           \/ \E m \in scenario.topics \ {"newtxs"} : RelaySignal(m)
           \/ RelayPing \/ Stop \/ TxBufferTick \/ RelayDone \/ RunEnds
    PROVE  HubInv'
<1> USE DEF HubInv
<1>1. UNCHANGED <<clients, txs, spoke, closed, newTxs, joined, connVars>>
  BY DEF RelaySignal, RelayPing, Stop, TxBufferTick, RelayDone, RunEnds
<1> USE <1>1 DEF connVars
<1> DEFINE RunOK ==
        /\ run' \in [at : {"select", "relay", "killing", "ended"}, msg : Signal \union {"none"}, todo : SUBSET Conn]
        /\ RelaysToClients'
<1>2. RunOK
  <2>1. ASSUME NEW m \in Signal, Accept(m)
        PROVE  RunOK
    BY <2>1 DEF TypeOK, RelaysToClients, Accept, Relaying, Selecting
  <2>2. CASE run' = Selecting \/ run' = [Selecting EXCEPT !.at = "ended"]
    BY <2>2 DEF RelaysToClients, Selecting
  <2>3. CASE UNCHANGED run
    BY <2>3 DEF TypeOK, RelaysToClients
  <2>4. scenario.topics \subseteq Signal /\ {"ping", "bye"} \subseteq Signal
    BY TopicsAssumption DEF TypeOK, Signal
  <2> QED BY <2>1, <2>2, <2>3, <2>4
          DEF RelaySignal, RelayPing, Stop, TxBufferTick, RelayDone, RunEnds
<1>3. stop' \in {"no", "bye", "quit"} /\ timeToSend' \in BOOLEAN
  BY DEF TypeOK, RelaySignal, RelayPing, Stop, TxBufferTick, RelayDone, RunEnds
<1>4. TypeOK'
  BY <1>2, <1>3 DEF TypeOK
<1>5. ClosedWhenRemoved' /\ FreshUntilRegistered' /\ TakesWhenWritten' /\ TxsOnceInOrder'
  BY DEF ClosedWhenRemoved, FreshUntilRegistered, TakesWhenWritten, TxsOnceInOrder
<1> QED BY <1>2, <1>4, <1>5

\* A transaction goes to the list of every client, and nowhere else.
LEMMA RelayNewTxInv ==
    ASSUME HubInv, RelayNewTx
    PROVE  HubInv'
<1> USE DEF RelayNewTx, HubInv, connVars
<1> DEFINE T == 1 .. scenario.txs
<1>1. /\ txs \in Nat /\ scenario.txs \in Nat /\ txs' = txs + 1 /\ txs + 1 \in T
      /\ newTxs \in [Conn -> Seq(T)] /\ joined \in [Conn -> 0 .. scenario.txs]
      /\ outgoing \in [Conn -> Seq(T)] /\ got \in [Conn -> Seq(T)]
  BY TopicsAssumption DEF TypeOK
<1>2. \A c \in Conn : newTxs'[c] = IF c \in clients THEN Append(newTxs[c], txs + 1) ELSE newTxs[c]
  BY <1>1 DEF addTxToBuffer
<1>3. newTxs' \in [Conn -> Seq(T)]
  <2>1. \A c \in Conn : newTxs[c] \in Seq(T) /\ Append(newTxs[c], txs + 1) \in Seq(T)
    BY <1>1
  <2>2. \/ newTxs' = newTxs
        \/ newTxs' = [c \in Conn |-> IF c \in clients THEN Append(newTxs[c], txs + 1) ELSE newTxs[c]]
    BY DEF addTxToBuffer
  <2> HIDE DEF T, RelayNewTx, HubInv
  <2> QED BY <1>1, <2>1, <2>2
<1>4. run' \in {run, Relaying("newtxs")}
  OBVIOUS
<1>5. TypeOK'
  <2>1. run' \in [at : {"select", "relay", "killing", "ended"}, msg : Signal \union {"none"}, todo : SUBSET Conn]
    BY <1>4, TopicsAssumption DEF TypeOK, Relaying, Signal
  <2>2. txs' \in 0 .. scenario.txs /\ scenario' = scenario
    BY <1>1
  <2> QED BY <1>3, <2>1, <2>2 DEF TypeOK
<1>6. RelaysToClients'
  BY <1>4, TopicsAssumption DEF RelaysToClients, Relaying, Signal
<1>7. ClosedWhenRemoved'
  BY DEF ClosedWhenRemoved
<1>8. FreshUntilRegistered'
  BY <1>2 DEF FreshUntilRegistered, ClosedWhenRemoved
<1>9. TakesWhenWritten'
  BY <1>1 DEF TakesWhenWritten
<1>10. TxsOnceInOrder'
  <2> SUFFICES ASSUME NEW c \in clients, c \in Conn, send[c] # "ended"
               PROVE  got[c] \o outgoing[c] \o newTxs'[c] = TxsFrom(joined[c], txs + 1)
    BY <1>1 DEF TxsOnceInOrder, TxsFrom
  <2> DEFINE w == got[c] \o outgoing[c]
             x == newTxs[c]
  <2>1. w \o x = TxsFrom(joined[c], txs)
    BY DEF TxsOnceInOrder, TxsFrom
  <2>2. w \in Seq(T) /\ x \in Seq(T) /\ txs + 1 \in T
    BY <1>1
  <2>3. joined[c] \in Nat /\ joined[c] <= txs
    BY <1>1 DEF TakesWhenWritten
  <2>4. newTxs'[c] = Append(x, txs + 1)
    BY <1>2
  <2> HIDE DEF w, x, T, RelayNewTx, HubInv
  <2>5. w \o Append(x, txs + 1) = Append(w \o x, txs + 1) /\ w \o x \in Seq(T)
    BY <2>2, AppendConcat
  <2>6. Append(w \o x, txs + 1) = TxsFrom(joined[c], txs + 1)
    BY <1>1, <2>1, <2>2, <2>3, <2>5, OneMore
  <2> QED BY <2>4, <2>5, <2>6 DEF w
<1> QED BY <1>5, <1>6, <1>7, <1>8, <1>9, <1>10

\* sendMsg closes the spoke of the one client it removes.
LEMMA sendMsgInv ==
    ASSUME HubInv, NEW c \in Conn, sendMsg(c)
    PROVE  HubInv'
<1> USE DEF sendMsg, HubInv, connVars
<1>1. /\ run.at = "relay" /\ run.msg \in Signal /\ c \in clients
      /\ run' = [at |-> "relay", msg |-> run.msg, todo |-> run.todo \ {c}]
      /\ run' \in [at : {"select", "relay", "killing", "ended"}, msg : Signal \union {"none"}, todo : SUBSET Conn]
  BY DEF TypeOK, RelaysToClients
<1>2. \/ clients' = clients /\ closed' = closed
      \/ clients' = clients \ {c} /\ closed' = closed \cup {c}
  BY DEF unregisterClient
<1>3. spoke' \in [Conn -> Seq(Signal)] /\ \A d \in Conn : Len(spoke'[d]) <= SpokeCap
  <2>1. spoke \in [Conn -> Seq(Signal)] /\ \A d \in Conn : Len(spoke[d]) <= SpokeCap
    BY DEF TypeOK
  <2>2. CASE UNCHANGED spoke
    BY <2>1, <2>2
  <2>3. CASE HasRoom(c) /\ spoke' = [spoke EXCEPT ![c] = Append(@, run.msg)]
    BY <1>1, <2>1, <2>3, SizesArePositive DEF HasRoom
  <2> QED BY <2>2, <2>3
<1>4. TypeOK'
  BY <1>1, <1>2, <1>3 DEF TypeOK
<1>5. RelaysToClients'
  BY <1>1, <1>2 DEF RelaysToClients
<1>6. ClosedWhenRemoved'
  BY <1>1, <1>2 DEF ClosedWhenRemoved
<1>7. FreshUntilRegistered' /\ TakesWhenWritten'
  BY DEF FreshUntilRegistered, TakesWhenWritten
<1>8. TxsOnceInOrder'
  BY <1>2 DEF TxsOnceInOrder
<1> QED BY <1>4, <1>5, <1>6, <1>7, <1>8

\* The deferred unregisterAllClients closes every spoke that is open.
LEMMA unregisterAllClientsInv ==
    ASSUME HubInv, unregisterAllClients
    PROVE  HubInv'
<1> USE DEF unregisterAllClients, HubInv, connVars
<1>1. TypeOK'
  BY DEF TypeOK
<1>2. RelaysToClients' /\ ClosedWhenRemoved'
  BY DEF RelaysToClients, ClosedWhenRemoved
<1>3. FreshUntilRegistered' /\ TakesWhenWritten' /\ TxsOnceInOrder'
  BY DEF FreshUntilRegistered, TakesWhenWritten, TxsOnceInOrder
<1> QED BY <1>1, <1>2, <1>3

-----------------------------------------------------------------------------
(* The connections.                                                        *)

\* The handler, the peer and receiveLoop do not touch the lists.
LEMMA ReceiveInv ==
    ASSUME HubInv, NEW c \in Conn,
           Connect(c) \/ Upgrade(c) \/ PeerLeaves(c) \/ Request(c) \/ ReceiveEnds(c) \/ HandlerReturns(c)
    PROVE  HubInv'
<1> USE DEF HubInv
<1>1. UNCHANGED <<run, clients, timeToSend, txs, stop, closed, joined, scenario, spoke, newTxs, send, outgoing, got>>
  BY DEF Connect, Upgrade, PeerLeaves, Request, ReceiveEnds, HandlerReturns, Unchanged, hubVars
<1>2. /\ handler' \in [Conn -> {"idle", "register", "upgrade", "serve", "done"}]
      /\ peer' \in [Conn -> BOOLEAN] /\ recv' \in [Conn -> BOOLEAN]
  BY DEF TypeOK, Connect, Upgrade, PeerLeaves, Request, ReceiveEnds, HandlerReturns
<1>3. subs' \in [Conn -> SUBSET Topic]
  <2>1. subs \in [Conn -> SUBSET Topic] /\ scenario.topics \subseteq Topic
    BY TopicsAssumption DEF TypeOK
  <2>2. CASE Request(c)
    <3>1. PICK m \in scenario.topics : \/ subs' = [subs EXCEPT ![c] = @ \union {m}]
                                      \/ subs' = [subs EXCEPT ![c] = @ \ {m}]
      BY <2>2 DEF Request
    <3> QED BY <2>1, <3>1
  <2> QED BY <2>1, <2>2 DEF Connect, Upgrade, PeerLeaves, ReceiveEnds, HandlerReturns
<1>4. \A d \in Conn : /\ handler'[d] \in {"idle", "register"} => handler[d] \in {"idle", "register"}
                      /\ handler[d] \in {"upgrade", "serve", "done"} => handler'[d] \in {"upgrade", "serve", "done"}
  BY DEF TypeOK, Connect, Upgrade, PeerLeaves, Request, ReceiveEnds, HandlerReturns
<1> USE <1>1
<1>5. TypeOK'
  BY <1>2, <1>3 DEF TypeOK
<1>6. RelaysToClients' /\ TakesWhenWritten' /\ TxsOnceInOrder'
  BY DEF RelaysToClients, TakesWhenWritten, TxsOnceInOrder
<1>7. ClosedWhenRemoved'
  BY <1>4 DEF ClosedWhenRemoved, TypeOK
<1>8. FreshUntilRegistered'
  BY <1>4 DEF FreshUntilRegistered
<1> QED BY <1>5, <1>6, <1>7, <1>8

\* sendLoop takes the list as a whole, and nothing is between the list and what
\* it has written.
LEMMA TakeInv ==
    ASSUME HubInv, NEW c \in Conn, Take(c)
    PROVE  HubInv'
<1> USE DEF Take, HubInv, Unchanged, hubVars
<1> DEFINE T == 1 .. scenario.txs
<1>1. /\ newTxs \in [Conn -> Seq(T)] /\ outgoing \in [Conn -> Seq(T)] /\ got \in [Conn -> Seq(T)]
      /\ send \in [Conn -> {"range", "write", "ended"}] /\ spoke \in [Conn -> Seq(Signal)]
      /\ \A d \in Conn : Len(spoke[d]) <= SpokeCap
  BY DEF TypeOK
<1>2. /\ send[c] = "range" /\ outgoing[c] = <<>> /\ handler[c] \notin {"idle", "register"}
  BY DEF TakesWhenWritten, FreshUntilRegistered
<1>3. /\ spoke' \in [Conn -> Seq(Signal)] /\ \A d \in Conn : Len(spoke'[d]) <= SpokeCap
  <2>1. spoke[c] \in Seq(Signal) /\ spoke[c] # <<>> /\ spoke' = [spoke EXCEPT ![c] = Tail(spoke[c])]
    BY <1>1
  <2>2. Tail(spoke[c]) \in Seq(Signal) /\ Len(Tail(spoke[c])) = Len(spoke[c]) - 1 /\ Len(spoke[c]) \in Nat
    BY <2>1
  <2> QED BY <1>1, <2>1, <2>2, SizesArePositive
<1>4. /\ send' \in [Conn -> {"range", "write", "ended"}]
      /\ send'[c] \in {"range", "write"} /\ \A d \in Conn : d # c => send'[d] = send[d]
  BY <1>1
<1>5. \/ UNCHANGED <<newTxs, outgoing>>
      \/ /\ send'[c] = "write"
         /\ outgoing' = [outgoing EXCEPT ![c] = newTxs[c]] /\ newTxs' = [newTxs EXCEPT ![c] = <<>>]
  BY <1>1 DEF takeTxs
<1>6. newTxs' \in [Conn -> Seq(T)] /\ outgoing' \in [Conn -> Seq(T)]
  <2>1. newTxs[c] \in Seq(T) /\ <<>> \in Seq(T)
    BY <1>1, EmptySeq
  <2> HIDE DEF T, Take, HubInv
  <2> QED BY <1>1, <1>5, <2>1
<1>7. TypeOK'
  BY <1>3, <1>4, <1>6 DEF TypeOK
<1>8. RelaysToClients' /\ ClosedWhenRemoved'
  BY DEF RelaysToClients, ClosedWhenRemoved
<1>9. FreshUntilRegistered'
  BY <1>1, <1>2, <1>4, <1>5 DEF FreshUntilRegistered
<1>10. TakesWhenWritten'
  BY <1>1, <1>2, <1>4, <1>5 DEF TakesWhenWritten
<1>11. TxsOnceInOrder'
  <2>1. ASSUME NEW d \in Conn
        PROVE  got'[d] \o outgoing'[d] \o newTxs'[d] = got[d] \o outgoing[d] \o newTxs[d]
    <3>1. CASE UNCHANGED <<newTxs, outgoing>> \/ d # c
      BY <1>1, <1>5, <3>1
    <3>2. CASE d = c /\ outgoing' = [outgoing EXCEPT ![c] = newTxs[c]] /\ newTxs' = [newTxs EXCEPT ![c] = <<>>]
      <4>1. got'[d] = got[d] /\ outgoing'[d] = newTxs[d] /\ newTxs'[d] = <<>> /\ outgoing[d] = <<>>
        BY <1>1, <1>2, <3>2
      <4>2. got[d] \in Seq(T) /\ newTxs[d] \in Seq(T)
        BY <1>1
      <4> HIDE DEF Take, HubInv
      <4> QED BY <4>1, <4>2, EmptyBetween
    <3> QED BY <1>5, <3>1, <3>2
  <2>2. \A d \in Conn : send'[d] # "ended" => send[d] # "ended"
    BY <1>2, <1>4
  <2> QED BY <2>1, <2>2 DEF TxsOnceInOrder
<1> QED BY <1>7, <1>8, <1>9, <1>10, <1>11

\* What is written is what was taken.
LEMMA WriteInv ==
    ASSUME HubInv, NEW c \in Conn, Write(c)
    PROVE  HubInv'
<1> USE DEF Write, HubInv, Unchanged, hubVars
<1> DEFINE T == 1 .. scenario.txs
<1>1. /\ newTxs \in [Conn -> Seq(T)] /\ outgoing \in [Conn -> Seq(T)] /\ got \in [Conn -> Seq(T)]
      /\ send \in [Conn -> {"range", "write", "ended"}]
  BY DEF TypeOK
<1>2. got[c] \o outgoing[c] \in Seq(T) /\ <<>> \in Seq(T)
  BY <1>1
<1>3. /\ outgoing' \in [Conn -> Seq(T)] /\ got' \in [Conn -> Seq(T)]
      /\ send' \in [Conn -> {"range", "write", "ended"}]
  BY <1>1, <1>2
<1>4. TypeOK'
  BY <1>3 DEF TypeOK
<1>5. RelaysToClients' /\ ClosedWhenRemoved'
  BY DEF RelaysToClients, ClosedWhenRemoved
<1>6. FreshUntilRegistered' /\ TakesWhenWritten'
  BY <1>1 DEF FreshUntilRegistered, TakesWhenWritten
<1>7. TxsOnceInOrder'
  <2>1. ASSUME NEW d \in Conn
        PROVE  got'[d] \o outgoing'[d] \o newTxs'[d] = got[d] \o outgoing[d] \o newTxs[d]
    <3>1. CASE d # c
      BY <1>1, <3>1
    <3>2. CASE d = c
      <4>1. got'[d] = got[d] \o outgoing[d] /\ outgoing'[d] = <<>> /\ newTxs'[d] = newTxs[d]
        BY <1>1, <3>2
      <4>2. got[d] \o outgoing[d] \in Seq(T) /\ newTxs[d] \in Seq(T)
        BY <1>1
      <4> HIDE DEF Write, HubInv
      <4> QED BY <4>1, <4>2, EmptyBetween
    <3> QED BY <3>1, <3>2
  <2>2. \A d \in Conn : send'[d] # "ended" => send[d] # "ended"
    BY <1>1
  <2> QED BY <2>1, <2>2 DEF TxsOnceInOrder
<1> QED BY <1>4, <1>5, <1>6, <1>7

\* When sendLoop ends the client is promised nothing more.
LEMMA SendEndsInv ==
    ASSUME HubInv, NEW c \in Conn, WriteFails(c) \/ SpokeClosed(c) \/ HandshakeFails(c)
    PROVE  HubInv'
<1> USE DEF WriteFails, SpokeClosed, HandshakeFails, HubInv, Unchanged, hubVars
<1>1. TypeOK'
  BY DEF TypeOK
<1>2. RelaysToClients' /\ ClosedWhenRemoved'
  BY DEF TypeOK, RelaysToClients, ClosedWhenRemoved
<1>3. FreshUntilRegistered' /\ TakesWhenWritten'
  BY DEF TypeOK, FreshUntilRegistered, TakesWhenWritten
<1>4. \A d \in Conn : send'[d] # "ended" => send[d] # "ended"
  BY DEF TypeOK
<1>5. TxsOnceInOrder'
  BY <1>4 DEF TxsOnceInOrder
<1> QED BY <1>1, <1>2, <1>3, <1>5

-----------------------------------------------------------------------------
\* Every step preserves the invariant.
LEMMA NextInv == HubInv /\ [Next]_vars => HubInv'
<1> SUFFICES ASSUME HubInv, [Next]_vars
             PROVE  HubInv'
  OBVIOUS
<1>1. ASSUME NEW c \in Conn, registerClient(c)
      PROVE  HubInv'
  BY <1>1, registerClientInv
<1>2. CASE \/ \E m \in scenario.topics \ {"newtxs"} : RelaySignal(m)
           \/ RelayPing \/ Stop \/ TxBufferTick \/ RelayDone \/ RunEnds
  BY <1>2, RunInv
<1>3. CASE RelayNewTx
  BY <1>3, RelayNewTxInv
<1>4. ASSUME NEW c \in Conn, sendMsg(c)
      PROVE  HubInv'
  BY <1>4, sendMsgInv
<1>5. CASE unregisterAllClients
  BY <1>5, unregisterAllClientsInv
<1>6. ASSUME NEW c \in Conn,
             Connect(c) \/ Upgrade(c) \/ PeerLeaves(c) \/ Request(c) \/ ReceiveEnds(c) \/ HandlerReturns(c)
      PROVE  HubInv'
  BY <1>6, ReceiveInv
<1>7. ASSUME NEW c \in Conn, Take(c)
      PROVE  HubInv'
  BY <1>7, TakeInv
<1>8. ASSUME NEW c \in Conn, Write(c)
      PROVE  HubInv'
  BY <1>8, WriteInv
<1>9. ASSUME NEW c \in Conn, WriteFails(c) \/ SpokeClosed(c) \/ HandshakeFails(c)
      PROVE  HubInv'
  BY <1>9, SendEndsInv
<1>10. CASE UNCHANGED vars
  <2> USE <1>10 DEF vars, HubInv
  <2>1. TypeOK'
    BY DEF TypeOK
  <2>2. RelaysToClients' /\ ClosedWhenRemoved' /\ FreshUntilRegistered' /\ TakesWhenWritten'
    BY DEF RelaysToClients, ClosedWhenRemoved, FreshUntilRegistered, TakesWhenWritten
  <2>3. TxsOnceInOrder'
    BY DEF TxsOnceInOrder
  <2> QED BY <2>1, <2>2, <2>3
<1> QED BY <1>1, <1>2, <1>3, <1>4, <1>5, <1>6, <1>7, <1>8, <1>9, <1>10 DEF Next, RunLoop

\* The induction.
LEMMA Invariance == Spec => []HubInv
BY InitInv, NextInv, PTL DEF Spec

-----------------------------------------------------------------------------
(* The theorems.                                                           *)

\* Type correctness: in particular no spoke ever holds more messages than its
\* channel has room for.
THEOREM TypeCorrect == Spec => []TypeOK
<1>1. HubInv => TypeOK
  BY DEF HubInv
<1> QED BY Invariance, <1>1, PTL

\* The event loop never sends on a channel it has closed and never closes one
\* twice, whenever clients leave and whether or not the hub stops.
THEOREM NeverSendsOnClosedSpoke == Spec => []NoSendOnClosedSpoke
<1>1. HubInv => NoSendOnClosedSpoke
  BY DEF HubInv, NoSendOnClosedSpoke, RelaysToClients, ClosedWhenRemoved
<1> QED BY Invariance, <1>1, PTL

\* No transaction is lost, repeated or out of order between addTxToBuffer and the
\* connection, as long as sendLoop of the client runs.
THEOREM ClientsGetTxsOnceInOrder == Spec => []TxsOnceInOrder
<1>1. HubInv => TxsOnceInOrder
  BY DEF HubInv
<1> QED BY Invariance, <1>1, PTL
=============================================================================
