-------------------------- MODULE ExplorerHubProofs -------------------------
(***************************************************************************)
(* Proofs about ExplorerHub, for any connections, transactions and sizes   *)
(* of the channels, and any interleaving of the event loop with the        *)
(* handlers, the ticker and the goroutines that push a full buffer.        *)
(***************************************************************************)
EXTENDS ExplorerHub, TxSequences

(***************************************************************************)
(* The inductive invariant, in parts.                                      *)
(***************************************************************************)

\* A goroutine of maybeSendTxns is started by a transaction that fills the buffer.
PushersHaveTxs == pushers["reset"] + pushers["send"] <= txs

\* A spoke is closed when its client is removed from the map, and no client is
\* registered again.
ClosedWhenRemoved ==
    /\ clients \cap closed = {}
    /\ \A c \in clients \cup closed : handler[c] \notin {"idle", "register"}

\* Nothing reaches a client before the hub registers it.
FreshUntilRegistered ==
    \A c \in Conn : handler[c] \in {"idle", "register"} => spoke[c] = <<>> /\ got[c] = <<>>

\* The buffer holds the latest transactions, and clients joined before them.
BufferIsLatest ==
    /\ Len(txBuffer) <= txs
    /\ txBuffer = TxsFrom(txs - Len(txBuffer), txs)
    /\ \A c \in Conn : joined[c] <= txs

Positions(c) == {i \in 1 .. Len(spoke[c]) : spoke[c][i] = "newtxs"}

\* One signal at most is on its way to a client whose newTxs were not replaced,
\* in its channel or with its handler.
OneSignal ==
    \A c \in clients \ replaced :
        (\A i, j \in Positions(c) : i = j) /\ (handler[c] = "read" => Positions(c) = {})

HubInv ==
    TypeOK /\ PushersHaveTxs /\ ClosedWhenRemoved /\ FreshUntilRegistered /\ BufferIsLatest
           /\ OneSignal /\ TxsOnceUnlessReplaced

\* What a client that was not overtaken still has to read.
Pending(c) == IF Unread(c) THEN newTxs[c] ELSE <<>>

\* All that client c is to have, read, pending or in the buffer.
OnTheWay(c) == got[c] \o Pending(c) \o txBuffer = TxsFrom(joined[c], txs)

\* TxsOnceUnlessReplaced client by client, before a step and after it.
LEMMA OnceBefore ==
    ASSUME TxsOnceUnlessReplaced
    PROVE  \A c \in clients \ replaced : OnTheWay(c)
BY DEF TxsOnceUnlessReplaced, OnTheWay, Pending, Unread, TxsFrom

\* It follows when every transaction of a client is on the way.
LEMMA OnceAfter ==
    ASSUME \A c \in clients' \ replaced' : OnTheWay(c)'
    PROVE  TxsOnceUnlessReplaced'
BY DEF TxsOnceUnlessReplaced, OnTheWay, Pending, Unread, TxsFrom

\* A step that leaves the lists alone and registers nobody.
LEMMA OnceKept ==
    ASSUME TxsOnceUnlessReplaced, OneSignal, UNCHANGED <<txs, txBuffer>>,
           clients' \ replaced' \subseteq clients \ replaced,
           \A c \in clients' \ replaced' :
              /\ spoke'[c] = spoke[c] /\ newTxs'[c] = newTxs[c] /\ got'[c] = got[c] /\ joined'[c] = joined[c]
              /\ handler'[c] = "read" <=> handler[c] = "read"
    PROVE  TxsOnceUnlessReplaced' /\ OneSignal'
<1>1. \A c \in clients' \ replaced' : Pending(c)' = Pending(c) /\ Positions(c)' = Positions(c)
  BY DEF Pending, Unread, Positions
<1>2. \A c \in clients' \ replaced' : OnTheWay(c)'
  BY <1>1, OnceBefore DEF OnTheWay
<1>3. OneSignal'
  BY <1>1 DEF OneSignal
<1> QED BY <1>2, <1>3, OnceAfter

-----------------------------------------------------------------------------
\* The hub starts without clients and transactions.
LEMMA InitInv == Init => HubInv
<1> SUFFICES ASSUME Init PROVE HubInv
  OBVIOUS
<1> USE DEF Init
<1>1. TypeOK
  <2>1. scenario.txs \in Nat /\ SpokeCap \in Nat /\ XcCap \in Nat /\ SignalCap \in Nat
    BY ScenariosAssumption, CapsArePositive
  <2>2. /\ spoke \in [Conn -> Seq({"signal", "newtxs"})] /\ \A c \in Conn : Len(spoke[c]) <= SpokeCap
        /\ xc \in [Conn -> 0..XcCap]
    BY <2>1
  <2>3. run \in [at : {"select", "exchange", "quitting", "ended"}, todo : SUBSET Conn]
    BY DEF Selecting
  <2>4. /\ newTxs \in [Conn -> Seq(1..scenario.txs)] /\ got \in [Conn -> Seq(1..scenario.txs)]
        /\ txBuffer \in Seq(1..scenario.txs) /\ tickerChan \in Seq({"reset", "stop"})
    BY EmptySeq
  <2>5. /\ handler \in [Conn -> {"idle", "register", "select", "read", "write", "unregister", "returned"}]
        /\ peer \in [Conn -> BOOLEAN] /\ pushers \in [{"reset", "send"} -> 0..scenario.txs]
        /\ joined \in [Conn -> 0..scenario.txs]
    BY <2>1
  <2>6. txs \in 0..scenario.txs /\ sendBuffer \in 0..SignalCap /\ Len(tickerChan) <= SignalCap
    BY <2>1
  <2> HIDE DEF Init
  <2> QED BY <2>2, <2>3, <2>4, <2>5, <2>6 DEF TypeOK, Init
<1>2. PushersHaveTxs /\ ClosedWhenRemoved /\ FreshUntilRegistered
  BY DEF PushersHaveTxs, ClosedWhenRemoved, FreshUntilRegistered
<1>3. BufferIsLatest
  <2>1. TxsFrom(0, 0) = <<>>
    BY NoTxs
  <2>2. txs = 0 /\ Len(txBuffer) = 0
    BY EmptySeq
  <2> QED BY <2>1, <2>2 DEF BufferIsLatest
<1>4. OneSignal /\ TxsOnceUnlessReplaced
  BY DEF OneSignal, TxsOnceUnlessReplaced
<1> QED BY <1>1, <1>2, <1>3, <1>4 DEF HubInv

-----------------------------------------------------------------------------
(* The event loop.                                                         *)

\* The loop's own state, the ticker and the goroutines that push a buffer: no
\* client and no transaction is touched.
LEMMA TickerInv ==
    ASSUME HubInv,
           \/ ExchangeUpdate \/ UpdateDone \/ Quit \/ Stop
           \/ Tick \/ TickSends \/ TickerReceives \/ PushReset \/ PushSend
    PROVE  HubInv'
<1> USE DEF HubInv
<1>1. UNCHANGED <<clients, txs, txBuffer, spoke, xc, closed, handler, peer, newTxs, replaced, joined, got, scenario>>
  BY DEF ExchangeUpdate, UpdateDone, Quit, Stop, Tick, TickSends, TickerReceives, PushReset, PushSend,
         connVars, txVars
<1>2. run' \in [at : {"select", "exchange", "quitting", "ended"}, todo : SUBSET Conn]
  BY DEF TypeOK, ExchangeUpdate, UpdateDone, Quit, Stop, Tick, TickSends, TickerReceives, PushReset,
         PushSend, Selecting
<1>3. quit' \in BOOLEAN /\ panicked' \in BOOLEAN /\ ticker' \in {"waiting", "sending", "ended"}
  BY DEF TypeOK, ExchangeUpdate, UpdateDone, Quit, Stop, Tick, TickSends, TickerReceives, PushReset,
         PushSend, txVars
<1>4. SignalCap \in Nat /\ scenario.txs \in Nat
  BY CapsArePositive, ScenariosAssumption DEF TypeOK
<1>5. sendBuffer' \in 0..SignalCap
  BY <1>4 DEF TypeOK, ExchangeUpdate, UpdateDone, Quit, Stop, Tick, TickSends, TickerReceives, PushReset,
         PushSend, txVars
<1>6. tickerChan' \in Seq({"reset", "stop"}) /\ Len(tickerChan') <= SignalCap
  <2>1. tickerChan \in Seq({"reset", "stop"}) /\ Len(tickerChan) <= SignalCap
    BY DEF TypeOK
  <2>2. CASE UNCHANGED tickerChan
    BY <2>1, <2>2
  <2>3. CASE tickerChan # <<>> /\ tickerChan' = Tail(tickerChan)
    BY <1>4, <2>1, <2>3
  <2>4. CASE Len(tickerChan) < SignalCap /\ tickerChan' = Append(tickerChan, "reset")
    BY <1>4, <2>1, <2>4
  <2> QED BY <2>2, <2>3, <2>4
          DEF ExchangeUpdate, UpdateDone, Quit, Stop, Tick, TickSends, TickerReceives, PushReset, PushSend, txVars
<1>7. pushers' \in [{"reset", "send"} -> 0..scenario.txs] /\ PushersHaveTxs'
  <2>1. /\ pushers \in [{"reset", "send"} -> 0..scenario.txs] /\ txs \in 0..scenario.txs
        /\ pushers["reset"] + pushers["send"] <= txs
    BY DEF TypeOK, PushersHaveTxs
  <2>2. CASE UNCHANGED pushers
    BY <1>1, <2>1, <2>2 DEF PushersHaveTxs
  <2>3. CASE /\ pushers["reset"] > 0
             /\ pushers' = [pushers EXCEPT !["reset"] = @ - 1, !["send"] = @ + 1]
    BY <1>1, <1>4, <2>1, <2>3 DEF PushersHaveTxs
  <2>4. CASE pushers["reset"] > 0 /\ pushers' = [pushers EXCEPT !["reset"] = @ - 1]
    BY <1>1, <1>4, <2>1, <2>4 DEF PushersHaveTxs
  <2>5. CASE pushers["send"] > 0 /\ pushers' = [pushers EXCEPT !["send"] = @ - 1]
    BY <1>1, <1>4, <2>1, <2>5 DEF PushersHaveTxs
  <2> QED BY <2>2, <2>3, <2>4, <2>5
          DEF ExchangeUpdate, UpdateDone, Quit, Stop, Tick, TickSends, TickerReceives, PushReset, PushSend, txVars
<1>8. TypeOK'
  BY <1>1, <1>2, <1>3, <1>5, <1>6, <1>7 DEF TypeOK
<1>9. ClosedWhenRemoved' /\ FreshUntilRegistered' /\ BufferIsLatest'
  BY <1>1 DEF ClosedWhenRemoved, FreshUntilRegistered, BufferIsLatest
<1>10. OneSignal' /\ TxsOnceUnlessReplaced'
  BY <1>1, OnceKept
<1> QED BY <1>7, <1>8, <1>9, <1>10

\* An exchange update goes to a channel of its own.
LEMMA SendUpdateInv ==
    ASSUME HubInv, NEW c \in Conn, SendUpdate(c)
    PROVE  HubInv'
<1> USE DEF HubInv, SendUpdate, txVars
<1>1. xc' \in [Conn -> 0..XcCap]
  <2>1. xc \in [Conn -> 0..XcCap] /\ xc[c] < XcCap /\ xc' = [xc EXCEPT ![c] = @ + 1]
    BY DEF TypeOK
  <2>2. xc[c] + 1 \in 0..XcCap
    BY <2>1, CapsArePositive
  <2> QED BY <2>1, <2>2
<1>2. TypeOK'
  BY <1>1 DEF TypeOK
<1>3. PushersHaveTxs' /\ ClosedWhenRemoved' /\ FreshUntilRegistered' /\ BufferIsLatest'
  BY DEF PushersHaveTxs, ClosedWhenRemoved, FreshUntilRegistered, BufferIsLatest
<1>4. OneSignal' /\ TxsOnceUnlessReplaced'
  BY OnceKept
<1> QED BY <1>2, <1>3, <1>4

\* A client that registers is to have what is in the buffer.
LEMMA registerClientInv ==
    ASSUME HubInv, NEW c \in Conn, registerClient(c)
    PROVE  HubInv'
<1> USE DEF HubInv, registerClient, txVars
<1> DEFINE j == txs - Len(txBuffer)
<1>1. txs \in Nat /\ Len(txBuffer) \in Nat /\ j \in 0..scenario.txs /\ scenario.txs \in Nat
      /\ txBuffer \in Seq(1..scenario.txs)
  BY ScenariosAssumption DEF TypeOK, BufferIsLatest
<1>2. /\ joined' \in [Conn -> 0..scenario.txs] /\ joined'[c] = j
      /\ \A d \in Conn : d # c => joined'[d] = joined[d]
  BY <1>1 DEF TypeOK
<1>3. TypeOK'
  BY <1>2 DEF TypeOK
<1>4. PushersHaveTxs' /\ ClosedWhenRemoved' /\ FreshUntilRegistered'
  BY DEF TypeOK, PushersHaveTxs, ClosedWhenRemoved, FreshUntilRegistered
<1>5. BufferIsLatest'
  BY <1>1, <1>2 DEF BufferIsLatest
<1>6. spoke[c] = <<>> /\ got[c] = <<>>
  BY DEF FreshUntilRegistered
<1>7. OneSignal'
  <2>1. Positions(c)' = {}
    BY <1>6 DEF Positions
  <2>2. \A d \in clients \ replaced : d # c => handler'[d] = handler[d]
    BY DEF TypeOK
  <2> QED BY <2>1, <2>2 DEF OneSignal, Positions
<1>8. TxsOnceUnlessReplaced'
  <2> SUFFICES ASSUME NEW d \in clients' \ replaced'
               PROVE  OnTheWay(d)'
    BY OnceAfter
  <2>1. CASE d # c
    <3>1. OnTheWay(d) /\ joined'[d] = joined[d] /\ handler'[d] = handler[d]
      BY <1>2, <2>1, OnceBefore DEF TypeOK
    <3> QED BY <3>1 DEF OnTheWay, Pending, Unread
  <2>2. CASE d = c
    <3>1. Range(<<>>) = {}
      BY DEF Range
    <3>2. Pending(d)' = <<>> /\ got'[d] = <<>>
      BY <1>6, <2>2, <3>1 DEF TypeOK, Pending, Unread
    <3>3. <<>> \o <<>> \o txBuffer = txBuffer
      BY <1>1
    <3>4. txBuffer = TxsFrom(joined'[d], txs)
      BY <1>2, <2>2 DEF BufferIsLatest
    <3> HIDE DEF registerClient, HubInv
    <3>5. got'[d] \o Pending(d)' \o txBuffer = txBuffer
      BY <3>2, <3>3
    <3>6. txBuffer' = txBuffer /\ txs' = txs
      BY DEF registerClient
    <3> QED BY <3>4, <3>5, <3>6 DEF OnTheWay
  <2> QED BY <2>1, <2>2
<1> QED BY <1>3, <1>4, <1>5, <1>7, <1>8

\* Unregister: the client leaves the map, if it is in it, and its spoke is closed.
LEMMA UnregisterInv ==
    ASSUME HubInv, NEW c \in Conn, Unregister(c)
    PROVE  HubInv'
<1> USE DEF HubInv, Unregister, txVars, unregisterClient
<1>1. TypeOK'
  BY DEF TypeOK
<1>2. PushersHaveTxs' /\ FreshUntilRegistered' /\ BufferIsLatest'
  BY DEF TypeOK, PushersHaveTxs, FreshUntilRegistered, BufferIsLatest
<1>3. ClosedWhenRemoved'
  BY DEF TypeOK, ClosedWhenRemoved
<1>4. OneSignal' /\ TxsOnceUnlessReplaced'
  BY OnceKept
<1> QED BY <1>1, <1>2, <1>3, <1>4

\* The end of the event loop unregisters everyone.
LEMMA RunEndsInv ==
    ASSUME HubInv, RunEnds
    PROVE  HubInv'
<1> USE DEF HubInv, RunEnds, unregisterAllClients, unregisterClient
<1>1. tickerChan' \in Seq({"reset", "stop"}) /\ Len(tickerChan') <= SignalCap
  BY CapsArePositive DEF TypeOK
<1>2. TypeOK'
  BY <1>1 DEF TypeOK
<1>3. PushersHaveTxs' /\ FreshUntilRegistered' /\ BufferIsLatest' /\ ClosedWhenRemoved'
  BY DEF PushersHaveTxs, FreshUntilRegistered, BufferIsLatest, ClosedWhenRemoved
<1>4. OneSignal' /\ TxsOnceUnlessReplaced'
  BY OnceKept
<1> QED BY <1>2, <1>3, <1>4

\* What a signal does to the channels: the clients that had no room are
\* unregistered, the others have one signal more.
LEMMA SignalFacts ==
    ASSUME HubInv, NEW m \in {"signal", "newtxs"}, Signal(m), UNCHANGED handler
    PROVE  /\ clients' = clients \ Full /\ clients' \subseteq clients
           /\ clients' \subseteq Conn /\ closed' \subseteq Conn
           /\ spoke' \in [Conn -> Seq({"signal", "newtxs"})] /\ \A c \in Conn : Len(spoke'[c]) <= SpokeCap
           /\ \A c \in clients' : spoke'[c] = Append(spoke[c], m) /\ spoke[c] \in Seq({"signal", "newtxs"})
           /\ \A c \in Conn \ clients : spoke'[c] = spoke[c]
           /\ ClosedWhenRemoved'
<1> USE DEF HubInv, Signal, unregisterClient
<1>1. /\ spoke \in [Conn -> Seq({"signal", "newtxs"})] /\ clients \subseteq Conn /\ closed \subseteq Conn
      /\ \A c \in Conn : Len(spoke[c]) \in Nat /\ Len(spoke[c]) <= SpokeCap
      /\ SpokeCap \in Nat
  BY CapsArePositive DEF TypeOK
<1>2. /\ clients' = clients \ Full /\ clients' \subseteq clients /\ clients' \subseteq Conn /\ closed' \subseteq Conn
  BY <1>1
<1>3. ClosedWhenRemoved'
  BY <1>1 DEF ClosedWhenRemoved
<1>4. /\ \A c \in clients' : spoke'[c] = Append(spoke[c], m) /\ spoke[c] \in Seq({"signal", "newtxs"})
      /\ \A c \in Conn \ clients : spoke'[c] = spoke[c]
  BY <1>1, <1>2
<1>5. ASSUME NEW c \in Conn
      PROVE  spoke'[c] \in Seq({"signal", "newtxs"}) /\ Len(spoke'[c]) <= SpokeCap
  <2>1. CASE c \in clients \ Full
    <3>1. spoke'[c] = Append(spoke[c], m) /\ Len(spoke[c]) # SpokeCap
      BY <1>1, <2>1 DEF Full
    <3> QED BY <1>1, <3>1
  <2>2. CASE c \notin clients \ Full
    BY <1>1, <2>2
  <2> QED BY <2>1, <2>2
<1>6. spoke' \in [Conn -> Seq({"signal", "newtxs"})]
  BY <1>5
<1> QED BY <1>2, <1>3, <1>4, <1>5, <1>6

\* Another signal is not one for transactions.
LEMMA RelaySignalInv ==
    ASSUME HubInv, RelaySignal
    PROVE  HubInv'
<1> USE DEF RelaySignal, txVars
<1>1. /\ clients' = clients \ Full /\ clients' \subseteq clients
      /\ clients' \subseteq Conn /\ closed' \subseteq Conn
      /\ spoke' \in [Conn -> Seq({"signal", "newtxs"})] /\ \A c \in Conn : Len(spoke'[c]) <= SpokeCap
      /\ \A c \in clients' : spoke'[c] = Append(spoke[c], "signal") /\ spoke[c] \in Seq({"signal", "newtxs"})
      /\ \A c \in Conn \ clients : spoke'[c] = spoke[c]
      /\ ClosedWhenRemoved'
  BY SignalFacts
<1> USE DEF HubInv
<1>2. TypeOK'
  BY <1>1 DEF TypeOK
<1>3. PushersHaveTxs' /\ BufferIsLatest'
  BY DEF PushersHaveTxs, BufferIsLatest
<1>4. FreshUntilRegistered'
  BY <1>1 DEF FreshUntilRegistered, ClosedWhenRemoved
<1>5. ASSUME NEW c \in clients'
      PROVE  Pending(c)' = Pending(c) /\ Positions(c)' = Positions(c)
  <2>1. spoke'[c] = Append(spoke[c], "signal") /\ spoke[c] \in Seq({"signal", "newtxs"})
    BY <1>1
  <2>2. Range(spoke'[c]) = Range(spoke[c]) \cup {"signal"}
    BY <2>1, AppendRange
  <2>3. /\ Len(spoke'[c]) = Len(spoke[c]) + 1 /\ Len(spoke[c]) \in Nat
        /\ \A i \in 1 .. Len(spoke[c]) : spoke'[c][i] = spoke[c][i]
        /\ spoke'[c][Len(spoke[c]) + 1] = "signal"
    BY <2>1
  <2>4. Positions(c)' = Positions(c)
    BY <2>3 DEF Positions
  <2> QED BY <2>2, <2>4 DEF Pending, Unread
<1>6. OneSignal'
  BY <1>1, <1>5 DEF OneSignal
<1>7. TxsOnceUnlessReplaced'
  BY <1>1, <1>5, OnceBefore, OnceAfter DEF OnTheWay
<1> QED BY <1>1, <1>2, <1>3, <1>4, <1>6, <1>7

\* A transaction goes to the end of the buffer.
LEMMA maybeSendTxnsInv ==
    ASSUME HubInv, maybeSendTxns
    PROVE  HubInv'
<1> USE DEF HubInv, maybeSendTxns, connVars
<1> DEFINE T == 1 .. scenario.txs
<1>1. /\ txs \in Nat /\ scenario.txs \in Nat /\ txs + 1 \in T /\ txBuffer \in Seq(T)
      /\ newTxs \in [Conn -> Seq(T)] /\ got \in [Conn -> Seq(T)] /\ Len(txBuffer) \in Nat
      /\ joined \in [Conn -> 0 .. scenario.txs] /\ clients \subseteq Conn
  BY ScenariosAssumption DEF TypeOK
<1>2. pushers' \in [{"reset", "send"} -> 0..scenario.txs] /\ PushersHaveTxs'
  <2>1. /\ pushers \in [{"reset", "send"} -> 0..scenario.txs]
        /\ pushers["reset"] + pushers["send"] <= txs
    BY DEF TypeOK, PushersHaveTxs
  <2>2. pushers' = pushers \/ pushers' = [pushers EXCEPT !["reset"] = @ + 1]
    OBVIOUS
  <2>3. txs' = txs + 1 /\ txs < scenario.txs
    OBVIOUS
  <2> HIDE DEF HubInv, maybeSendTxns
  <2> QED BY <1>1, <2>1, <2>2, <2>3 DEF PushersHaveTxs
<1>3. TypeOK'
  <2>1. txBuffer' \in Seq(T) /\ txs' \in 0..scenario.txs
    BY <1>1
  <2> QED BY <1>2, <2>1 DEF TypeOK
<1>4. ClosedWhenRemoved' /\ FreshUntilRegistered'
  BY DEF ClosedWhenRemoved, FreshUntilRegistered
<1>5. OneSignal'
  BY DEF OneSignal, Positions
<1>6. BufferIsLatest'
  <2> DEFINE j == txs - Len(txBuffer)
  <2>1. j \in Nat /\ j <= txs /\ txBuffer = TxsFrom(j, txs)
    BY <1>1 DEF BufferIsLatest
  <2>2. Len(txBuffer') = Len(txBuffer) + 1 /\ txs' - Len(txBuffer') = j
    BY <1>1
  <2>3. txBuffer' = TxsFrom(j, txs')
    <3>1. txBuffer' = Append(txBuffer, txs + 1) /\ txs' = txs + 1
      OBVIOUS
    <3> HIDE DEF HubInv, maybeSendTxns, T, j
    <3> QED BY <1>1, <2>1, <3>1, OneMore
  <2>4. Len(txBuffer') <= txs' /\ \A c \in Conn : joined[c] <= txs'
    BY <1>1, <2>2 DEF BufferIsLatest
  <2> QED BY <2>2, <2>3, <2>4 DEF BufferIsLatest
<1>7. TxsOnceUnlessReplaced'
  <2> SUFFICES ASSUME NEW c \in clients \ replaced
               PROVE  OnTheWay(c)'
    BY OnceAfter
  <2> DEFINE w == got[c] \o Pending(c)
  <2>1. w \o txBuffer = TxsFrom(joined[c], txs)
    BY OnceBefore DEF OnTheWay
  <2>2. w \in Seq(T)
    <3>1. got[c] \in Seq(T) /\ newTxs[c] \in Seq(T) /\ <<>> \in Seq(T)
      BY <1>1, EmptySeq
    <3>2. Pending(c) \in Seq(T)
      BY <3>1 DEF Pending
    <3> HIDE DEF T
    <3> QED BY <3>1, <3>2
  <2>3. joined[c] \in Nat /\ joined[c] <= txs
    BY <1>1 DEF BufferIsLatest
  <2>4. /\ txBuffer' = Append(txBuffer, txs + 1) /\ txs' = txs + 1 /\ Pending(c)' = Pending(c)
        /\ got' = got /\ joined' = joined
    BY DEF Pending, Unread
  <2> HIDE DEF HubInv, maybeSendTxns, T
  <2>5. w \o Append(txBuffer, txs + 1) = Append(w \o txBuffer, txs + 1) /\ w \o txBuffer \in Seq(T)
    <3> HIDE DEF w
    <3> QED BY <1>1, <2>2, AppendConcat
  <2>6. Append(w \o txBuffer, txs + 1) = TxsFrom(joined[c], txs + 1)
    <3> HIDE DEF w
    <3> QED BY <1>1, <2>1, <2>3, <2>5, OneMore
  <2> QED BY <2>4, <2>5, <2>6 DEF OnTheWay
<1> QED BY <1>2, <1>3, <1>4, <1>5, <1>6, <1>7

\* The buffer becomes the newTxs of every client; one that had not read its own
\* has lost them.
LEMMA SendBufferInv ==
    ASSUME HubInv, SendBuffer
    PROVE  HubInv'
<1> USE DEF SendBuffer
<1> DEFINE T == 1 .. scenario.txs
<1>1. /\ txs \in Nat /\ scenario.txs \in Nat /\ txBuffer \in Seq(T)
      /\ newTxs \in [Conn -> Seq(T)] /\ got \in [Conn -> Seq(T)]
      /\ joined \in [Conn -> 0 .. scenario.txs] /\ clients \subseteq Conn /\ replaced \subseteq Conn
      /\ sendBuffer' \in 0..SignalCap
  <2>1. TypeOK /\ scenario.txs \in Nat
    BY ScenariosAssumption DEF HubInv, TypeOK
  <2>2. sendBuffer \in 0..SignalCap /\ sendBuffer > 0 /\ sendBuffer' = sendBuffer - 1
    BY <2>1 DEF TypeOK
  <2>3. sendBuffer' \in 0..SignalCap
    BY <2>2, CapsArePositive
  <2> QED BY <2>1, <2>3 DEF TypeOK
<1>2. CASE txBuffer = <<>>
  <2> USE <1>2 DEF HubInv
  <2>1. UNCHANGED <<txBuffer, newTxs, replaced, spoke, clients, closed, txs, joined, got, scenario>>
    OBVIOUS
  <2>2. TypeOK'
    BY <1>1 DEF TypeOK
  <2>3. PushersHaveTxs' /\ ClosedWhenRemoved' /\ FreshUntilRegistered' /\ BufferIsLatest'
    BY DEF PushersHaveTxs, ClosedWhenRemoved, FreshUntilRegistered, BufferIsLatest
  <2>4. OneSignal' /\ TxsOnceUnlessReplaced'
    BY <2>1, OnceKept
  <2> QED BY <2>2, <2>3, <2>4
<1>3. CASE txBuffer # <<>>
  <2>1. /\ clients' = clients \ Full /\ clients' \subseteq clients
        /\ clients' \subseteq Conn /\ closed' \subseteq Conn
        /\ spoke' \in [Conn -> Seq({"signal", "newtxs"})] /\ \A c \in Conn : Len(spoke'[c]) <= SpokeCap
        /\ \A c \in clients' : spoke'[c] = Append(spoke[c], "newtxs") /\ spoke[c] \in Seq({"signal", "newtxs"})
        /\ \A c \in Conn \ clients : spoke'[c] = spoke[c]
        /\ ClosedWhenRemoved'
    BY <1>3, SignalFacts
  <2>2. /\ txBuffer' = <<>> /\ txs' = txs /\ scenario' = scenario /\ got' = got /\ joined' = joined
        /\ newTxs' = [c \in Conn |-> IF c \in clients THEN txBuffer ELSE newTxs[c]]
        /\ replaced' = replaced \union {c \in clients : Unread(c)} /\ handler' = handler
    BY <1>3 DEF EmptyBuffer
  <2>3. newTxs' \in [Conn -> Seq(T)] /\ txBuffer' \in Seq(T) /\ replaced' \subseteq Conn
    BY <1>1, <2>2, EmptySeq
  <2>4. TypeOK'
    BY <1>1, <2>1, <2>2, <2>3 DEF HubInv, TypeOK
  <2>5. PushersHaveTxs' /\ FreshUntilRegistered'
    BY <2>1 DEF HubInv, PushersHaveTxs, FreshUntilRegistered, ClosedWhenRemoved
  <2>6. BufferIsLatest'
    <3>1. Len(txBuffer') = 0 /\ txs' - Len(txBuffer') = txs
      BY <1>1, <2>2
    <3>2. TxsFrom(txs, txs) = <<>>
      BY <1>1, NoTxs
    <3> HIDE DEF SendBuffer
    <3> QED BY <1>1, <2>2, <3>1, <3>2 DEF HubInv, BufferIsLatest
  <2>7. ASSUME NEW c \in clients' \ replaced'
        PROVE  OnTheWay(c)' /\ (\A i, j \in Positions(c)' : i = j) /\ handler'[c] # "read"
    <3>1. c \in clients \ replaced /\ "newtxs" \notin Range(spoke[c]) /\ handler[c] # "read" /\ c \in Conn
      BY <2>1, <2>2 DEF Unread
    <3>2. spoke'[c] = Append(spoke[c], "newtxs") /\ spoke[c] \in Seq({"signal", "newtxs"})
      BY <2>1
    <3>3. Range(spoke'[c]) = Range(spoke[c]) \cup {"newtxs"}
      BY <3>2, AppendRange
    <3>4. Pending(c) = <<>> /\ Pending(c)' = txBuffer
      BY <2>2, <3>1, <3>3 DEF Pending, Unread
    <3>5. got[c] \in Seq(T)
      BY <1>1, <3>1
    <3>6. OnTheWay(c)
      BY <3>1, OnceBefore DEF HubInv
    <3>7. OnTheWay(c)'
      <4> HIDE DEF SendBuffer, T
      <4>1. got[c] \o txBuffer \o <<>> = got[c] \o <<>> \o txBuffer
        BY <1>1, <3>5, EmptyBetween
      <4> QED BY <2>2, <3>4, <3>6, <4>1 DEF OnTheWay
    <3>8. /\ Len(spoke'[c]) = Len(spoke[c]) + 1 /\ Len(spoke[c]) \in Nat
          /\ \A i \in 1 .. Len(spoke[c]) : spoke'[c][i] = spoke[c][i]
      BY <3>2
    <3>9. \A i \in 1 .. Len(spoke[c]) : spoke[c][i] # "newtxs"
      BY <3>1, <3>2, LenProperties DEF Range
    <3>10. \A i \in Positions(c)' : i = Len(spoke[c]) + 1
      BY <3>8, <3>9 DEF Positions
    <3> QED BY <2>2, <3>1, <3>7, <3>10
  <2>8. OneSignal' /\ TxsOnceUnlessReplaced'
    BY <2>7, OnceAfter DEF OneSignal
  <2> QED BY <2>1, <2>4, <2>5, <2>6, <2>8 DEF HubInv
<1> QED BY <1>2, <1>3

-----------------------------------------------------------------------------
(* The connections.                                                        *)

\* The steps of a handler that read no signal.
LEMMA HandlerInv ==
    ASSUME HubInv, NEW c \in Conn,
           Connect(c) \/ PeerLeaves(c) \/ TakeUpdate(c) \/ Write(c) \/ Leave(c)
    PROVE  HubInv'
<1> USE DEF HubInv
<1>1. UNCHANGED <<run, clients, quit, txs, txBuffer, sendBuffer, tickerChan, ticker, pushers, panicked,
                  closed, replaced, joined, scenario, spoke, newTxs, got>>
  BY DEF Connect, PeerLeaves, TakeUpdate, Write, Leave, hubVars, txVars
<1>2. /\ handler' \in [Conn -> {"idle", "register", "select", "read", "write", "unregister", "returned"}]
      /\ peer' \in [Conn -> BOOLEAN]
  BY DEF TypeOK, Connect, PeerLeaves, TakeUpdate, Write, Leave
<1>3. xc' \in [Conn -> 0..XcCap]
  <2>1. xc \in [Conn -> 0..XcCap] /\ XcCap \in Nat
    BY CapsArePositive DEF TypeOK
  <2>2. UNCHANGED xc \/ (xc[c] > 0 /\ xc' = [xc EXCEPT ![c] = @ - 1])
    BY DEF Connect, PeerLeaves, TakeUpdate, Write, Leave
  <2> QED BY <2>1, <2>2
<1>4. \A d \in Conn : handler'[d] \in {"idle", "register"} <=> handler[d] \in {"idle", "register"}
  BY DEF TypeOK, Connect, PeerLeaves, TakeUpdate, Write, Leave
<1>5. TypeOK'
  BY <1>1, <1>2, <1>3 DEF TypeOK
<1>6. PushersHaveTxs' /\ BufferIsLatest'
  BY <1>1 DEF PushersHaveTxs, BufferIsLatest
<1>7. ClosedWhenRemoved' /\ FreshUntilRegistered'
  BY <1>1, <1>4 DEF TypeOK, ClosedWhenRemoved, FreshUntilRegistered
<1>8. \A d \in Conn : handler'[d] = "read" <=> handler[d] = "read"
  BY DEF TypeOK, Connect, PeerLeaves, TakeUpdate, Write, Leave
<1>9. OneSignal' /\ TxsOnceUnlessReplaced'
  BY <1>1, <1>8, OnceKept DEF TypeOK
<1> QED BY <1>5, <1>6, <1>7, <1>9

\* The handler takes a signal: the one that says there are transactions is then
\* with the handler, and no other is in the channel.
LEMMA TakeSignalInv ==
    ASSUME HubInv, NEW c \in Conn, TakeSignal(c)
    PROVE  HubInv'
<1> USE DEF TakeSignal, hubVars, txVars
<1> DEFINE M == {"signal", "newtxs"}
<1>1. /\ spoke \in [Conn -> Seq(M)] /\ \A d \in Conn : Len(spoke[d]) <= SpokeCap
      /\ handler \in [Conn -> {"idle", "register", "select", "read", "write", "unregister", "returned"}]
      /\ clients \subseteq Conn /\ SpokeCap \in Nat
  BY CapsArePositive DEF HubInv, TypeOK
<1>2. /\ spoke[c] \in Seq(M) /\ spoke[c] # <<>> /\ spoke'[c] = Tail(spoke[c])
      /\ \A d \in Conn : d # c => spoke'[d] = spoke[d] /\ handler'[d] = handler[d]
      /\ handler[c] = "select" /\ handler'[c] = IF Head(spoke[c]) = "newtxs" THEN "read" ELSE "write"
  BY <1>1
<1>3. /\ Tail(spoke[c]) \in Seq(M) /\ Len(spoke[c]) \in Nat /\ Len(spoke[c]) = Len(spoke'[c]) + 1
      /\ Len(spoke'[c]) \in Nat /\ Head(spoke[c]) = spoke[c][1]
      /\ \A i \in 1 .. Len(spoke'[c]) : spoke'[c][i] = spoke[c][i + 1]
  <2> DEFINE s == spoke[c]
  <2>1. s \in Seq(M) /\ s # <<>> /\ spoke'[c] = Tail(s)
    BY <1>2
  <2> HIDE DEF s, TakeSignal, M
  <2>2. /\ Tail(s) \in Seq(M) /\ Len(Tail(s)) = Len(s) - 1 /\ Len(s) \in Nat \ {0}
        /\ \A i \in 1 .. Len(Tail(s)) : Tail(s)[i] = s[i + 1]
    BY <2>1, HeadTailProperties, EmptySeq
  <2>3. Head(s) = s[1]
    BY <2>1
  <2> QED BY <2>1, <2>2, <2>3 DEF s
<1>4. TypeOK'
  <2>1. spoke' \in [Conn -> Seq(M)] /\ \A d \in Conn : Len(spoke'[d]) <= SpokeCap
    BY <1>1, <1>2, <1>3
  <2>2. handler' \in [Conn -> {"idle", "register", "select", "read", "write", "unregister", "returned"}]
    BY <1>1
  <2> QED BY <2>1, <2>2 DEF HubInv, TypeOK
<1>5. PushersHaveTxs' /\ BufferIsLatest'
  BY DEF HubInv, PushersHaveTxs, BufferIsLatest
<1>6. ClosedWhenRemoved' /\ FreshUntilRegistered'
  BY <1>1, <1>2 DEF HubInv, ClosedWhenRemoved, FreshUntilRegistered
<1>7. ASSUME NEW i \in Positions(c)'
      PROVE  i + 1 \in Positions(c) /\ i \in Nat \ {0}
  BY <1>3 DEF Positions
<1>8. ASSUME c \in clients \ replaced, Head(spoke[c]) = "newtxs"
      PROVE  Positions(c)' = {}
  <2>1. 1 \in Positions(c)
    BY <1>2, <1>3, <1>8 DEF Positions
  <2>2. \A i, j \in Positions(c) : i = j
    BY <1>8 DEF HubInv, OneSignal
  <2> HIDE DEF TakeSignal
  <2>3. ASSUME NEW i \in Positions(c)'
        PROVE  FALSE
    <3>1. i + 1 \in Positions(c) /\ i \in Nat \ {0}
      BY <1>7
    <3> QED BY <2>1, <2>2, <3>1
  <2> QED BY <2>3
<1>9. OneSignal'
  <2>1. \A d \in clients : d # c => Positions(d)' = Positions(d)
    BY <1>1, <1>2 DEF Positions
  <2>2. c \in clients \ replaced => \A i, j \in Positions(c)' : i = j
    BY <1>7 DEF HubInv, OneSignal
  <2>3. c \in clients \ replaced => (handler'[c] = "read" => Positions(c)' = {})
    BY <1>2, <1>8
  <2> QED BY <1>1, <1>2, <2>1, <2>2, <2>3 DEF HubInv, OneSignal
<1>10. TxsOnceUnlessReplaced'
  <2> SUFFICES ASSUME NEW d \in clients \ replaced
               PROVE  Pending(d)' = Pending(d)
    BY OnceBefore, OnceAfter DEF HubInv, OnTheWay
  <2>1. CASE d # c
    BY <1>1, <1>2, <2>1 DEF Pending, Unread
  <2>2. CASE d = c
    <3>1. Range(spoke[c]) = Range(spoke'[c]) \cup {Head(spoke[c])}
      BY <1>2, TailRange
    <3> QED BY <1>2, <2>2, <3>1 DEF Pending, Unread
  <2> QED BY <2>1, <2>2
<1> QED BY <1>4, <1>5, <1>6, <1>9, <1>10 DEF HubInv

\* The handler reads what is pending.
LEMMA ReadTxsInv ==
    ASSUME HubInv, NEW c \in Conn, ReadTxs(c)
    PROVE  HubInv'
<1> USE DEF ReadTxs, hubVars, txVars
<1> DEFINE T == 1 .. scenario.txs
           M == {"signal", "newtxs"}
<1>1. /\ newTxs \in [Conn -> Seq(T)] /\ got \in [Conn -> Seq(T)] /\ txBuffer \in Seq(T)
      /\ handler \in [Conn -> {"idle", "register", "select", "read", "write", "unregister", "returned"}]
      /\ clients \subseteq Conn /\ spoke \in [Conn -> Seq(M)]
  BY DEF HubInv, TypeOK
<1>2. /\ handler[c] = "read" /\ handler'[c] = "write" /\ got'[c] = got[c] \o newTxs[c]
      /\ \A d \in Conn : d # c => got'[d] = got[d] /\ handler'[d] = handler[d]
      /\ UNCHANGED <<spoke, newTxs, clients, replaced, txBuffer, txs, joined>>
  BY <1>1
<1>3. got[c] \in Seq(T) /\ newTxs[c] \in Seq(T) /\ got[c] \o newTxs[c] \in Seq(T)
  <2>1. got[c] \in Seq(T) /\ newTxs[c] \in Seq(T)
    BY <1>1
  <2> HIDE DEF T, ReadTxs
  <2> QED BY <2>1
<1>4. TypeOK'
  <2>1. got' \in [Conn -> Seq(T)]
    <3> HIDE DEF T
    <3> QED BY <1>1, <1>3
  <2>2. handler' \in [Conn -> {"idle", "register", "select", "read", "write", "unregister", "returned"}]
    BY <1>1
  <2> QED BY <2>1, <2>2 DEF HubInv, TypeOK
<1>5. PushersHaveTxs' /\ BufferIsLatest'
  BY DEF HubInv, PushersHaveTxs, BufferIsLatest
<1>6. ClosedWhenRemoved' /\ FreshUntilRegistered'
  BY <1>1, <1>2 DEF HubInv, ClosedWhenRemoved, FreshUntilRegistered
<1>7. \A d \in Conn : Positions(d)' = Positions(d)
  BY <1>2 DEF Positions
<1>8. OneSignal'
  BY <1>1, <1>2, <1>7 DEF HubInv, OneSignal
<1>9. TxsOnceUnlessReplaced'
  <2> SUFFICES ASSUME NEW d \in clients \ replaced
               PROVE  OnTheWay(d)'
    BY <1>2, OnceAfter
  <2>1. OnTheWay(d)
    BY OnceBefore DEF HubInv
  <2>2. CASE d # c
    <3>1. Pending(d)' = Pending(d) /\ got'[d] = got[d]
      BY <1>1, <1>2, <2>2 DEF Pending, Unread
    <3> QED BY <1>2, <2>1, <3>1 DEF OnTheWay
  <2>3. CASE d = c
    <3>1. Positions(c) = {}
      BY <1>2, <2>3 DEF HubInv, OneSignal
    <3>2. "newtxs" \notin Range(spoke[c])
      BY <1>1, <3>1, LenProperties DEF Range, Positions
    <3>3. Pending(d) = newTxs[d] /\ Pending(d)' = <<>> /\ got'[d] = got[d] \o newTxs[d]
      BY <1>2, <2>3, <3>2 DEF Pending, Unread
    <3> HIDE DEF ReadTxs, T
    <3>4. got[d] \o newTxs[d] \o <<>> \o txBuffer = got[d] \o newTxs[d] \o txBuffer
      BY <1>1, <1>3, <2>3, EmptyBetween
    <3> QED BY <1>2, <2>1, <3>3, <3>4 DEF OnTheWay
  <2> QED BY <2>2, <2>3
<1> QED BY <1>4, <1>5, <1>6, <1>8, <1>9 DEF HubInv

-----------------------------------------------------------------------------
\* Every step preserves the invariant.
LEMMA NextInv == HubInv /\ [Next]_vars => HubInv'
<1> SUFFICES ASSUME HubInv, [Next]_vars
             PROVE  HubInv'
  OBVIOUS
<1>1. CASE \/ ExchangeUpdate \/ UpdateDone \/ Quit \/ Stop
           \/ Tick \/ TickSends \/ TickerReceives \/ PushReset \/ PushSend
  BY <1>1, TickerInv
<1>2. ASSUME NEW c \in Conn, SendUpdate(c)
      PROVE  HubInv'
  BY <1>2, SendUpdateInv
<1>3. ASSUME NEW c \in Conn, registerClient(c)
      PROVE  HubInv'
  BY <1>3, registerClientInv
<1>4. ASSUME NEW c \in Conn, Unregister(c)
      PROVE  HubInv'
  BY <1>4, UnregisterInv
<1>5. CASE RunEnds
  BY <1>5, RunEndsInv
<1>6. CASE RelaySignal
  BY <1>6, RelaySignalInv
<1>7. CASE maybeSendTxns
  BY <1>7, maybeSendTxnsInv
<1>8. CASE SendBuffer
  BY <1>8, SendBufferInv
<1>9. ASSUME NEW c \in Conn,
             Connect(c) \/ PeerLeaves(c) \/ TakeUpdate(c) \/ Write(c) \/ Leave(c)
      PROVE  HubInv'
  BY <1>9, HandlerInv
<1>10. ASSUME NEW c \in Conn, TakeSignal(c)
       PROVE  HubInv'
  BY <1>10, TakeSignalInv
<1>11. ASSUME NEW c \in Conn, ReadTxs(c)
       PROVE  HubInv'
  BY <1>11, ReadTxsInv
<1>12. CASE UNCHANGED vars
  <2> USE <1>12 DEF vars, txVars, connVars, HubInv
  <2>1. TypeOK'
    BY DEF TypeOK
  <2>2. PushersHaveTxs' /\ ClosedWhenRemoved' /\ FreshUntilRegistered' /\ BufferIsLatest'
    BY DEF PushersHaveTxs, ClosedWhenRemoved, FreshUntilRegistered, BufferIsLatest
  <2>3. OneSignal' /\ TxsOnceUnlessReplaced'
    BY OnceKept
  <2> QED BY <2>1, <2>2, <2>3
<1> QED BY <1>1, <1>2, <1>3, <1>4, <1>5, <1>6, <1>7, <1>8, <1>9, <1>10, <1>11, <1>12
        DEF Next, RunLoop, TxLoops, ConnLoop

\* The induction.
LEMMA Invariance == Spec => []HubInv
BY InitInv, NextInv, PTL DEF Spec

-----------------------------------------------------------------------------
(* The theorems.                                                           *)

\* Type correctness: in particular no channel ever holds more than it has room
\* for, and there are never more goroutines of maybeSendTxns than transactions.
THEOREM TypeCorrect == Spec => []TypeOK
<1>1. HubInv => TypeOK
  BY DEF HubInv
<1> QED BY Invariance, <1>1, PTL

\* The event loop never sends on, or closes again, a channel it has closed,
\* whether a client leaves, is too slow or the hub stops.
THEOREM NeverSendsOnClosedSpoke == Spec => []NoSendOnClosedSpoke
<1>1. HubInv => NoSendOnClosedSpoke
  BY DEF HubInv, NoSendOnClosedSpoke, ClosedWhenRemoved
<1> QED BY Invariance, <1>1, PTL

\* A registered client reads every transaction once and in order, unless the
\* buffer was handed out again before it had read its newTxs.
THEOREM ClientsGetTxsOnce == Spec => []TxsOnceUnlessReplaced
<1>1. HubInv => TxsOnceUnlessReplaced
  BY DEF HubInv
<1> QED BY Invariance, <1>1, PTL
=============================================================================
