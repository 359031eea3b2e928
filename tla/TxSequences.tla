----------------------------- MODULE TxSequences ----------------------------
(***************************************************************************)
(* Lemmas about the lists of transactions that the two websocket hubs hand *)
(* to their clients: transactions are numbered in the order in which they  *)
(* reach the hub.                                                          *)
(***************************************************************************)
EXTENDS Integers, Sequences, SequenceTheorems, TLAPS

\* The transactions a client that joined after the first j is to have, out of n.
TxsFrom(j, n) == [i \in 1 .. (n - j) |-> j + i]

\* There are none before the first.
LEMMA NoTxs ==
    ASSUME NEW j \in Nat
    PROVE  TxsFrom(j, j) = <<>>
<1>1. 1 .. (j - j) = {}
  OBVIOUS
<1> QED BY <1>1 DEF TxsFrom

\* A list that is as long as an interval ends where it ends.
LEMMA SameInterval ==
    ASSUME NEW m \in Nat, NEW k \in Nat, 1 .. m = 1 .. k
    PROVE  m = k
<1>1. m = 0 \/ m \in 1 .. k
  OBVIOUS
<1>2. k = 0 \/ k \in 1 .. m
  OBVIOUS
<1> QED BY <1>1, <1>2

\* Appending to the list in the hub appends to all that is on the way.
LEMMA AppendConcat ==
    ASSUME NEW T, NEW a \in Seq(T), NEW b \in Seq(T), NEW x \in T
    PROVE  a \o Append(b, x) = Append(a \o b, x) /\ a \o b \in Seq(T)
OBVIOUS

\* One more transaction at the end.
LEMMA OneMore ==
    ASSUME NEW j \in Nat, NEW n \in Nat, j <= n, NEW T, n + 1 \in T,
           NEW s \in Seq(T), s = TxsFrom(j, n)
    PROVE  Append(s, n + 1) = TxsFrom(j, n + 1)
<1> DEFINE u == Append(s, n + 1)
<1>1. Len(s) = n - j /\ \A i \in 1 .. (n - j) : s[i] = j + i
  <2>1. DOMAIN s = 1 .. Len(s) /\ Len(s) \in Nat
    BY LenProperties
  <2>2. DOMAIN s = 1 .. (n - j) /\ n - j \in Nat
    BY DEF TxsFrom
  <2>3. Len(s) = n - j
    BY <2>1, <2>2, SameInterval
  <2> QED BY <2>3 DEF TxsFrom
<1>2. u \in Seq(T) /\ Len(u) = n + 1 - j /\ \A i \in 1 .. (n + 1 - j) : u[i] = j + i
  <2>1. u \in Seq(T) /\ Len(u) = Len(s) + 1 /\ \A i \in 1 .. Len(s) : u[i] = s[i]
    BY AppendProperties
  <2>2. u[Len(s) + 1] = n + 1
    BY AppendProperties
  <2> HIDE DEF u
  <2>3. ASSUME NEW i \in 1 .. (n + 1 - j)
        PROVE  u[i] = j + i
    <3>1. CASE i = n + 1 - j
      BY <1>1, <2>2, <3>1
    <3>2. CASE i \in 1 .. (n - j)
      BY <1>1, <2>1, <3>2
    <3> QED BY <3>1, <3>2
  <2> QED BY <1>1, <2>1, <2>3
<1> HIDE DEF u
<1>3. u \in [1 .. (n + 1 - j) -> T]
  BY <1>2, LenProperties
<1>4. u = TxsFrom(j, n + 1)
  BY <1>2, <1>3 DEF TxsFrom
<1> QED BY <1>4 DEF u

\* Putting empty lists in between changes nothing.
LEMMA EmptyBetween ==
    ASSUME NEW T, NEW a \in Seq(T), NEW b \in Seq(T)
    PROVE  /\ a \o <<>> \o b = a \o b /\ a \o b \o <<>> = a \o b
           /\ a \o b \in Seq(T)
OBVIOUS

\* Whether a signal waits in a channel, when one is added at its end.
LEMMA AppendRange ==
    ASSUME NEW T, NEW s \in Seq(T), NEW x \in T
    PROVE  Range(Append(s, x)) = Range(s) \cup {x}
<1> DEFINE u == Append(s, x)
<1>1. /\ u \in Seq(T) /\ Len(u) = Len(s) + 1 /\ u[Len(s) + 1] = x
      /\ \A i \in 1 .. Len(s) : u[i] = s[i]
  BY AppendProperties
<1>2. DOMAIN u = 1 .. (Len(s) + 1) /\ DOMAIN s = 1 .. Len(s) /\ Len(s) \in Nat
  BY <1>1, LenProperties
<1> HIDE DEF u
<1>3. \A i \in 1 .. (Len(s) + 1) : i \in 1 .. Len(s) \/ i = Len(s) + 1
  BY <1>2
<1>4. 1 .. Len(s) \subseteq 1 .. (Len(s) + 1) /\ Len(s) + 1 \in 1 .. (Len(s) + 1)
  BY <1>2
<1>5. Range(u) = Range(s) \cup {x}
  BY <1>1, <1>2, <1>3, <1>4 DEF Range
<1> QED BY <1>5 DEF u

\* The same, when the one at its head is taken.
LEMMA TailRange ==
    ASSUME NEW T, NEW s \in Seq(T), s # <<>>
    PROVE  Range(s) = Range(Tail(s)) \cup {Head(s)}
<1> DEFINE u == Tail(s)
<1>1. /\ u \in Seq(T) /\ Len(u) = Len(s) - 1 /\ Head(s) = s[1] /\ Len(s) \in Nat \ {0}
      /\ \A i \in 1 .. Len(u) : u[i] = s[i + 1]
  BY HeadTailProperties, EmptySeq
<1>2. DOMAIN u = 1 .. Len(u) /\ DOMAIN s = 1 .. Len(s)
  BY <1>1, LenProperties
<1> HIDE DEF u
<1>3. \A i \in 1 .. Len(u) : i + 1 \in 1 .. Len(s)
  BY <1>1
<1>4. \A i \in 1 .. Len(s) : i = 1 \/ (i - 1 \in 1 .. Len(u) /\ u[i - 1] = s[i])
  BY <1>1
<1>5. 1 \in 1 .. Len(s)
  BY <1>1
<1>6. Range(s) = Range(u) \cup {s[1]}
  <2>1. ASSUME NEW i \in 1 .. Len(s)
        PROVE  s[i] \in Range(u) \cup {s[1]}
    BY <1>2, <1>4 DEF Range
  <2>2. ASSUME NEW i \in 1 .. Len(u)
        PROVE  u[i] \in Range(s)
    BY <1>1, <1>2, <1>3 DEF Range
  <2>3. s[1] \in Range(s)
    BY <1>2, <1>5 DEF Range
  <2>4. Range(s) \subseteq Range(u) \cup {s[1]}
    BY <1>2, <2>1 DEF Range
  <2>5. Range(u) \subseteq Range(s)
    BY <1>2, <2>2 DEF Range
  <2> QED BY <2>3, <2>4, <2>5
<1> QED BY <1>1, <1>6 DEF u
=============================================================================
