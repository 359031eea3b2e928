--------------------------- MODULE BlockTreeProofs --------------------------
(***************************************************************************)
(* Lemmas about BlockTree, for any tree of blocks: chains, heights, the    *)
(* look-ups by height, and the common ancestor of two blocks.              *)
(***************************************************************************)
EXTENDS BlockTree, SequenceTheorems, WellFoundedInduction, TLAPS

\* s leads from genesis to b, parent by parent.
IsChain(s, b) ==
    /\ s \in Seq(Block) /\ s # <<>> /\ s[1] = Genesis /\ s[Len(s)] = b
    /\ \A i \in 2 .. Len(s) : s[i] # Genesis /\ s[i - 1] = Parent[s[i]]

\* Genesis is a chain, and a chain with a child of its last block is one.
LEMMA ChainStep ==
    /\ IsChain(<<Genesis>>, Genesis)
    /\ \A b \in Block \ {Genesis}, s \in Seq(Block) : IsChain(s, Parent[b]) => IsChain(Append(s, b), b)
<1>1. IsChain(<<Genesis>>, Genesis)
  BY GenesisAssumption DEF IsChain
<1>2. ASSUME NEW b \in Block \ {Genesis}, NEW s \in Seq(Block), IsChain(s, Parent[b])
      PROVE  IsChain(Append(s, b), b)
  <2> DEFINE u == Append(s, b)
  <2>1. /\ u \in Seq(Block) /\ u # <<>> /\ Len(u) = Len(s) + 1 /\ Len(s) \in Nat \ {0}
        /\ u[Len(s) + 1] = b /\ \A i \in 1 .. Len(s) : u[i] = s[i]
    BY <1>2, AppendProperties, EmptySeq DEF IsChain
  <2> HIDE DEF u
  <2>2. ASSUME NEW i \in 2 .. Len(u)
        PROVE  u[i] # Genesis /\ u[i - 1] = Parent[u[i]]
    <3>1. CASE i = Len(s) + 1
      BY <1>2, <2>1, <3>1 DEF IsChain
    <3>2. CASE i \in 2 .. Len(s)
      BY <1>2, <2>1, <3>2 DEF IsChain
    <3> QED BY <2>1, <3>1, <3>2
  <2>3. u[1] = Genesis /\ u[Len(u)] = b
    BY <1>2, <2>1 DEF IsChain
  <2>4. IsChain(u, b)
    BY <2>1, <2>2, <2>3 DEF IsChain
  <2> QED BY <2>4 DEF u
<1> QED BY <1>1, <1>2

\* The part of a chain up to a block is the chain of that block.
LEMMA ChainPrefix ==
    ASSUME NEW b, NEW s \in Seq(Block), IsChain(s, b), NEW n \in 1 .. Len(s)
    PROVE  IsChain(SubSeq(s, 1, n), s[n]) /\ Len(SubSeq(s, 1, n)) = n
<1> DEFINE u == SubSeq(s, 1, n)
<1>1. u \in Seq(Block) /\ Len(u) = n /\ \A i \in 1 .. n : u[i] = s[i]
  OBVIOUS
<1>2. Len(s) \in Nat /\ n \in Nat \ {0} /\ u # <<>>
  BY <1>1
<1> HIDE DEF u
<1>3. u[1] = Genesis /\ u[Len(u)] = s[n]
  BY <1>1, <1>2 DEF IsChain
<1>4. ASSUME NEW i \in 2 .. Len(u)
      PROVE  u[i] # Genesis /\ u[i - 1] = Parent[u[i]]
  <2>1. i \in 2 .. Len(s) /\ i \in 1 .. n /\ i - 1 \in 1 .. n
    BY <1>1, <1>2
  <2>2. u[i] = s[i] /\ u[i - 1] = s[i - 1]
    BY <1>1, <2>1
  <2> QED BY <2>1, <2>2 DEF IsChain
<1>5. IsChain(u, s[n])
  BY <1>1, <1>2, <1>3, <1>4 DEF IsChain
<1> QED BY <1>1, <1>5 DEF u

\* Every block has a chain.
LEMMA ChainExists == \A b \in Block : \E s \in Seq(Block) : IsChain(s, b)
<1> DEFINE S == {b \in Block : ~ \E s \in Seq(Block) : IsChain(s, b)}
<1> SUFFICES ASSUME S # {}
             PROVE  FALSE
  OBVIOUS
<1>1. PICK b \in S : b = Genesis \/ Parent[b] \notin S
  BY TreeAssumption
<1>2. CASE b = Genesis
  <2>1. <<Genesis>> \in Seq(Block)
    BY GenesisAssumption
  <2> QED BY <1>2, <2>1, ChainStep
<1>3. CASE b # Genesis /\ Parent[b] \notin S
  <2>1. Parent[b] \in Block
    BY <1>3, ParentAssumption
  <2>2. PICK s \in Seq(Block) : IsChain(s, Parent[b])
    BY <1>3, <2>1
  <2>3. Append(s, b) \in Seq(Block) /\ IsChain(Append(s, b), b)
    BY <1>3, <2>2, ChainStep
  <2> QED BY <2>3
<1> QED BY <1>1, <1>2, <1>3

\* A chain of a block other than genesis ends with its parent and itself.
LEMMA ChainEnd ==
    ASSUME NEW b \in Block \ {Genesis}, NEW s \in Seq(Block), IsChain(s, b)
    PROVE  \E u \in Seq(Block) : IsChain(u, Parent[b]) /\ s = Append(u, b)
<1> DEFINE n == Len(s) - 1
           u == SubSeq(s, 1, n)
<1>1. Len(s) \in Nat /\ Len(s) > 1 /\ n \in 1 .. Len(s)
  BY EmptySeq DEF IsChain
<1>2. s[n] = Parent[b]
  BY <1>1 DEF IsChain
<1>3. u \in Seq(Block) /\ IsChain(u, Parent[b]) /\ Len(u) = n
  BY <1>1, <1>2, ChainPrefix
<1>4. s = Append(u, b)
  <2>1. \A i \in 1 .. n : u[i] = s[i]
    BY <1>1
  <2> HIDE DEF u
  <2>2. /\ Append(u, b) \in Seq(Block) /\ Len(Append(u, b)) = Len(s)
        /\ \A i \in 1 .. n : Append(u, b)[i] = u[i] /\ Append(u, b)[n + 1] = b
    BY <1>1, <1>3, AppendProperties
  <2>3. \A i \in 1 .. Len(s) : i \in 1 .. n \/ i = n + 1
    BY <1>1
  <2>4. \A i \in 1 .. Len(s) : Append(u, b)[i] = s[i]
    BY <1>1, <2>1, <2>2, <2>3 DEF IsChain
  <2> QED BY <2>2, <2>4, SeqEqual
<1> QED BY <1>3, <1>4

\* A block has one chain.
LEMMA ChainUnique ==
    \A b \in Block : \A s, t \in Seq(Block) : IsChain(s, b) /\ IsChain(t, b) => s = t
<1> DEFINE S == {b \in Block : \E s, t \in Seq(Block) : IsChain(s, b) /\ IsChain(t, b) /\ s # t}
<1> SUFFICES ASSUME S # {}
             PROVE  FALSE
  OBVIOUS
<1>1. PICK b \in S : b = Genesis \/ Parent[b] \notin S
  BY TreeAssumption
<1>2. PICK s, t \in Seq(Block) : IsChain(s, b) /\ IsChain(t, b) /\ s # t
  OBVIOUS
<1>3. CASE b = Genesis
  <2>1. ASSUME NEW u \in Seq(Block), IsChain(u, b)
        PROVE  u = <<Genesis>>
    <3>1. Len(u) \in Nat /\ Len(u) # 0
      BY <2>1, EmptySeq DEF IsChain
    <3>2. Len(u) = 1
      <4> SUFFICES ASSUME Len(u) # 1
                   PROVE  FALSE
        OBVIOUS
      <4>1. \A k \in Nat : k # 0 /\ k # 1 => k \in 2 .. k
        OBVIOUS
      <4>2. Len(u) \in 2 .. Len(u)
        BY <3>1, <4>1
      <4> QED BY <1>3, <2>1, <4>2 DEF IsChain
    <3> QED BY <2>1, <3>2 DEF IsChain
  <2> QED BY <1>2, <2>1
<1>4. CASE b # Genesis /\ Parent[b] \notin S
  <2>1. Parent[b] \in Block
    BY <1>4, ParentAssumption
  <2>2. PICK u \in Seq(Block) : IsChain(u, Parent[b]) /\ s = Append(u, b)
    BY <1>2, <1>4, ChainEnd
  <2>3. PICK v \in Seq(Block) : IsChain(v, Parent[b]) /\ t = Append(v, b)
    BY <1>2, <1>4, ChainEnd
  <2> QED BY <1>2, <1>4, <2>1, <2>2, <2>3
<1> QED BY <1>1, <1>3, <1>4

\* The recursive definition of ChainTo defines these chains.
LEMMA ChainEquation ==
    /\ Chain \in [Block -> Seq(Block)]
    /\ Chain[Genesis] = <<Genesis>>
    /\ \A b \in Block \ {Genesis} : Chain[b] = Append(Chain[Parent[b]], b)
    /\ \A b \in Block : IsChain(Chain[b], b)
<1> DEFINE F == [b \in Block |-> CHOOSE s \in Seq(Block) : IsChain(s, b)]
           Eqn(f) == f = [b \in Block |-> IF b = Genesis THEN <<b>> ELSE Append(f[Parent[b]], b)]
<1>1. \A b \in Block : F[b] \in Seq(Block) /\ IsChain(F[b], b)
  BY ChainExists
<1>7. F \in [Block -> Seq(Block)]
  BY ChainExists
<1> HIDE DEF F
<1>2. \A b \in Block : F[b] = IF b = Genesis THEN <<b>> ELSE Append(F[Parent[b]], b)
  <2> SUFFICES ASSUME NEW b \in Block
               PROVE  F[b] = IF b = Genesis THEN <<b>> ELSE Append(F[Parent[b]], b)
    OBVIOUS
  <2>1. CASE b = Genesis
    <3>1. <<Genesis>> \in Seq(Block) /\ IsChain(<<Genesis>>, b)
      BY <2>1, GenesisAssumption, ChainStep
    <3> QED BY <1>1, <2>1, <3>1, ChainUnique
  <2>2. CASE b # Genesis
    <3>1. Parent[b] \in Block
      BY <2>2, ParentAssumption
    <3>2. F[Parent[b]] \in Seq(Block) /\ IsChain(F[Parent[b]], Parent[b])
      BY <1>1, <3>1
    <3>3. Append(F[Parent[b]], b) \in Seq(Block) /\ IsChain(Append(F[Parent[b]], b), b)
      BY <2>2, <3>2, ChainStep
    <3> QED BY <1>1, <2>2, <3>3, ChainUnique
  <2> QED BY <2>1, <2>2
<1>3. Eqn(F)
  <2> DEFINE G == [b \in Block |-> IF b = Genesis THEN <<b>> ELSE Append(F[Parent[b]], b)]
  <2>1. [b \in Block |-> F[b]] = G
    BY <1>2
  <2>2. F = [b \in Block |-> F[b]]
    BY <1>7
  <2> QED BY <2>1, <2>2
<1>4. Eqn(ChainTo)
  <2>1. ChainTo = CHOOSE f : Eqn(f)
    BY DEF ChainTo
  <2> HIDE DEF Eqn
  <2> QED BY <1>3, <2>1
<1>5. /\ \A b \in Block : Chain[b] = IF b = Genesis THEN <<b>> ELSE Append(Chain[Parent[b]], b)
      /\ Chain = [b \in Block |-> Chain[b]]
  BY <1>4, ParentAssumption DEF Chain
<1>6. \A b \in Block : Chain[b] \in Seq(Block) /\ IsChain(Chain[b], b)
  <2> DEFINE S == {b \in Block : ~(Chain[b] \in Seq(Block) /\ IsChain(Chain[b], b))}
  <2> SUFFICES ASSUME S # {}
               PROVE  FALSE
    OBVIOUS
  <2>1. PICK b \in S : b = Genesis \/ Parent[b] \notin S
    BY TreeAssumption
  <2>2. CASE b = Genesis
    <3>1. Chain[b] = <<Genesis>>
      BY <1>5, <2>2
    <3>2. <<Genesis>> \in Seq(Block)
      BY GenesisAssumption
    <3> QED BY <2>2, <3>1, <3>2, ChainStep
  <2>3. CASE b # Genesis /\ Parent[b] \notin S
    <3>1. Parent[b] \in Block /\ Chain[b] = Append(Chain[Parent[b]], b)
      BY <1>5, <2>3, ParentAssumption
    <3>2. Chain[Parent[b]] \in Seq(Block) /\ IsChain(Chain[Parent[b]], Parent[b])
      BY <2>3, <3>1
    <3>3. Append(Chain[Parent[b]], b) \in Seq(Block) /\ IsChain(Append(Chain[Parent[b]], b), b)
      BY <2>3, <3>2, ChainStep
    <3> QED BY <3>1, <3>3
  <2> QED BY <2>1, <2>2, <2>3
<1> QED BY <1>5, <1>6, GenesisAssumption
-----------------------------------------------------------------------------
(* Heights and look-ups by height.                                         *)

\* Heights count the blocks below a block.
LEMMA HeightFacts ==
    /\ \A b \in Block : Height(b) \in Nat /\ Len(Chain[b]) = Height(b) + 1
    /\ Height(Genesis) = 0
    /\ \A b \in Block \ {Genesis} :
          Parent[b] \in Block /\ Height(b) = Height(Parent[b]) + 1 /\ Height(b) > 0
<1>1. ASSUME NEW b \in Block
      PROVE  Height(b) \in Nat /\ Len(Chain[b]) = Height(b) + 1
  <2>1. Chain[b] \in Seq(Block) /\ Chain[b] # <<>>
    BY ChainEquation DEF IsChain
  <2>2. Len(Chain[b]) \in Nat /\ Len(Chain[b]) # 0
    BY <2>1, EmptySeq, LenProperties
  <2> QED BY <2>2 DEF Height
<1>2. Height(Genesis) = 0
  <2>1. Chain[Genesis] = <<Genesis>>
    BY ChainEquation
  <2> QED BY <2>1 DEF Height
<1>3. ASSUME NEW b \in Block \ {Genesis}
      PROVE  Parent[b] \in Block /\ Height(b) = Height(Parent[b]) + 1 /\ Height(b) > 0
  <2>1. Parent[b] \in Block
    BY ParentAssumption
  <2>2. Chain[Parent[b]] \in Seq(Block) /\ Chain[b] = Append(Chain[Parent[b]], b)
    BY <2>1, ChainEquation
  <2>3. Len(Chain[b]) = Len(Chain[Parent[b]]) + 1
    BY <2>2, AppendProperties
  <2>4. Height(Parent[b]) \in Nat
    BY <1>1, <2>1
  <2> QED BY <2>1, <2>3, <2>4, <1>1 DEF Height
<1> QED BY <1>1, <1>2, <1>3

\* The block at a height is a block of that height, and its chain is the lower part.
LEMMA BlockAtFacts ==
    ASSUME NEW b \in Block, NEW h \in 0 .. Height(b)
    PROVE  /\ BlockAt(b, h) \in Block
           /\ Height(BlockAt(b, h)) = h
           /\ \A k \in 0 .. h : BlockAt(BlockAt(b, h), k) = BlockAt(b, k)
<1> DEFINE s == Chain[b]
           a == s[h + 1]
           u == SubSeq(s, 1, h + 1)
<1>1. s \in Seq(Block) /\ IsChain(s, b)
  BY ChainEquation
<1>2. Height(b) \in Nat /\ Len(s) = Height(b) + 1
  BY HeightFacts
<1>3. h + 1 \in 1 .. Len(s) /\ h \in Nat
  BY <1>2
<1>4. a \in Block
  BY <1>1, <1>3
<1>5. u \in Seq(Block) /\ IsChain(u, a) /\ Len(u) = h + 1 /\ \A i \in 1 .. h + 1 : u[i] = s[i]
  BY <1>1, <1>2, <1>3, ChainPrefix
<1>6. Chain[a] = u
  BY <1>4, <1>5, ChainUnique, ChainEquation
<1> HIDE DEF s, u
<1>7. Height(a) = h
  BY <1>3, <1>5, <1>6 DEF Height
<1>8. \A k \in 0 .. h : Chain[a][k + 1] = s[k + 1]
  BY <1>3, <1>5, <1>6
<1> QED BY <1>4, <1>7, <1>8 DEF BlockAt, s

\* The last block of a chain, and the ones below it.
LEMMA BlockAtTop ==
    ASSUME NEW b \in Block
    PROVE  /\ BlockAt(b, Height(b)) = b
           /\ b # Genesis => \A h \in 0 .. Height(b) - 1 : BlockAt(b, h) = BlockAt(Parent[b], h)
<1>1. Chain[b] \in Seq(Block) /\ IsChain(Chain[b], b) /\ Len(Chain[b]) = Height(b) + 1
  BY ChainEquation, HeightFacts
<1>2. BlockAt(b, Height(b)) = b
  BY <1>1 DEF IsChain, BlockAt
<1>3. ASSUME b # Genesis, NEW h \in 0 .. Height(b) - 1
      PROVE  BlockAt(b, h) = BlockAt(Parent[b], h)
  <2>1. Parent[b] \in Block /\ Height(b) = Height(Parent[b]) + 1 /\ Height(Parent[b]) \in Nat
    BY <1>3, HeightFacts
  <2>2. Chain[Parent[b]] \in Seq(Block) /\ Chain[b] = Append(Chain[Parent[b]], b)
    BY <1>3, <2>1, ChainEquation
  <2>3. h + 1 \in 1 .. Len(Chain[Parent[b]])
    BY <2>1, HeightFacts
  <2> QED BY <2>2, <2>3, AppendProperties DEF BlockAt
<1> QED BY <1>2, <1>3

\* BlocksOf(b) are the blocks on the chain of b.
LEMMA BlocksOfFacts ==
    \A b \in Block : BlocksOf(b) = {a \in Block : OnChain(a, b)}
<1> SUFFICES ASSUME NEW b \in Block
             PROVE  BlocksOf(b) = {a \in Block : OnChain(a, b)}
  OBVIOUS
<1>1. Chain[b] \in Seq(Block) /\ Len(Chain[b]) = Height(b) + 1 /\ Height(b) \in Nat
  BY ChainEquation, HeightFacts
<1>2. BlocksOf(b) = {Chain[b][i] : i \in 1 .. Len(Chain[b])}
  BY <1>1 DEF BlocksOf, ChainSet
<1>3. ASSUME NEW i \in 1 .. Len(Chain[b])
      PROVE  Chain[b][i] \in Block /\ OnChain(Chain[b][i], b)
  <2>1. i - 1 \in 0 .. Height(b) /\ BlockAt(b, i - 1) = Chain[b][i]
    BY <1>1 DEF BlockAt
  <2> QED BY <1>1, <2>1, BlockAtFacts DEF OnChain
<1>4. ASSUME NEW a \in Block, OnChain(a, b)
      PROVE  a \in BlocksOf(b)
  <2>1. Height(a) + 1 \in 1 .. Len(Chain[b]) /\ a = Chain[b][Height(a) + 1]
    BY <1>1, <1>4, HeightFacts DEF OnChain, BlockAt
  <2> QED BY <1>2, <2>1
<1> QED BY <1>2, <1>3, <1>4

\* OnChain is an order, with one block at each height.
LEMMA OnChainFacts ==
    /\ \A b \in Block : OnChain(b, b) /\ OnChain(Genesis, b)
    /\ \A a, b, c \in Block : OnChain(a, b) /\ OnChain(b, c) => OnChain(a, c)
    /\ \A a, b, c \in Block :
          OnChain(a, c) /\ OnChain(b, c) /\ Height(a) <= Height(b) => OnChain(a, b)
    /\ \A a, b \in Block : OnChain(a, b) /\ Height(a) >= Height(b) => a = b
    /\ \A a \in Block, b \in Block \ {Genesis} : OnChain(a, b) <=> a = b \/ OnChain(a, Parent[b])
<1>1. ASSUME NEW b \in Block
      PROVE  OnChain(b, b)
  BY BlockAtTop, HeightFacts DEF OnChain
<1>2. ASSUME NEW a \in Block, NEW b \in Block, NEW c \in Block, OnChain(a, b), OnChain(b, c)
      PROVE  OnChain(a, c)
  <2>1. Height(b) \in 0 .. Height(c) /\ Height(a) \in 0 .. Height(b) /\ b = BlockAt(c, Height(b))
    BY <1>2, HeightFacts DEF OnChain
  <2>2. BlockAt(b, Height(a)) = BlockAt(c, Height(a))
    BY <2>1, BlockAtFacts
  <2>3. Height(a) <= Height(c)
    BY <2>1, HeightFacts
  <2> QED BY <1>2, <2>2, <2>3 DEF OnChain
<1>3. ASSUME NEW a \in Block, NEW b \in Block, NEW c \in Block, OnChain(a, c), OnChain(b, c),
             Height(a) <= Height(b)
      PROVE  OnChain(a, b)
  <2>1. Height(b) \in 0 .. Height(c) /\ Height(a) \in 0 .. Height(b) /\ b = BlockAt(c, Height(b))
    BY <1>3, HeightFacts DEF OnChain
  <2>2. BlockAt(b, Height(a)) = BlockAt(c, Height(a))
    BY <2>1, BlockAtFacts
  <2> QED BY <1>3, <2>2 DEF OnChain
<1>4. ASSUME NEW a \in Block, NEW b \in Block, OnChain(a, b), Height(a) >= Height(b)
      PROVE  a = b
  BY <1>4, BlockAtTop, HeightFacts DEF OnChain
<1>5. ASSUME NEW a \in Block, NEW b \in Block \ {Genesis}
      PROVE  OnChain(a, b) <=> a = b \/ OnChain(a, Parent[b])
  <2>1. Parent[b] \in Block /\ Height(b) = Height(Parent[b]) + 1 /\ Height(Parent[b]) \in Nat
    BY HeightFacts
  <2>2. Height(a) \in Nat
    BY HeightFacts
  <2>3. CASE Height(a) \in 0 .. Height(b) - 1
    BY <1>1, <2>1, <2>2, <2>3, BlockAtTop DEF OnChain
  <2>4. CASE Height(a) >= Height(b)
    BY <1>1, <1>4, <2>1, <2>2, <2>4 DEF OnChain
  <2> QED BY <2>1, <2>2, <2>3, <2>4
<1>6. ASSUME NEW b \in Block
      PROVE  OnChain(Genesis, b)
  <2>1. IsChain(Chain[b], b) /\ Height(b) \in Nat
    BY ChainEquation, HeightFacts
  <2> QED BY <2>1, HeightFacts DEF OnChain, BlockAt, IsChain
<1> QED BY <1>1, <1>2, <1>3, <1>4, <1>5, <1>6
-----------------------------------------------------------------------------
(* The common ancestor.                                                    *)

\* A set of natural numbers has a least member, and a greatest one if it is bounded.
LEMMA NatBounds ==
    ASSUME NEW S \in SUBSET Nat, S # {}
    PROVE  /\ \E m \in S : \A k \in S : m <= k
           /\ \A n \in Nat : (\A k \in S : k <= n) => \E m \in S : \A k \in S : k <= m
<1>1. ASSUME NEW T \in SUBSET Nat, T # {}
      PROVE  \E m \in T : \A k \in T : m <= k
  <2>1. PICK m \in T : \A k \in T : ~(<<k, m>> \in OpToRel(<, Nat))
    BY <1>1, NatLessThanWellFounded, WFMin
  <2>2. \A k \in T : ~(k < m)
    BY <2>1 DEF OpToRel
  <2> QED BY <2>2
<1>2. ASSUME NEW n \in Nat, \A k \in S : k <= n
      PROVE  \E m \in S : \A k \in S : k <= m
  <2> DEFINE T == {n - k : k \in S}
  <2>0. \A k \in S : n - k \in Nat
    BY <1>2
  <2>1. T \in SUBSET Nat /\ T # {}
    BY <2>0
  <2>2. PICK d \in T : \A k \in T : d <= k
    BY <1>1, <2>1
  <2>3. PICK m \in S : d = n - m
    BY <2>2
  <2>4. \A k \in S : n - m <= n - k
    BY <2>2, <2>3
  <2> QED BY <2>4
<1> QED BY <1>1, <1>2

\* The blocks two chains share below their tips, and the highest of them.
Shared(a, b) == {c \in Block : OnChain(c, a) /\ OnChain(c, b) /\ c # a /\ c # b}

IsHighest(c, S) == c \in S /\ \A d \in S : Height(d) <= Height(c)

LastShared(a, b) == IF Shared(a, b) = {} THEN "none" ELSE CHOOSE c \in Block : IsHighest(c, Shared(a, b))

\* There is one highest block, if there is any.
LEMMA LastSharedFacts ==
    ASSUME NEW a \in Block, NEW b \in Block, Shared(a, b) # {}
    PROVE  /\ LastShared(a, b) \in Block /\ IsHighest(LastShared(a, b), Shared(a, b))
           /\ \A c \in Block : IsHighest(c, Shared(a, b)) => c = LastShared(a, b)
<1> DEFINE S == Shared(a, b)
           H == {Height(c) : c \in S}
<1>1. H \in SUBSET Nat /\ H # {}
  BY HeightFacts DEF Shared
<1>2. Height(a) \in Nat /\ \A h \in H : h <= Height(a)
  BY HeightFacts DEF Shared, OnChain
<1>3. PICK m \in H : \A h \in H : h <= m
  BY <1>1, <1>2, NatBounds
<1>4. PICK c \in S : Height(c) = m
  BY <1>3
<1>5. c \in Block /\ IsHighest(c, S)
  BY <1>3, <1>4 DEF IsHighest, Shared
<1>6. LastShared(a, b) \in Block /\ IsHighest(LastShared(a, b), S)
  BY <1>5 DEF LastShared
<1>7. ASSUME NEW d \in Block, NEW e \in Block, IsHighest(d, S), IsHighest(e, S)
      PROVE  d = e
  <2>1. Height(d) = Height(e) /\ OnChain(d, a) /\ OnChain(e, a)
    BY <1>7, HeightFacts DEF IsHighest, Shared
  <2> QED BY <2>1, OnChainFacts, HeightFacts
<1> QED BY <1>6, <1>7

\* One step of the loop of CommonAncestor leaves the shared blocks as they are.
LEMMA SharedStep ==
    ASSUME NEW a \in Block, NEW b \in Block
    PROVE  /\ Height(a) > Height(b) =>
                 Parent[a] \in Block /\ Shared(a, b) = Shared(Parent[a], b)
           /\ Height(a) < Height(b) =>
                 Parent[b] \in Block /\ Shared(a, b) = Shared(a, Parent[b])
           /\ Height(a) = Height(b) /\ a = Genesis => Shared(a, b) = {}
           /\ Height(a) = Height(b) /\ a # Genesis =>
                 /\ b # Genesis /\ Parent[a] \in Block /\ Parent[b] \in Block
                 /\ Parent[a] # Parent[b] => Shared(a, b) = Shared(Parent[a], Parent[b])
                 /\ Parent[a] = Parent[b] => IsHighest(Parent[a], Shared(a, b))
<1>0. Height(a) \in Nat /\ Height(b) \in Nat
  BY HeightFacts
<1>1. ASSUME NEW c \in Block, NEW d \in Block, Height(c) > Height(d)
      PROVE  /\ c # Genesis /\ Parent[c] \in Block
             /\ \A e \in Block : e \in Shared(c, d) <=> e \in Shared(Parent[c], d)
  <2>1. c # Genesis /\ Parent[c] \in Block /\ Height(Parent[c]) >= Height(d)
    BY <1>1, HeightFacts
  <2>2. ASSUME NEW e \in Block, OnChain(e, d)
        PROVE  e # c /\ (e = Parent[c] => e = d)
    BY <1>1, <2>1, <2>2, OnChainFacts, HeightFacts DEF OnChain
  <2>3. \A e \in Block : OnChain(e, c) <=> e = c \/ OnChain(e, Parent[c])
    BY <2>1, OnChainFacts
  <2> QED BY <2>1, <2>2, <2>3 DEF Shared
<1>2. CASE Height(a) > Height(b)
  BY <1>0, <1>1, <1>2 DEF Shared
<1>3. CASE Height(a) < Height(b)
  <2>1. Parent[b] \in Block /\ \A e \in Block : e \in Shared(b, a) <=> e \in Shared(Parent[b], a)
    BY <1>0, <1>1, <1>3
  <2> QED BY <1>0, <1>3, <2>1 DEF Shared
<1>4. CASE Height(a) = Height(b) /\ a = Genesis
  <2>1. Height(a) = 0 /\ Height(b) = 0
    BY <1>4, HeightFacts
  <2>2. \A c \in Block : OnChain(c, a) => c = a
    BY <1>4, <2>1, OnChainFacts, HeightFacts
  <2>3. Shared(a, b) = {}
    BY <2>2 DEF Shared
  <2> QED BY <1>0, <1>4, <2>3
<1>5. CASE Height(a) = Height(b) /\ a # Genesis
  <2>1. b # Genesis /\ Parent[a] \in Block /\ Parent[b] \in Block
        /\ Height(Parent[a]) = Height(a) - 1 /\ Height(Parent[b]) = Height(a) - 1
    BY <1>0, <1>5, HeightFacts
  <2>2. \A e \in Block : /\ OnChain(e, a) <=> e = a \/ OnChain(e, Parent[a])
                         /\ OnChain(e, b) <=> e = b \/ OnChain(e, Parent[b])
    BY <1>5, <2>1, OnChainFacts
  <2>3. \A e \in Block : OnChain(e, Parent[a]) \/ OnChain(e, Parent[b]) => e # a /\ e # b
    BY <1>0, <1>5, <2>1, HeightFacts DEF OnChain
  <2>4. ASSUME Parent[a] # Parent[b]
        PROVE  Shared(a, b) = Shared(Parent[a], Parent[b])
    <3>1. ~OnChain(Parent[a], Parent[b]) /\ ~OnChain(Parent[b], Parent[a])
      BY <1>0, <2>1, <2>4, OnChainFacts
    <3> QED BY <2>2, <2>3, <2>4, <3>1 DEF Shared
  <2>5. ASSUME Parent[a] = Parent[b]
        PROVE  IsHighest(Parent[a], Shared(a, b))
    <3>1. Parent[a] \in Shared(a, b)
      BY <2>1, <2>2, <2>3, <2>5, OnChainFacts DEF Shared
    <3>2. \A d \in Shared(a, b) : OnChain(d, Parent[a])
      BY <2>2 DEF Shared
    <3> QED BY <3>1, <3>2 DEF IsHighest, OnChain
  <2> QED BY <1>0, <1>5, <2>1, <2>4, <2>5
<1> QED BY <1>0, <1>2, <1>3, <1>4, <1>5

(***************************************************************************)
(* What rpcutils.CommonAncestor computes, by a loop that follows parents,  *)
(* is the highest block that the two chains share below their tips, and    *)
(* nothing only if they share none.                                        *)
(***************************************************************************)
THEOREM CommonAncestorIsLastShared ==
    \A a, b \in Block : CommonAncestor(a, b) = LastShared(a, b)
<1> DEFINE P == Block \X Block
           Val(f, p) ==
               LET a == p[1]
                   b == p[2]
               IN  CASE Height(a) > Height(b) -> f[<<Parent[a], b>>]
                     [] Height(a) < Height(b) -> f[<<a, Parent[b]>>]
                     [] Height(a) = Height(b) /\ a = Genesis -> "none"
                     [] Height(a) = Height(b) /\ a # Genesis ->
                           IF Parent[a] = Parent[b] THEN Parent[a] ELSE f[<<Parent[a], Parent[b]>>]
           Eqn(f) == f = [p \in P |-> Val(f, p)]
           G == [p \in P |-> LastShared(p[1], p[2])]
<1>1. \A a, b \in Block : G[<<a, b>>] = LastShared(a, b)
  OBVIOUS
<1>2. ASSUME NEW a \in Block, NEW b \in Block
      PROVE  Val(G, <<a, b>>) = LastShared(a, b)
  <2>0. Height(a) \in Nat /\ Height(b) \in Nat
    BY HeightFacts
  <2> HIDE DEF G
  <2>1. CASE Height(a) > Height(b)
    BY <1>1, <2>0, <2>1, SharedStep DEF LastShared
  <2>2. CASE Height(a) < Height(b)
    <3>1. Val(G, <<a, b>>) = G[<<a, Parent[b]>>]
      BY <2>0, <2>2
    <3>2. Parent[b] \in Block /\ Shared(a, b) = Shared(a, Parent[b])
      BY <2>2, SharedStep
    <3> HIDE DEF Val
    <3> QED BY <1>1, <3>1, <3>2 DEF LastShared
  <2>3. CASE Height(a) = Height(b) /\ a = Genesis
    BY <2>0, <2>3, SharedStep DEF LastShared
  <2>4. CASE Height(a) = Height(b) /\ a # Genesis /\ Parent[a] = Parent[b]
    <3>1. Parent[a] \in Block /\ IsHighest(Parent[a], Shared(a, b))
      BY <2>4, SharedStep
    <3>2. Parent[a] = LastShared(a, b)
      BY <3>1, LastSharedFacts DEF IsHighest
    <3>3. Val(G, <<a, b>>) = Parent[a]
      BY <2>0, <2>4
    <3> QED BY <3>2, <3>3
  <2>5. CASE Height(a) = Height(b) /\ a # Genesis /\ Parent[a] # Parent[b]
    BY <1>1, <2>0, <2>5, SharedStep DEF LastShared
  <2> QED BY <2>0, <2>1, <2>2, <2>3, <2>4, <2>5
<1>3. Eqn(G)
  <2>1. \A p \in P : Val(G, p) = LastShared(p[1], p[2])
    <3> HIDE DEF Val, G
    <3> QED BY <1>2
  <2> HIDE DEF Val
  <2> QED BY <2>1
<1>4. Eqn(AncestorOf)
  <2>1. AncestorOf = CHOOSE f : Eqn(f)
    BY DEF AncestorOf
  <2> HIDE DEF Eqn, G
  <2> QED BY <1>3, <2>1
<1>5. \A p \in P : AncestorOf[p] = Val(AncestorOf, p)
  <2> HIDE DEF Val
  <2> QED BY <1>4
<1>6. \A p \in P : AncestorOf[p] = LastShared(p[1], p[2])
  <2> DEFINE S == {p \in P : AncestorOf[p] # LastShared(p[1], p[2])}
             N == {Height(p[1]) + Height(p[2]) : p \in S}
  <2> SUFFICES ASSUME S # {}
               PROVE  FALSE
    OBVIOUS
  <2>1. N \in SUBSET Nat /\ N # {}
    BY HeightFacts
  <2>2. PICK m \in N : \A k \in N : m <= k
    BY <2>1, NatBounds
  <2>3. PICK p \in S : Height(p[1]) + Height(p[2]) = m
    BY <2>2
  <2>4. PICK a \in Block, b \in Block : p = <<a, b>>
    BY <2>3
  <2>5. Height(a) \in Nat /\ Height(b) \in Nat /\ AncestorOf[<<a, b>>] # LastShared(a, b)
    BY <2>3, <2>4, HeightFacts
  <2>6. ASSUME NEW c \in Block, NEW d \in Block, Height(c) + Height(d) < Height(a) + Height(b)
        PROVE  AncestorOf[<<c, d>>] = LastShared(c, d)
    <3>1. <<c, d>> \notin S
      <4> SUFFICES ASSUME <<c, d>> \in S
                   PROVE  FALSE
        OBVIOUS
      <4>1. Height(c) + Height(d) \in N
        OBVIOUS
      <4>2. m <= Height(c) + Height(d)
        BY <2>2, <4>1
      <4>3. m = Height(a) + Height(b)
        BY <2>3, <2>4
      <4>4. Height(c) \in Nat /\ Height(d) \in Nat
        BY HeightFacts
      <4> HIDE DEF S, N
      <4> QED BY <2>5, <2>6, <4>2, <4>3, <4>4
    <3> QED BY <3>1
  <2>7. AncestorOf[<<a, b>>] = Val(AncestorOf, <<a, b>>)
    BY <1>5
  <2> HIDE DEF S, N
  <2>8. CASE Height(a) > Height(b)
    <3>1. a # Genesis /\ Parent[a] \in Block /\ Height(Parent[a]) = Height(a) - 1
      BY <2>5, <2>8, HeightFacts
    <3>2. AncestorOf[<<Parent[a], b>>] = LastShared(Parent[a], b)
      BY <2>5, <2>6, <3>1
    <3>3. AncestorOf[<<a, b>>] = AncestorOf[<<Parent[a], b>>]
      BY <2>5, <2>7, <2>8
    <3> QED BY <2>5, <2>8, <3>2, <3>3, SharedStep DEF LastShared
  <2>9. CASE Height(a) < Height(b)
    <3>1. b # Genesis /\ Parent[b] \in Block /\ Height(Parent[b]) = Height(b) - 1
      BY <2>5, <2>9, HeightFacts
    <3>2. AncestorOf[<<a, Parent[b]>>] = LastShared(a, Parent[b])
      BY <2>5, <2>6, <3>1
    <3>3. AncestorOf[<<a, b>>] = AncestorOf[<<a, Parent[b]>>]
      BY <2>5, <2>7, <2>9
    <3> QED BY <2>5, <2>9, <3>2, <3>3, SharedStep DEF LastShared
  <2>10. CASE Height(a) = Height(b) /\ a = Genesis
    <3>1. AncestorOf[<<a, b>>] = "none"
      BY <2>5, <2>7, <2>10
    <3> QED BY <2>5, <2>10, <3>1, SharedStep DEF LastShared
  <2>11. CASE Height(a) = Height(b) /\ a # Genesis /\ Parent[a] = Parent[b]
    <3>1. AncestorOf[<<a, b>>] = Parent[a]
      BY <2>5, <2>7, <2>11
    <3>2. Parent[a] \in Block /\ IsHighest(Parent[a], Shared(a, b))
      BY <2>11, SharedStep
    <3> QED BY <2>5, <3>1, <3>2, LastSharedFacts DEF IsHighest
  <2>12. CASE Height(a) = Height(b) /\ a # Genesis /\ Parent[a] # Parent[b]
    <3>1. /\ b # Genesis /\ Parent[a] \in Block /\ Parent[b] \in Block
          /\ Height(Parent[a]) = Height(a) - 1 /\ Height(Parent[b]) = Height(b) - 1
      BY <2>5, <2>12, HeightFacts, SharedStep
    <3>2. AncestorOf[<<Parent[a], Parent[b]>>] = LastShared(Parent[a], Parent[b])
      BY <2>5, <2>6, <3>1
    <3>3. AncestorOf[<<a, b>>] = AncestorOf[<<Parent[a], Parent[b]>>]
      BY <2>5, <2>7, <2>12
    <3> QED BY <2>5, <2>12, <3>2, <3>3, SharedStep DEF LastShared
  <2> QED BY <2>5, <2>8, <2>9, <2>10, <2>11, <2>12
<1> QED BY <1>6 DEF CommonAncestor, Ancestor
\* Two branches fork at a block of both, below their tips.
LEMMA ForkAncestor ==
    ASSUME NEW a \in Block, NEW b \in Block, Height(b) <= Height(a), ~OnChain(b, a)
    PROVE  /\ CommonAncestor(a, b) \in Block
           /\ OnChain(CommonAncestor(a, b), a) /\ OnChain(CommonAncestor(a, b), b)
           /\ CommonHeight(a, b) \in 0 .. Height(b) - 1
<1>1. b # Genesis /\ a # Genesis
  BY OnChainFacts, HeightFacts
<1>2. Genesis \in Shared(a, b)
  BY <1>1, GenesisAssumption, OnChainFacts DEF Shared
<1> DEFINE c == LastShared(a, b)
<1>3. c \in Block /\ c \in Shared(a, b)
  BY <1>2, LastSharedFacts DEF IsHighest
<1>4. CommonAncestor(a, b) = c
  BY CommonAncestorIsLastShared
<1> HIDE DEF c
<1>5. OnChain(c, a) /\ OnChain(c, b) /\ c # b
  BY <1>3 DEF Shared
<1>6. Height(c) \in Nat /\ Height(b) \in Nat /\ Height(c) <= Height(b) /\ Height(c) # Height(b)
  BY <1>3, <1>5, HeightFacts, OnChainFacts DEF OnChain
<1>7. Height(c) \in 0 .. Height(b) - 1
  BY <1>6
<1> QED BY <1>3, <1>4, <1>5, <1>7 DEF CommonHeight

\* The blocks above a height, lowest first.
LEMMA BlocksAboveFacts ==
    ASSUME NEW b \in Block, NEW h \in 0 .. Height(b)
    PROVE  /\ BlocksAbove(b, h) \in Seq(Block)
           /\ Len(BlocksAbove(b, h)) = Height(b) - h
           /\ \A i \in 1 .. Height(b) - h : BlocksAbove(b, h)[i] = BlockAt(b, h + i)
<1>1. Chain[b] \in Seq(Block) /\ Len(Chain[b]) = Height(b) + 1 /\ Height(b) \in Nat
  BY ChainEquation, HeightFacts
<1> DEFINE s == Chain[b]
<1> HIDE DEF s
<1>2. s \in Seq(Block) /\ Len(s) = Height(b) + 1 /\ h \in Nat
  BY <1>1 DEF s
<1>3. /\ SubSeq(s, h + 2, Len(s)) \in Seq(Block)
      /\ Len(SubSeq(s, h + 2, Len(s))) = Height(b) - h
      /\ \A i \in 1 .. Height(b) - h : SubSeq(s, h + 2, Len(s))[i] = s[h + i + 1]
  BY <1>1, <1>2
<1> QED BY <1>3 DEF s, BlocksAbove, BlockAt
=============================================================================
