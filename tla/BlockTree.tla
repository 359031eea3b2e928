----------------------------- MODULE BlockTree ------------------------------
(***************************************************************************)
(* The blocks the dcrd node knows, as a tree rooted at the genesis block.  *)
(* The node is not part of the repository: the components see it through   *)
(* GetBlock, GetBlockHash and GetBlockHeader, which are look-ups here.     *)
(***************************************************************************)
EXTENDS Integers, Sequences

CONSTANTS
    Block,        \* the block hashes
    Genesis,      \* the genesis block
    Parent        \* PrevBlock of every block but genesis

ASSUME GenesisAssumption == Genesis \in Block
ASSUME ParentAssumption  == Parent \in [Block \ {Genesis} -> Block]

\* Following PrevBlock from any block ends at genesis.
ASSUME TreeAssumption ==
    \A S \in SUBSET Block : S # {} => \E b \in S : b = Genesis \/ Parent[b] \notin S

ChainTo[b \in Block] == IF b = Genesis THEN <<b>> ELSE Append(ChainTo[Parent[b]], b)

\* The blocks from genesis up to and including b.
Chain == [b \in Block |-> ChainTo[b]]

ChainSet == [b \in Block |-> {Chain[b][i] : i \in DOMAIN Chain[b]}]

BlocksOf(b) == ChainSet[b]

Height(b) == Len(Chain[b]) - 1

Heights == {Height(b) : b \in Block}

\* GetBlockHash(h) of a node whose best block is tip.
BlockAt(tip, h) == Chain[tip][h + 1]

\* a is tip or one of its ancestors.
OnChain(a, tip) == Height(a) <= Height(tip) /\ BlockAt(tip, Height(a)) = a

\* The blocks above height h up to b.
BlocksAbove(b, h) == SubSeq(Chain[b], h + 2, Len(Chain[b]))

(***************************************************************************)
(* rpcutils.CommonAncestor of two chain tips: the higher of the two is     *)
(* followed down to the height of the other, then both are, until they     *)
(* have the same parent.  From genesis there is nowhere to go.  The limit  *)
(* of 8192 blocks is one of the failures of signalReorg.                   *)
(***************************************************************************)
AncestorOf[p \in Block \X Block] ==
    LET a == p[1]
        b == p[2]
    IN  CASE Height(a) > Height(b) -> AncestorOf[<<Parent[a], b>>]
          [] Height(a) < Height(b) -> AncestorOf[<<a, Parent[b]>>]
          [] Height(a) = Height(b) /\ a = Genesis -> "none"
          [] Height(a) = Height(b) /\ a # Genesis ->
                IF Parent[a] = Parent[b] THEN Parent[a] ELSE AncestorOf[<<Parent[a], Parent[b]>>]

Ancestor == [p \in Block \X Block |-> AncestorOf[p]]

\* Faulty variant: the tips are compared before the first step.
CommonAncestorOrTip(a, b) == IF a = b THEN a ELSE Ancestor[<<a, b>>]

CommonAncestor(a, b) == Ancestor[<<a, b>>]

CommonHeight(a, b) == Height(CommonAncestor(a, b))
=============================================================================
