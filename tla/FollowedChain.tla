---------------------------- MODULE FollowedChain ---------------------------
(***************************************************************************)
(* What the block pipeline promises the readers of ChainDB, who look at    *)
(* the rows flagged as main chain and at the best block separately: the    *)
(* rows are always one chain of dcrd's tree, from genesis on; one row at a *)
(* time comes or goes at its end; and the best block moves there before    *)
(* the next row does.                                                      *)
(***************************************************************************)
EXTENDS BlockTree

VARIABLES
    main,   \* the main chain blocks
    tip     \* the best block

Init == main = {Genesis} /\ tip = Genesis

Insert(b) ==
    /\ main = BlocksOf(tip)
    /\ b # Genesis
    /\ Parent[b] = tip
    /\ main' = main \cup {b}
    /\ UNCHANGED tip

Remove ==
    /\ main = BlocksOf(tip)
    /\ tip # Genesis
    /\ main' = main \ {tip}
    /\ UNCHANGED tip

Settle(b) ==
    /\ main = BlocksOf(b)
    /\ tip' = b
    /\ UNCHANGED main

Next == Remove \/ \E b \in Block : Insert(b) \/ Settle(b)

Spec == Init /\ [][Next]_<<main, tip>>
=============================================================================
