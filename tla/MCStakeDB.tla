----------------------------- MODULE MCStakeDB ------------------------------
(***************************************************************************)
(* StakeDB on a tree with a trunk of four blocks and two branches:         *)
(*                                                                         *)
(*     g - c1 - c2 - c3 - c4 - a5 - a6 - a7                                *)
(*                         `-- b5 - b6 - b7 - b8                           *)
(*                                                                         *)
(* Block g stands for the chain so far.  Tickets mature after four blocks: *)
(* t0 before the fork, t1 and t2 in the first block of each branch.  t0    *)
(* and t1 win on branch a where t2 wins on branch b: the diffs of heights  *)
(* 6 and 7 differ, and that of a7 does not fit on b6.  dcrd can reorganise *)
(* up to three blocks deep, and back again.                                *)
(***************************************************************************)
EXTENDS StakeDB

MCBlock == {"g", "c1", "c2", "c3", "c4", "a5", "a6", "a7", "b5", "b6", "b7", "b8"}

MCParent == [c1 |-> "g", c2 |-> "c1", c3 |-> "c2", c4 |-> "c3",
             a5 |-> "c4", a6 |-> "a5", a7 |-> "a6",
             b5 |-> "c4", b6 |-> "b5", b7 |-> "b6", b8 |-> "b7"]

AllFaults == {"rpc", "undo", "stakeWrite", "poolWrite", "crash"}

\* Failing calls on the tree without its last blocks; crashes on the whole tree;
\* everything at once on the trunk and the first blocks of the branches.
MCReach == [f \in {{"rpc", "undo"}, {"crash"}, AllFaults} |->
               CASE f = {"rpc", "undo"} -> MCBlock \ {"a7", "b8"}
                 [] f = {"crash"}       -> MCBlock
                 [] f = AllFaults       -> MCBlock \ {"a6", "a7", "b7", "b8"}]

CrashReach == [f \in {{"crash"}} |-> MCBlock]

MCTicketsIn == [b \in MCBlock |->
                   CASE b = "g" -> {"t0"} [] b = "c1" -> {"t1", "t2"} [] b = "c2" -> {"t3"} [] b = "c3" -> {"t4"}
                     [] OTHER -> {}]

MCWinners == [b \in MCBlock |->
                 CASE b = "a5" -> {"t0", "t1"} [] b = "a6" -> {"t2"}
                   [] b = "b5" -> {"t2"} [] b = "b6" -> {"t3"} [] b = "b7" -> {"t1"}
                   [] OTHER -> {}]
=============================================================================
