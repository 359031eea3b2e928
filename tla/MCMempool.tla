------------------------------ MODULE MCMempool -----------------------------
(***************************************************************************)
(* Instances of Mempool.  v1 and v2 are two votes of one ticket on block   *)
(* 1, v3 is a vote on block 2; s1 is a treasury spend.  Three scenarios:   *)
(* votes, with calls to dcrd that fail; three blocks with lookups by       *)
(* address; and three blocks with headers ahead of the clock.              *)
(***************************************************************************)
EXTENDS Mempool

MCVoteOn == [v \in Vote |-> IF v = "v3" THEN 2 ELSE 1]
MCTicket == [v \in Vote |-> IF v = "v3" THEN "k2" ELSE "k1"]

Scenario(blocks, txs, skewed, fails, lookups) ==
    [blocks |-> blocks, txs |-> txs, skewed |-> skewed, fails |-> fails, lookups |-> lookups]

MCScenarios ==
    {Scenario(2, {"r1", "v1", "v2", "v3"}, FALSE, TRUE, FALSE),
     Scenario(3, {"r1", "s1"}, FALSE, FALSE, TRUE),
     Scenario(3, {"r1", "v3"}, TRUE, TRUE, FALSE)}

\* One transaction and one block are enough for a lookup to come in between.
LookupScenarios == {Scenario(1, {"r1"}, FALSE, FALSE, TRUE)}
=============================================================================
