----------------------------- MODULE MCNotifier -----------------------------
(***************************************************************************)
(* Notifier on a tree with forks at three heights:                         *)
(*                                                                         *)
(*     g - c1 - c2 - a3 - a4                                               *)
(*          |    `-- b3 - b4 - b5                                          *)
(*          |         `-- e4 - e5 - e6                                     *)
(*          `-- d2 - d3 - d4 - d5 - d6                                     *)
(*                                                                         *)
(* so that a reorganisation can follow another before it is handled, deeper*)
(* or shallower than the first.                                            *)
(***************************************************************************)
EXTENDS Notifier

MCParent == [c1 |-> "g", c2 |-> "c1", a3 |-> "c2", a4 |-> "a3",
             b3 |-> "c2", b4 |-> "b3", b5 |-> "b4",
             e4 |-> "b3", e5 |-> "e4", e6 |-> "e5",
             d2 |-> "c1", d3 |-> "d2", d4 |-> "d3", d5 |-> "d4", d6 |-> "d5"]

MCBlock == DOMAIN MCParent \cup {"g"}

\* Without branch d, no reorganisation goes back below the ancestor of one that
\* may still be in the queue.
MCDeepBranch == {"d2", "d3", "d4", "d5", "d6"}
Nested == MCBlock \ MCDeepBranch
Short  == {"c1", "c2", "a3", "b3", "b4", "e4", "e5"}

\* What a scenario may combine: everything but deadlines and ffldb's disk.
NoDeadline == {"lost", "lostReorg", "rpc", "stake", "collect", "store", "late", "ancestor",
               "reorg", "reorgCollect"}

Scenario(f, r) == [faults |-> f, reach |-> r]

MCScenarios ==
    {Scenario({}, MCBlock),
     Scenario({"rpc", "stake", "collect", "late", "lost", "reorgCollect"}, Nested),
     Scenario({"reorg", "ancestor", "lostReorg"}, Nested),
     Scenario(NoDeadline, Short),
     Scenario({"disk"}, Short),
     Scenario({"deadline", "store"}, Short),
     Scenario({"deadline", "reorgDeadline"}, Short)}

\* For one question each.
HoleScenario == {Scenario({"reorg"}, Nested)}
HangScenario == {Scenario({"stake"}, MCBlock)}
DataScenario == {Scenario({"moves"}, Nested)}
=============================================================================
