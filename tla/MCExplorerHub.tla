--------------------------- MODULE MCExplorerHub ----------------------------
(***************************************************************************)
(* Instances of ExplorerHub.  Every behaviour is in one of three           *)
(* scenarios: two clients, one of which leaves, while the hub stops; two   *)
(* clients that receive exchange updates; and one that receives            *)
(* transactions, leaves, and sees the hub stop.  Every channel holds one   *)
(* message or two, so that all of them fill up.                            *)
(***************************************************************************)
EXTENDS ExplorerHub

Scenario(conn, n, leaving, exchange, stops) ==
    [conn |-> conn, txs |-> n, leaving |-> leaving, exchange |-> exchange, stops |-> stops]

MCScenarios ==
    {Scenario({"c1", "c2"}, 0, {"c1"}, FALSE, TRUE),
     Scenario({"c1", "c2"}, 0, {}, TRUE, FALSE),
     Scenario({"c1"}, 2, {"c1"}, FALSE, TRUE)}

\* One client that leaves while an exchange update is relayed.
StopScenarios == {Scenario({"c1"}, 0, {"c1"}, TRUE, TRUE)}
=============================================================================
