---------------------------- MODULE MCPubSubHub -----------------------------
(***************************************************************************)
(* Instances of PubSubHub.  Every behaviour is in one of four scenarios:   *)
(* a client that subscribes, unsubscribes and leaves while the hub stops,  *)
(* with a topic other than transactions and with transactions; two clients *)
(* that receive transactions; and two idle clients, one of which leaves,   *)
(* while the hub stops.  The spoke holds one message and the buffer of     *)
(* transactions two, so that both fill up.                                 *)
(***************************************************************************)
EXTENDS PubSubHub

Scenario(conn, topics, n, leaving, unsubscribes, stops) ==
    [conn |-> conn, topics |-> topics, txs |-> n, leaving |-> leaving,
     unsubscribes |-> unsubscribes, stops |-> stops]

MCScenarios ==
    {Scenario({"c1"}, {"newblock"}, 0, {"c1"}, TRUE, TRUE),
     Scenario({"c1"}, {"newtxs"}, 2, {"c1"}, TRUE, TRUE),
     Scenario({"c1", "c2"}, {"newtxs"}, 2, {}, FALSE, FALSE),
     Scenario({"c1", "c2"}, {}, 0, {"c1"}, FALSE, TRUE)}
=============================================================================
