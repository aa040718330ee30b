--------------------------- MODULE MCBrokerZenoh ----------------------------
(***************************************************************************)
(* BrokerZenoh on two ids and two topics.  "all" is a pattern that matches *)
(* the other topic too, so one sample can reach two subscriptions.         *)
(***************************************************************************)
EXTENDS BrokerZenoh, TLC

CONSTANTS o1, o2, o3

MCIds == {0, 1}
MCTopics == {"uptime", "all"}
MCMatches == [t \in MCTopics |-> IF t = "all" THEN MCTopics ELSE {t}]
MCValues == {"v"}
MCSubObjs == {o1, o2, o3}

(* The addresses of Sub objects are interchangeable. *)
Addresses == Permutations(MCSubObjs)
=============================================================================
