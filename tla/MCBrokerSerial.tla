--------------------------- MODULE MCBrokerSerial ---------------------------
(***************************************************************************)
(* BrokerSerial with the code's own timer periods and a firmware that adds *)
(* one publisher to the three resources of init().                         *)
(***************************************************************************)
EXTENDS BrokerSerial

MCTopics == {"uptime", "latency", "led"}
MCApps == {<<[kind |-> "pub", key |-> "led"]>>}
=============================================================================
