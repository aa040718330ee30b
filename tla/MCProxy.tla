------------------------------ MODULE MCProxy -------------------------------
(***************************************************************************)
(* Instances of the running system.                                        *)
(***************************************************************************)
EXTENDS Proxy, TLC

CONSTANTS o1, o2

MCSubObjs == {o1, o2}
Addresses == Permutations(MCSubObjs)

MCTopics == {"uptime", "latency", "led"}
MCMatches == [t \in MCTopics |-> {t}]

(* The firmware of main.cpp adds nothing to init()'s three resources.      *)
PlainApps == {<<>>}
PlainIds == 0 .. 2

(* A firmware with a topic of its own. *)
LedApps == {<<[kind |-> "pub", key |-> "led"]>>}
(* A firmware that listens to a second topic. *)
ListenerApps == {<<[kind |-> "sub", key |-> "led"]>>}
AppIds == 0 .. 3

Times(n, kinds) == [f \in Events |-> IF f \in kinds THEN n ELSE 0]

(* Every fault once, in any order; or none, but several slow round trips;  *)
(* or slow ones with a reset and a lost frame, or with somebody else's      *)
(* sample.                                                                 *)
FaultsOrSlow ==
  {Times(1, {"loss", "reboot", "kill", "open", "declare", "write"}),
   Times(3, {"slow"}),
   [Times(1, {"loss", "reboot"}) EXCEPT !["slow"] = 2],
   [Times(1, {"foreign"}) EXCEPT !["slow"] = 2]}
Traffic == {Times(1, {"loss", "reboot", "kill", "foreign", "appPublish", "slow"})}
OneLoss == {Times(1, {"loss"})}
OneForeign == {Times(1, {"foreign"})}
=============================================================================
