---------------------------- MODULE RoutingTable ----------------------------
(***************************************************************************)
(* What the proxy's broker promises about resource ids, with no objects,   *)
(* threads or network: two tables from the ids the microcontroller uses to *)
(* topics.  A topic is bound to a free id, and an id loses its topic only  *)
(* when everything is forgotten at once (a disconnect, or the end of the   *)
(* process).  No step rebinds an id that is in use.  BrokerZenoh           *)
(* implements this specification.                                          *)
(***************************************************************************)
CONSTANTS
  Ids,      \* resource ids carried by the serial messages
  Topics,   \* topic names and patterns
  NoTopic   \* the entry of an id without topic

VARIABLES
  subTopic, \* the topic each id is subscribed to
  pubTopic  \* the topic each id publishes to

rvars == <<subTopic, pubTopic>>

Unbound == [i \in Ids |-> NoTopic]

RInit == subTopic = Unbound /\ pubTopic = Unbound

BindSubscriber(i, t) ==
  /\ subTopic[i] = NoTopic
  /\ subTopic' = [subTopic EXCEPT ![i] = t]
  /\ UNCHANGED pubTopic

BindPublisher(i, t) ==
  /\ pubTopic[i] = NoTopic
  /\ pubTopic' = [pubTopic EXCEPT ![i] = t]
  /\ UNCHANGED subTopic

Forget == subTopic' = Unbound /\ pubTopic' = Unbound

RNext ==
  \/ \E i \in Ids, t \in Topics : BindSubscriber(i, t) \/ BindPublisher(i, t)
  \/ Forget

RSpec == RInit /\ [][RNext]_rvars
=============================================================================
