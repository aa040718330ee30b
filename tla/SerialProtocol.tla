--------------------------- MODULE SerialProtocol ---------------------------
(***************************************************************************)
(* The messages on the serial line (common/broker_protocol.h).  A message  *)
(* is one record; fields a type does not carry hold None.  The key of a    *)
(* "publish" is not transmitted: it records which topic the sender meant,  *)
(* so that properties can compare it with the topic the receiver uses.     *)
(***************************************************************************)
CONSTANTS
  Ids,      \* resource ids
  Topics,   \* topic names and patterns
  Values,   \* payloads
  None      \* absent field

MsgTypes == {"connect", "disconnect", "subscriber", "publisher", "publish"}

Msg == [type : MsgTypes, id : Ids \union {None},
        key : Topics \union {None}, val : Values \union {None}]

MsgConnect == [type |-> "connect", id |-> None, key |-> None, val |-> None]
MsgDisconnect == [type |-> "disconnect", id |-> None, key |-> None, val |-> None]
MsgSubscriber(i, t) == [type |-> "subscriber", id |-> i, key |-> t, val |-> None]
MsgPublisher(i, t) == [type |-> "publisher", id |-> i, key |-> t, val |-> None]
MsgPublish(i, t, v) == [type |-> "publish", id |-> i, key |-> t, val |-> v]
=============================================================================
