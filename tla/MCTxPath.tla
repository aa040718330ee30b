----------------------------- MODULE MCTxPath -------------------------------
(* A serializer of seven cells; a reader of five for MsgPublish, of seven  *)
(* for the rest.  Of the MsgPublish one fits both; two only the serializer, *)
(* so that the reader's buffer cuts off the break of one and a part of the *)
(* value of the other; one fits without its break (the assertion of end()) *)
(* and one does not fit itself (the assertion of member()).  Of the        *)
(* MsgPublisher one fits, one fits without its break, and the topic of the *)
(* last one does not fit, which nothing asserts.                           *)
EXTENDS RxPath, TLC

Number(v) == [asserted |-> TRUE, cells |-> <<[kind |-> "int", n |-> 0, val |-> v]>>]
Raw(c) == [kind |-> "raw", n |-> 0, val |-> c]
Item(kind, s) ==
  <<[kind |-> kind, n |-> Len(s), val |-> kind]>> \o [i \in DOMAIN s |-> Raw(s[i])]
Text(s) == [asserted |-> FALSE, cells |-> Item("text", s)]
Blob(s) == [asserted |-> TRUE, cells |-> Item("blob", s)]

Publish(s) == <<Number("publish"), Number("id1"), Blob(s)>>
Publisher(s) == <<Number("publisher"), Number("id2"), Text(s)>>

Connect == <<Number("connect"), Text(<<"c">>)>>
Disconnect == <<Number("disconnect")>>

AllValues == {"connect", "disconnect", "publish", "publisher", "id1", "id2",
              "c", "t", "u", "v", "w", "x"}

(* One thread sends everything. *)
AllMessages ==
  "loop" :> ( {Connect, Disconnect}
    \cup {Publish(s) : s \in {<<>>, <<"v">>, <<"v", "w">>, <<"v", "w", "x">>,
                              <<"v", "w", "x", "x">>}}
    \cup {Publisher(s) : s \in {<<"t">>, <<"t", "u", "v">>, <<"t", "u", "v", "w">>}} )

(* The proxy: replies by the worker thread, samples by zenoh's. *)
ProxyMessages == "worker" :> {Connect} @@ "zenoh" :> {Publish(<<"v">>)}

Readers == [type \in DOMAIN Reflect |-> IF type = "publish" THEN 5 ELSE 7]
=============================================================================
