------------------------------ MODULE RxPath --------------------------------
(***************************************************************************)
(* The receiving end of a message: CborDeserializer                        *)
(* (common/CborDeserializer.cpp) and the MsgFilter in front of every       *)
(* handler (src/proxy.cpp, BrokerSerial.cpp), as functions of the bytes    *)
(* TxPath's serializer produces.                                           *)
(*                                                                         *)
(* A cell that starts an item says its kind and how many payload cells     *)
(* follow.  Each member overwrites the error of the one before, as in the  *)
(* code.                                                                   *)
(***************************************************************************)
EXTENDS TxPath

CONSTANTS
  FilterCapacity, \* MsgFilter's deserializer: 1024 cells on both sides
  ReaderOf        \* per type, the one of the handlers that decode it

(* The members of each message, in the order of its reflect(). *)
Reflect == [
  connect    |-> <<"int", "text">>,
  disconnect |-> <<"int">>,
  publish    |-> <<"int", "int", "blob">>,
  publisher  |-> <<"int", "int", "text">>,
  subscriber |-> <<"int", "int", "text">> ]

(* A message with a text only goes to the proxy, whose reader (1024 cells,  *)
(* proxy.cpp:80) is larger than the serializer it comes from (100,         *)
(* BrokerSerial.cpp:38).  The microcontroller's reader is smaller than the *)
(* proxy's serializer, but decodes only MsgPublish (broker.h:98-112): its  *)
(* handler of MsgConnect does not look into the frame.                     *)
ASSUME ReaderAssumption ==
  /\ FilterCapacity \in Nat /\ ReaderOf \in [DOMAIN Reflect -> Nat]
  /\ \A type \in DOMAIN Reflect :
       /\ ReaderOf[type] <= FilterCapacity
       /\ (\E i \in DOMAIN Reflect[type] : Reflect[type][i] = "text")
            => Capacity <= ReaderOf[type]

(* A message names its type in its first member and hands over the members *)
(* of its reflect(), each an item with its payload.                        *)
Own(m) == m[1].cells[1].val
WellFormed(m) ==
  /\ m # <<>> /\ Own(m) \in DOMAIN Reflect /\ Len(m) = Len(Reflect[Own(m)])
  /\ \A i \in DOMAIN m : /\ m[i].cells[1].kind = Reflect[Own(m)][i]
                         /\ m[i].cells[1].n = Len(m[i].cells) - 1

ASSUME ReflectAssumption == \A t \in Threads : \A m \in Messages[t] : WellFormed(m)

(* fromBytes: more than the buffer holds is cut off, with a warning. *)
fromBytes(bs, capacity) == IF Len(bs) <= capacity THEN bs ELSE SubSeq(bs, 1, capacity)

(* begin: the parser is at the first item of the array. *)
ReadBegin(bs) ==
  [pos |-> 2, err |-> bs = <<>> \/ bs[1] # Open, wild |-> FALSE, values |-> <<>>]

Unset == <<"unset", <<>>>> \* a member that was not assigned

(* The start of an item, and an item with all of its payload. *)
Payload(bs, pos) == SubSeq(bs, pos + 1, pos + bs[pos].n)
StartAt(bs, pos, kind) == pos <= Len(bs) /\ bs[pos] # Close /\ bs[pos].kind = kind
ItemAt(bs, pos, kind) == StartAt(bs, pos, kind) /\ pos + bs[pos].n <= Len(bs)

(* cbor_value_advance: fails at the end, and when the next item, or the    *)
(* break, is not there.                                                    *)
Advanced(bs, pos) == IF pos > Len(bs) \/ bs[pos] = Close THEN pos ELSE pos + 1 + bs[pos].n
AdvanceFails(bs, pos) == pos > Len(bs) \/ bs[pos] = Close \/ Advanced(bs, pos) > Len(bs)

(* What the item at the position gives to a member. *)
Taken(bs, st, kind) ==
  IF ~st.err /\ ItemAt(bs, st.pos, kind) THEN <<bs[st.pos].val, Payload(bs, st.pos)>> ELSE Unset

(* A text whose payload is cut off: cbor_value_dup_text_string fails without *)
(* setting temp, which the code assigns from and frees all the same (its    *)
(* assert is a WARN, CborDeserializer.cpp:4-6); nothing is defined any more. *)
(* For a blob, cbor_value_calculate_string_length finds out first.          *)
CutText(bs, st, kind) ==
  kind = "text" /\ ~st.err /\ StartAt(bs, st.pos, kind) /\ ~ItemAt(bs, st.pos, kind)

(* Mutant of ReadMember: the result of the advance is not kept. *)
ReadMemberUnchecked(bs, st, kind) ==
  [st EXCEPT !.values = Append(@, Taken(bs, st, kind)), !.pos = Advanced(bs, @)]

(* member: assigned if the item has the right type; an item of another     *)
(* type is passed over without an error.                                   *)
ReadMember(bs, st, kind) ==
  [pos |-> Advanced(bs, st.pos), err |-> AdvanceFails(bs, st.pos),
   wild |-> st.wild \/ CutText(bs, st, kind),
   values |-> Append(st.values, Taken(bs, st, kind))]

(* The reflect() chain of a message, on a deserializer: after each member, *)
(* and after all of them.                                                  *)
Reading(bs, kinds) ==
  LET st[k \in 0 .. Len(kinds)] ==
        IF k = 0 THEN ReadBegin(bs) ELSE ReadMember(bs, st[k - 1], kinds[k])
  IN  st
Read(bs, kinds) == Reading(bs, kinds)[Len(kinds)]

(* MsgFilter reads the first member alone, into a msgBase that keeps the   *)
(* type prev of the frame before if this one does not assign it.           *)
MsgFilter(type, prev, in) ==
  LET st == Read(fromBytes(in, FilterCapacity), <<"int">>)
      msgType == IF st.values[1] = Unset THEN prev ELSE st.values[1][1]
  IN  ~st.err /\ msgType = type

(* The handler behind the filter acts when success() says so. *)
Decoded(type, in) == Read(fromBytes(in, ReaderOf[type]), Reflect[type])
Handled(type, prev, in) == MsgFilter(type, prev, in) /\ ~Decoded(type, in).err

(* What the sender put into the members. *)
ValuesOf(m) == [i \in DOMAIN m |-> <<m[i].cells[1].val, Tail(m[i].cells)>>]

(* Whatever a serializer sends is handled by the handler of its own type   *)
(* and no other, with the values that were sent and whatever frame came    *)
(* before.  A message that is longer than the reader's buffer passes the   *)
(* filter and is dropped by the handler, even when the cut leaves it with  *)
(* a part of its value, and no handler that the filter lets it into reads  *)
(* a cut text (CborDeserializer.cpp:23-50, :84-90).                        *)
HandledAsSent ==
  \A t \in Threads : (running /\ pc[t] = "encoded") =>
    LET sent == SubSeq(buffer, 1, size)
        own == Own(msg[t])
    IN  \A type, prev \in DOMAIN Reflect :
          /\ Handled(type, prev, sent) <=> type = own /\ Len(sent) <= ReaderOf[own]
          /\ Handled(type, prev, sent) => Decoded(type, sent).values = ValuesOf(msg[t])
          /\ MsgFilter(type, prev, sent) => ~Decoded(type, sent).wild
=============================================================================
