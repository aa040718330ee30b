------------------------------ MODULE TxPath --------------------------------
(***************************************************************************)
(* From a message to the serial line: the one CborSerializer of a process  *)
(* (common/CborSerializer.cpp), the reflect() chain of a message           *)
(* (common/broker_protocol.h) and Serial::txd (src/serial.cpp), called by  *)
(* every thread that sends.  In the proxy these are the worker thread      *)
(* (src/proxy.cpp:104) and zenoh's thread (src/proxy.cpp:114), which share *)
(* toCbor; on the microcontroller there is one.                            *)
(*                                                                         *)
(* A member is a sequence of cells, one per encoded byte.  A call on the   *)
(* serializer is one step: threads interleave between calls, the mildest   *)
(* outcome of the unsynchronised access.  FrameToBytes only wraps the      *)
(* bytes (PppFrame), so the frame is written here as its contents.         *)
(***************************************************************************)
EXTENDS Naturals, Sequences

CONSTANTS
  Threads,
  Values,     \* what a byte may carry
  Messages,   \* per thread: the sequences of members reflect() may hand over
  Capacity,   \* CborSerializer's buffer, in cells
  MaxMessages \* bound: messages begun

(* A member remembers whether its overload asserts the encoder's result. *)
Kinds == {"open", "close", "int", "text", "blob", "raw"}
Cell == [kind : Kinds, n : Nat, val : Values \union Kinds]
Field == [asserted : BOOLEAN, cells : Seq(Cell) \ {<<>>}]

ASSUME CapacityAssumption == Capacity \in Nat \ {0}
ASSUME MaxMessagesAssumption == MaxMessages \in Nat
ASSUME MessagesAssumption ==
  \A t \in Threads : \A m \in Messages[t] : m \in Seq(Field)

(* The start of an indefinite-length array, and its break. *)
Open == [kind |-> "open", n |-> 0, val |-> "open"]
Close == [kind |-> "close", n |-> 0, val |-> "close"]

VARIABLES
  running, \* no assertion has ended the process
  buffer, cursor, oom, size, \* CborSerializer: _buffer, _encoder, its error state, _size
  pc, msg, field, \* per thread: where it is, its message, the next member
  out,    \* per thread: what txd still has to write
  queue,  \* the kernel's output queue
  wire,   \* what the line has carried
  begun   \* the messages begun, in order

vars == <<running, buffer, cursor, oom, size, pc, msg, field, out, queue, wire, begun>>

(* What a message looks like when nothing disturbs it: the array opened,   *)
(* its members so far, and the whole.                                      *)
Opened(m) ==
  LET cells[k \in 0 .. Len(m)] ==
        IF k = 0 THEN <<Open>> ELSE cells[k - 1] \o m[k].cells
  IN  cells
Encoding(m) == Append(Opened(m)[Len(m)], Close)

Init ==
  /\ running = TRUE
  /\ buffer = <<>> /\ cursor = 0 /\ oom = FALSE /\ size = 0
  /\ pc = [t \in Threads |-> "idle"]
  /\ msg = [t \in Threads |-> <<>>]
  /\ field = [t \in Threads |-> 1]
  /\ out = [t \in Threads |-> <<>>]
  /\ queue = <<>> /\ wire = <<>> /\ begun = <<>>

Goto(t, l) == pc' = [pc EXCEPT ![t] = l]

(* tinycbor appends the cells if they fit, and is out of memory ever after *)
(* if they do not.                                                         *)
Fits(cells) == ~oom /\ cursor + Len(cells) <= Capacity
Append_to_buffer(cells) ==
  IF Fits(cells)
    THEN /\ buffer' = SubSeq(buffer, 1, cursor) \o cells
                        \o SubSeq(buffer, cursor + Len(cells) + 1, Len(buffer))
         /\ cursor' = cursor + Len(cells)
         /\ UNCHANGED oom
    ELSE oom' = TRUE /\ UNCHANGED <<buffer, cursor>>

-----------------------------------------------------------------------------
(* Mutant of Begin: the encoder goes on where the last message ended. *)
BeginAppends(t, m) ==
  /\ running /\ pc[t] = "idle" /\ Len(begun) < MaxMessages
  /\ Append_to_buffer(<<Open>>) /\ running' = Fits(<<Open>>)
  /\ msg' = [msg EXCEPT ![t] = m] /\ field' = [field EXCEPT ![t] = 1]
  /\ begun' = Append(begun, m)
  /\ Goto(t, "member")
  /\ UNCHANGED <<size, out, queue, wire>>

(* begin(): both encoders start at the buffer again. *)
Begin(t, m) ==
  /\ running /\ pc[t] = "idle" /\ Len(begun) < MaxMessages
  /\ buffer' = <<Open>> \o SubSeq(buffer, 2, Len(buffer))
  /\ cursor' = 1 /\ oom' = FALSE
  /\ msg' = [msg EXCEPT ![t] = m] /\ field' = [field EXCEPT ![t] = 1]
  /\ begun' = Append(begun, m)
  /\ Goto(t, "member")
  /\ UNCHANGED <<running, size, out, queue, wire>>

(* Mutant of Member: a string that does not fit is left out, and the       *)
(* encoder goes on behind it.                                              *)
MemberSkips(t) ==
  /\ running /\ pc[t] = "member" /\ field[t] <= Len(msg[t])
  /\ LET f == msg[t][field[t]]
     IN  /\ IF Fits(f.cells) \/ f.asserted THEN Append_to_buffer(f.cells)
                                           ELSE UNCHANGED <<buffer, cursor, oom>>
         /\ running' = (Fits(f.cells) \/ ~f.asserted)
  /\ field' = [field EXCEPT ![t] = @ + 1]
  /\ UNCHANGED <<size, pc, msg, out, queue, wire, begun>>

(* member(): every overload asserts except the one for strings. *)
Member(t) ==
  /\ running /\ pc[t] = "member" /\ field[t] <= Len(msg[t])
  /\ LET f == msg[t][field[t]]
     IN  Append_to_buffer(f.cells) /\ running' = (Fits(f.cells) \/ ~f.asserted)
  /\ field' = [field EXCEPT ![t] = @ + 1]
  /\ UNCHANGED <<size, pc, msg, out, queue, wire, begun>>

(* Mutant of End: the result of closing the array is not asserted; the     *)
(* size of an encoder out of memory is past the buffer.                    *)
EndUnasserted(t) ==
  /\ running /\ pc[t] = "member" /\ field[t] > Len(msg[t])
  /\ Append_to_buffer(<<Close>>)
  /\ size' = IF Fits(<<Close>>) THEN cursor + 1 ELSE Capacity + 1
  /\ Goto(t, "encoded")
  /\ UNCHANGED <<running, msg, field, out, queue, wire, begun>>

End(t) ==
  /\ running /\ pc[t] = "member" /\ field[t] > Len(msg[t])
  /\ Append_to_buffer(<<Close>>) /\ running' = Fits(<<Close>>)
  /\ size' = IF Fits(<<Close>>) THEN cursor + 1 ELSE size
  /\ Goto(t, "encoded")
  /\ UNCHANGED <<msg, field, out, queue, wire, begun>>

(* toBytes(), and on through FrameToBytes into Serial::txd. *)
ToBytes(t) ==
  /\ running /\ pc[t] = "encoded"
  /\ out' = [out EXCEPT ![t] = SubSeq(buffer, 1, size)]
  /\ Goto(t, "write")
  /\ UNCHANGED <<running, buffer, cursor, oom, size, msg, field, queue, wire, begun>>

serializer == <<running, buffer, cursor, oom, size, msg, field, begun>>

(* Mutant of Write: a short write does not advance the buffer. *)
WriteAgain(t) ==
  /\ running /\ pc[t] = "write"
  /\ \E n \in 1 .. Len(out[t]) :
       /\ queue' = queue \o SubSeq(out[t], 1, n)
       /\ UNCHANGED out
       /\ Goto(t, IF n = Len(out[t]) THEN "flush" ELSE "drain")
  /\ UNCHANGED <<serializer, wire>>

(* write() takes some of the bytes; when not all, txd drains and goes on.  *)
(* EAGAIN takes none, which is draining and trying again.                  *)
Write(t) ==
  /\ running /\ pc[t] = "write"
  /\ \E n \in 0 .. Len(out[t]) :
       /\ queue' = queue \o SubSeq(out[t], 1, n)
       /\ out' = [out EXCEPT ![t] = SubSeq(@, n + 1, Len(@))]
       /\ Goto(t, IF n = Len(out[t]) THEN "flush" ELSE "drain")
  /\ UNCHANGED <<serializer, wire>>

(* tcdrain() returns once the queue has been sent. *)
Drain(t) ==
  /\ running /\ pc[t] = "drain" /\ queue = <<>>
  /\ Goto(t, "write")
  /\ UNCHANGED <<serializer, out, queue, wire>>

(* write() fails: txd returns the error, which no caller looks at. *)
WriteFailed(t) ==
  /\ running /\ pc[t] = "write"
  /\ out' = [out EXCEPT ![t] = <<>>]
  /\ Goto(t, "idle")
  /\ UNCHANGED <<serializer, queue, wire>>

(* fsync() does nothing on a tty; tcflush(TCOFLUSH) throws away what has   *)
(* been written and not sent (a driver may also ignore it).                *)
Flush(t) ==
  /\ running /\ pc[t] = "flush"
  /\ queue' \in {<<>>, queue}
  /\ Goto(t, "idle")
  /\ UNCHANGED <<serializer, out, wire>>

(* The line sends from the queue. *)
Transmit ==
  /\ queue # <<>>
  /\ wire' = Append(wire, Head(queue)) /\ queue' = Tail(queue)
  /\ UNCHANGED <<serializer, pc, out>>

Send(t) ==
  \/ \E m \in Messages[t] : Begin(t, m)
  \/ Member(t) \/ End(t) \/ ToBytes(t)
  \/ Write(t) \/ Drain(t) \/ WriteFailed(t) \/ Flush(t)

Next == Transmit \/ \E t \in Threads : Send(t)

Spec == Init /\ [][Next]_vars

-----------------------------------------------------------------------------
Labels == {"idle", "member", "encoded", "write", "drain", "flush"}

(* Types: the encoder and the encoded size stay within the buffer.  It is  *)
(* the only thing between a long sample and a read past the allocation in  *)
(* toBytes (CborSerializer.cpp:75).                                        *)
TypeOK ==
  /\ running \in BOOLEAN /\ oom \in BOOLEAN
  /\ buffer \in Seq(Cell) /\ Len(buffer) <= Capacity
  /\ cursor \in 0 .. Len(buffer) /\ size \in 0 .. Len(buffer)
  /\ pc \in [Threads -> Labels]
  /\ msg \in [Threads -> Seq(Field)] /\ field \in [Threads -> Nat]
  /\ \A t \in Threads : field[t] \in 1 .. Len(msg[t]) + 1
  /\ out \in [Threads -> Seq(Cell)] /\ queue \in Seq(Cell) /\ wire \in Seq(Cell)
  /\ begun \in Seq(Seq(Field)) /\ Len(begun) <= MaxMessages

(* What toBytes returns is the message its thread serialized, whole: the   *)
(* string overload does not assert (CborSerializer.cpp:40-44) and goes on, *)
(* yet no message that a string did not fit leaves the serializer.         *)
FrameIsMessage ==
  \A t \in Threads :
    (running /\ pc[t] = "encoded") => SubSeq(buffer, 1, size) = Encoding(msg[t])

(* The process is ended by an assertion only on a message that does not    *)
(* fit the serializer (CborSerializer.cpp:56, :70).                        *)
AbortsOnlyTooLong ==
  ~running => \E t \in Threads : Len(Encoding(msg[t])) > Capacity

(* Cuts of the encodings of the messages begun, in their order. *)
IsCutOf(w, s) == \E n \in 0 .. Len(s) : w = SubSeq(s, 1, n)
Pieces(w, k) == { c \in [1 .. k -> 0 .. Len(w)] :
                    c[k] = Len(w) /\ \A i \in 1 .. k - 1 : c[i] <= c[i + 1] }
Piece(w, c, i) == SubSeq(w, (IF i = 1 THEN 0 ELSE c[i - 1]) + 1, c[i])

(* The line carries, for each message begun and in that order, its         *)
(* encoding or a leading part of it: short writes and retries in txd       *)
(* (serial.cpp:177-196) neither repeat nor skip a byte within a frame,     *)
(* whatever is thrown away by an error or by tcflush.                      *)
WireCarriesLeadingParts ==
  IF begun = <<>> THEN wire = <<>>
  ELSE \E c \in Pieces(wire, Len(begun)) :
         \A i \in DOMAIN begun : IsCutOf(Piece(wire, c, i), Encoding(begun[i]))
=============================================================================
