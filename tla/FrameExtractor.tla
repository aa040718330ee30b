--------------------------- MODULE FrameExtractor ---------------------------
(***************************************************************************)
(* The serial framing between microcontroller and proxy: FrameToBytes puts *)
(* each message between two FLAGs (ppp_frame), FrameExtractor finds frames *)
(* again in chunks of bytes of any size (common/Frame.cpp), passes on what *)
(* ppp_deframe accepts and prints the rest.                                *)
(*                                                                         *)
(* A byte is a record [m, i].  [m, 0] and [m, Size + 1] are the FLAGs      *)
(* around message m and [m, 1] .. [m, Size] its stuffed payload and FCS;   *)
(* m = 0 are bytes no frame contains: console text, a 0x7E in it, damaged  *)
(* bytes, and a byte damaged into a FLAG.  The receiver sees only whether  *)
(* a byte is a FLAG and, in ppp_deframe, whether the bytes between two     *)
(* FLAGs are a whole frame; that the FCS tells damage is checked in        *)
(* PppFrame.                                                               *)
(***************************************************************************)
EXTENDS Naturals, Sequences, FiniteSets, SequencesExt

CONSTANTS
  Size,      \* bytes of a frame without its FLAGs; at least 3 pass ppp_deframe
  MaxSent,   \* bound: messages, and bytes 0x7E of console text
  MaxDamage, \* bound: bytes damaged or lost, and frames torn apart
  MaxNoise,  \* bound: other bytes of console text
  MaxStalls  \* bound: times more than _frameTimeout passes since the last FLAG

ASSUME SizeAssumption == Size \in Nat /\ Size >= 3
ASSUME BoundsAssumption ==
  MaxSent \in Nat /\ MaxDamage \in Nat /\ MaxNoise \in Nat /\ MaxStalls \in Nat

VARIABLES
  sent,        \* messages 1 .. sent have been written
  wire,        \* bytes on the line
  chunk,       \* bytes of the current handleRxd call not looked at yet
  inCall,      \* handleRxd is running
  _inputFrame, \* bytes since the last FLAG
  expired,     \* more than _frameTimeout since _lastFrameFlag
  delivered,   \* messages emitted
  stdout,      \* bytes of text that were printed
  damaged,     \* history: messages torn, or with a byte damaged or lost
  noise,       \* history: bytes of text that were put on the line
  tildes,      \* history: bytes 0x7E of console text that were
  damages, stalls \* history: bounds used up

vars == <<sent, wire, chunk, inCall, _inputFrame, expired, delivered, stdout,
          damaged, noise, tildes, damages, stalls>>

Msgs == 1 .. MaxSent
Byte == [m : 0 .. MaxSent, i : 0 .. (Size + 1)]

Text == [m |-> 0, i |-> 1]
StrayFlag == [m |-> 0, i |-> 0]
Tilde == [m |-> 0, i |-> Size + 1]

IsFlag(b) == b.i \in {0, Size + 1}
IsText(b) == b = Text

(* Mutant of Frame: one position too far. *)
FrameShifted(m) == [n \in 1 .. (Size + 2) |-> [m |-> m, i |-> n]]

(* ppp_frame *)
Frame(m) == [n \in 1 .. (Size + 2) |-> [m |-> m, i |-> n - 1]]

(* ppp_deframe accepts exactly the whole, undamaged body of a frame. *)
Body(m) == [n \in 1 .. Size |-> [m |-> m, i |-> n]]
Accepted(bs) == {m \in Msgs : bs = Body(m)}

(* _lastFrameFlag is not initialised: before the first FLAG any time may   *)
(* seem to have passed.                                                    *)
Init ==
  /\ sent = 0 /\ wire = <<>> /\ chunk = <<>> /\ inCall = FALSE
  /\ _inputFrame = <<>>
  /\ expired \in BOOLEAN
  /\ delivered = <<>> /\ stdout = 0
  /\ damaged = {} /\ noise = 0 /\ tildes = 0 /\ damages = 0 /\ stalls = 0

-----------------------------------------------------------------------------
(* The line. *)
Send ==
  /\ sent + tildes < MaxSent
  /\ sent' = sent + 1
  /\ wire' = wire \o Frame(sent + 1)
  /\ UNCHANGED <<chunk, inCall, _inputFrame, expired, delivered, stdout,
                 damaged, noise, tildes, damages, stalls>>

(* In w, after position p, come the first j bytes of f; the rest of them    *)
(* after position q.                                                        *)
Spliced(w, f, p, j, q) ==
  SubSeq(w, 1, p) \o SubSeq(f, 1, j) \o SubSeq(w, p + 1, q)
    \o SubSeq(f, j + 1, Len(f)) \o SubSeq(w, q + 1, Len(w))

(* Two threads write at the same time, in pieces (serial.cpp:180): inside  *)
(* the last frame, after its byte p, comes the next one, or its first j    *)
(* bytes and the rest after more of the first.  The two have no order of   *)
(* their own: the one whose payload begins first is called the first.      *)
(* Counts as damage twice, once for each frame.                            *)
SendInside ==
  /\ sent > 0 /\ sent + tildes < MaxSent /\ damages + 2 <= MaxDamage
  /\ sent' = sent + 1 /\ damages' = damages + 2
  /\ \E p \in 1 .. (Len(wire) - 1), j \in 1 .. (Size + 2), q \in 1 .. Len(wire) :
       /\ IF j = Size + 2 THEN q = p ELSE q > p
       /\ wire[p].m = sent /\ wire[p].i > 0 /\ wire[p + 1].m = sent
       /\ wire' = Spliced(wire, Frame(sent + 1), p, j, q)
       /\ damaged' = damaged \union {sent} \union (IF q = p THEN {} ELSE {sent + 1})
  /\ UNCHANGED <<chunk, inCall, _inputFrame, expired, delivered, stdout,
                 noise, tildes, stalls>>

(* Console output of the microcontroller, between two frames: nothing      *)
(* keeps it from printing the byte of a FLAG.                              *)
Console ==
  /\ \/ noise < MaxNoise /\ noise' = noise + 1 /\ tildes' = tildes
        /\ wire' = Append(wire, Text)
     \/ sent + tildes < MaxSent /\ tildes' = tildes + 1 /\ noise' = noise
        /\ wire' = Append(wire, Tilde)
  /\ UNCHANGED <<sent, chunk, inCall, _inputFrame, expired, delivered, stdout,
                 damaged, damages, stalls>>

(* A byte on the line is lost, or turns into another byte or a FLAG.       *)
Damage ==
  /\ damages < MaxDamage
  /\ damages' = damages + 1
  /\ \E n \in DOMAIN wire :
       /\ wire[n].m # 0
       /\ damaged' = damaged \union {wire[n].m}
       /\ \/ wire' = RemoveAt(wire, n) /\ noise' = noise
          \/ wire' = [wire EXCEPT ![n] = Text] /\ noise' = noise + 1
          \/ wire' = [wire EXCEPT ![n] = StrayFlag] /\ noise' = noise
  /\ UNCHANGED <<sent, chunk, inCall, _inputFrame, expired, delivered, stdout,
                 tildes, stalls>>

-----------------------------------------------------------------------------
(* The receiver. *)

(* SerialSession::invoke: a chunk of what is there, handed to handleRxd. *)
Read(k) ==
  /\ ~inCall
  /\ inCall' = TRUE
  /\ chunk' = SubSeq(wire, 1, k)
  /\ wire' = SubSeq(wire, k + 1, Len(wire))
  /\ UNCHANGED <<sent, _inputFrame, expired, delivered, stdout,
                 damaged, noise, tildes, damages, stalls>>

TextIn(bs) == Cardinality({n \in DOMAIN bs : IsText(bs[n])})

(* Mutant of HandleFrame: bytes that are too short for a frame are dropped. *)
HandleFrameSilent(bs) ==
  /\ delivered' = delivered \o SetToSeq(Accepted(bs))
  /\ stdout' = IF Len(bs) < 3 THEN stdout ELSE stdout + TextIn(bs)

(* handleFrame: emit the payload, or print the bytes. *)
HandleFrame(bs) ==
  /\ delivered' = delivered \o SetToSeq(Accepted(bs))
  /\ stdout' = IF Accepted(bs) = {} THEN stdout + TextIn(bs) ELSE stdout

(* Mutant of HandleFlag: the buffer is kept after a frame was emitted. *)
HandleFlagKeeps ==
  /\ inCall /\ chunk # <<>> /\ IsFlag(Head(chunk))
  /\ chunk' = Tail(chunk)
  /\ expired' = FALSE
  /\ HandleFrame(_inputFrame)
  /\ _inputFrame' = IF Accepted(_inputFrame) = {} THEN <<>> ELSE _inputFrame
  /\ UNCHANGED <<sent, wire, inCall, damaged, noise, tildes, damages, stalls>>

(* Mutant of HandleFlag: a rejected frame stays in the buffer. *)
HandleFlagKeepsRejected ==
  /\ inCall /\ chunk # <<>> /\ IsFlag(Head(chunk))
  /\ chunk' = Tail(chunk)
  /\ expired' = FALSE
  /\ HandleFrame(_inputFrame)
  /\ _inputFrame' = IF Accepted(_inputFrame) = {} THEN _inputFrame ELSE <<>>
  /\ UNCHANGED <<sent, wire, inCall, damaged, noise, tildes, damages, stalls>>

(* handleRxd, one byte: a FLAG ends what has been collected. *)
HandleFlag ==
  /\ inCall /\ chunk # <<>> /\ IsFlag(Head(chunk))
  /\ chunk' = Tail(chunk)
  /\ expired' = FALSE
  /\ HandleFrame(_inputFrame)
  /\ _inputFrame' = <<>>
  /\ UNCHANGED <<sent, wire, inCall, damaged, noise, tildes, damages, stalls>>

HandleByte ==
  /\ inCall /\ chunk # <<>> /\ ~IsFlag(Head(chunk))
  /\ chunk' = Tail(chunk)
  /\ _inputFrame' = Append(_inputFrame, Head(chunk))
  /\ UNCHANGED <<sent, wire, inCall, expired, delivered, stdout,
                 damaged, noise, tildes, damages, stalls>>

(* handleRxd, after the loop: print and drop what is collected too long.   *)
EndOfChunk ==
  /\ inCall /\ chunk = <<>>
  /\ inCall' = FALSE
  /\ IF expired THEN _inputFrame' = <<>> /\ stdout' = stdout + TextIn(_inputFrame)
                ELSE UNCHANGED <<_inputFrame, stdout>>
  /\ UNCHANGED <<sent, wire, chunk, expired, delivered, damaged, noise, tildes, damages, stalls>>

(* The line pauses, or a handler the frame was emitted to takes long.      *)
Stall ==
  /\ stalls < MaxStalls /\ ~expired
  /\ stalls' = stalls + 1
  /\ expired' = TRUE
  /\ UNCHANGED <<sent, wire, chunk, inCall, _inputFrame, delivered, stdout,
                 damaged, noise, tildes, damages>>

Next ==
  \/ Send \/ SendInside \/ Console \/ Damage
  \/ \E k \in 1 .. Len(wire) : Read(k)
  \/ HandleFlag \/ HandleByte \/ EndOfChunk
  \/ Stall

Spec == Init /\ [][Next]_vars

-----------------------------------------------------------------------------
(* Types: only bytes of messages that were sent, and only messages, occur.  *)
TypeOK ==
  /\ sent \in 0 .. MaxSent
  /\ wire \in Seq(Byte) /\ chunk \in Seq(Byte) /\ _inputFrame \in Seq(Byte)
  /\ inCall \in BOOLEAN /\ expired \in BOOLEAN
  /\ delivered \in Seq(Msgs)
  /\ damaged \subseteq Msgs
  /\ stdout \in Nat /\ noise \in Nat /\ tildes \in Nat
  /\ damages \in 0 .. MaxDamage /\ stalls \in 0 .. MaxStalls

(* The extractor implements the channel: no damage, console text, chunk     *)
(* boundary or timeout makes it emit something that was not sent, emit a    *)
(* message twice or emit two in the wrong order.                            *)
Channel == INSTANCE FrameChannel
ImplementsChannel == Channel!CSpec

InTransit == _inputFrame \o chunk \o wire

(* Damage stays local: unless the timeout struck, every message none of     *)
(* whose own bytes (its two FLAGs included) was damaged or torn apart has   *)
(* been emitted by the time its closing FLAG has been looked at, whatever   *)
(* happened to its neighbours or to the frame it was written into.          *)
IntactDelivered ==
  stalls = 0 =>
    \A m \in (1 .. sent) \ damaged :
      Contains(delivered, m) \/ Contains(chunk \o wire, [m |-> m, i |-> Size + 1])

(* Console text other than 0x7E is never swallowed: every byte of it is    *)
(* printed or still under way, also when it is glued to a damaged frame,   *)
(* and when a 0x7E in the text or a FLAG cuts it to pieces too short for a *)
(* frame (Frame.cpp:17-27).  A 0x7E of the text is swallowed: handleRxd    *)
(* takes it for a FLAG (Frame.cpp:30-33), although the project's goals     *)
(* want all data that is not a frame on stdout (src-pico/README.MD:21).    *)
TextButFlagsReachesStdout == stdout + TextIn(InTransit) = noise
=============================================================================
