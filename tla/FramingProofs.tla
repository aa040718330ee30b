---------------------------- MODULE FramingProofs ----------------------------
(***************************************************************************)
(* Proofs about frames on the line and inside.                             *)
(*                                                                         *)
(* First FrameExtractor, for any number and size of frames, any damage,    *)
(* any console text, any chunks and any timeouts.                          *)
(*                                                                         *)
(* Then the frame format, PppFrame, for every payload of bytes: the table  *)
(* of class Fcs computes the CRC of RFC 1662, ppp_deframe undoes ppp_frame,*)
(* and a frame in which one or two neighbouring ordinary bytes were        *)
(* replaced by others is rejected.  The argument: ^ is a commutative group *)
(* operation on 16-bit words (by the bits of a number); a step of the CRC  *)
(* is linear in it and injective; so is the CRC of a byte, and the table,  *)
(* read off its entries for the eight powers of two, is this CRC.          *)
(* Fcs::write is then injective in the state and in the byte: two loops    *)
(* that differ in one decoded byte end with different FCSs, and only one   *)
(* FCS is accepted.                                                        *)
(***************************************************************************)
EXTENDS FrameExtractor, PppFrame, Recursion, FiniteSetTheorems, SequenceTheorems, TLAPS

-----------------------------------------------------------------------------
(* Sequences of bytes. *)

LEMMA RemovalType ==
  ASSUME NEW S, NEW s \in Seq(S), NEW n \in DOMAIN s
  PROVE  RemoveAt(s, n) \in Seq(S)
  BY DEF RemoveAt

(* One byte behind others. *)
LEMMA OneMore ==
  ASSUME NEW S, NEW s \in Seq(S), NEW b \in S
  PROVE  Append(s, b) = s \o <<b>> /\ <<b>> \in Seq(S)
  OBVIOUS

(* A frame is a sequence of bytes. *)
LEMMA FrameType ==
  ASSUME NEW m \in 1 .. MaxSent
  PROVE  Frame(m) \in Seq(Byte) /\ Len(Frame(m)) = Size + 2
<1>1. Size + 2 \in Nat
  BY SizeAssumption
<1>2. \A n \in 1 .. (Size + 2) : [m |-> m, i |-> n - 1] \in Byte
  BY SizeAssumption, BoundsAssumption DEF Byte
<1> QED
  BY <1>1, <1>2 DEF Frame

(* Console text, a 0x7E in it and a stray FLAG are bytes. *)
LEMMA SpecialBytes == Text \in Byte /\ StrayFlag \in Byte /\ Tilde \in Byte
  BY SizeAssumption, BoundsAssumption DEF Text, StrayFlag, Tilde, Byte

(* ppp_deframe accepts at most one message. *)
LEMMA AcceptedIsOne ==
  ASSUME NEW bs
  PROVE  /\ Accepted(bs) = {} => SetToSeq(Accepted(bs)) = <<>>
         /\ \A m \in Accepted(bs) : /\ m \in Msgs /\ bs = Body(m)
                                    /\ Accepted(bs) = {m} /\ SetToSeq(Accepted(bs)) = <<m>>
<1>1. ASSUME Accepted(bs) = {} PROVE SetToSeq(Accepted(bs)) = <<>>
  <2>1. Cardinality({}) = 0
    BY FS_EmptySet
  <2>2. <<>> \in [1 .. 0 -> {}] /\ IsInjective(<<>>)
    BY DEF IsInjective
  <2>3. ASSUME NEW f \in [1 .. 0 -> {}] PROVE f = <<>>
    <3>1. f \in Seq({}) /\ Len(f) = 0
      OBVIOUS
    <3> QED
      BY <3>1
  <2> QED
    BY <1>1, <2>1, <2>2, <2>3 DEF SetToSeq
<1>2. ASSUME NEW m \in Accepted(bs)
      PROVE  /\ m \in Msgs /\ bs = Body(m)
             /\ Accepted(bs) = {m} /\ SetToSeq(Accepted(bs)) = <<m>>
  <2>1. m \in Msgs /\ bs = Body(m)
    BY DEF Accepted
  <2>2. ASSUME NEW k \in Accepted(bs) PROVE k = m
    <3>1. Body(k) = Body(m) /\ 1 \in 1 .. Size
      BY <2>1, SizeAssumption DEF Accepted
    <3>2. Body(k)[1] = Body(m)[1]
      BY <3>1
    <3>3. Body(k)[1] = [m |-> k, i |-> 1] /\ Body(m)[1] = [m |-> m, i |-> 1]
      BY <3>1 DEF Body
    <3>4. [m |-> k, i |-> 1].m = k /\ [m |-> m, i |-> 1].m = m
      OBVIOUS
    <3> QED
      BY <3>2, <3>3, <3>4
  <2>3. Accepted(bs) = {m}
    BY <2>2
  <2>4. Cardinality({m}) = 1
    BY FS_Singleton
  <2>5. SetToSeq({m}) = <<m>>
    <3>1. <<m>> \in [1 .. 1 -> {m}] /\ IsInjective(<<m>>)
      BY DEF IsInjective
    <3>2. \A f \in [1 .. 1 -> {m}] : f = <<m>>
      OBVIOUS
    <3> QED
      BY <2>4, <3>1, <3>2 DEF SetToSeq
  <2> QED
    BY <2>1, <2>3, <2>5
<1> QED
  BY <1>1, <1>2

-----------------------------------------------------------------------------
(* The steps, one by one, keep the types. *)
LEMMA InitType == Init => TypeOK
<1> SUFFICES ASSUME Init PROVE TypeOK
  OBVIOUS
<1>1. /\ sent = 0 /\ wire = <<>> /\ chunk = <<>> /\ _inputFrame = <<>> /\ delivered = <<>>
      /\ damaged = {} /\ stdout = 0 /\ noise = 0 /\ tildes = 0 /\ damages = 0
      /\ stalls = 0 /\ inCall \in BOOLEAN /\ expired \in BOOLEAN
  BY DEF Init
<1> QED
  BY <1>1, BoundsAssumption DEF TypeOK

(* There is room for one more message. *)
LEMMA RoomToSend ==
  ASSUME TypeOK, sent + tildes < MaxSent
  PROVE  sent + 1 \in 1 .. MaxSent
  BY BoundsAssumption DEF TypeOK

LEMMA SendType == TypeOK /\ Send => TypeOK'
<1> SUFFICES ASSUME TypeOK, Send PROVE TypeOK'
  OBVIOUS
<1>1. sent + 1 \in 1 .. MaxSent
  BY RoomToSend DEF Send
<1>2. Frame(sent + 1) \in Seq(Byte)
  BY <1>1, FrameType
<1> QED
  BY <1>1, <1>2 DEF Send, TypeOK

(* Putting one frame inside another in two parts. *)
LEMMA SplicedType ==
  ASSUME NEW S, NEW w \in Seq(S), NEW f \in Seq(S), NEW p \in 0 .. Len(w),
         NEW j \in 0 .. Len(f), NEW q \in p .. Len(w)
  PROVE  Spliced(w, f, p, j, q) \in Seq(S)
<1>1. /\ SubSeq(w, 1, p) \in Seq(S) /\ SubSeq(f, 1, j) \in Seq(S)
      /\ SubSeq(w, p + 1, q) \in Seq(S) /\ SubSeq(f, j + 1, Len(f)) \in Seq(S)
      /\ SubSeq(w, q + 1, Len(w)) \in Seq(S)
  OBVIOUS
<1> QED
  BY <1>1 DEF Spliced

(* Where a frame can be written into another. *)
LEMMA SendInsideBounds ==
  TypeOK /\ SendInside =>
    /\ sent \in 1 .. (MaxSent - 1) /\ sent' = sent + 1
    /\ damages + 2 <= MaxDamage /\ damages' = damages + 2
    /\ chunk' = chunk /\ _inputFrame' = _inputFrame
<1> SUFFICES ASSUME TypeOK, SendInside
             PROVE  sent \in 1 .. (MaxSent - 1)
  BY DEF SendInside
<1>1. sent + 1 \in 1 .. MaxSent /\ sent > 0 /\ sent \in Nat
  BY RoomToSend DEF SendInside, TypeOK
<1> QED
  BY <1>1, BoundsAssumption

LEMMA SendInsideType == TypeOK /\ SendInside => TypeOK'
<1> SUFFICES ASSUME TypeOK, SendInside PROVE TypeOK'
  OBVIOUS
<1>1. sent + 1 \in Msgs /\ sent \in Msgs
  BY SendInsideBounds, BoundsAssumption DEF Msgs
<1>2. PICK p \in 1 .. (Len(wire) - 1), j \in 1 .. (Size + 2), q \in 1 .. Len(wire) :
        /\ IF j = Size + 2 THEN q = p ELSE q > p
        /\ wire' = Spliced(wire, Frame(sent + 1), p, j, q)
        /\ damaged' = damaged \union {sent} \union (IF q = p THEN {} ELSE {sent + 1})
  BY DEF SendInside
<1>3. Frame(sent + 1) \in Seq(Byte) /\ Len(Frame(sent + 1)) = Size + 2 /\ Size \in Nat
  BY <1>1, FrameType, SizeAssumption DEF Msgs
<1>4. wire \in Seq(Byte) /\ p \in 0 .. Len(wire) /\ q \in p .. Len(wire)
  BY <1>2 DEF TypeOK
<1>5. wire' \in Seq(Byte)
  <2>1. j \in 0 .. Len(Frame(sent + 1))
    BY <1>3
  <2>2. Spliced(wire, Frame(sent + 1), p, j, q) \in Seq(Byte)
    BY <1>3, <1>4, <2>1, SplicedType
  <2> QED
    BY <1>2, <2>2
<1>6. damages' \in 0 .. MaxDamage /\ sent' \in 0 .. MaxSent
  <2>1. damages \in 0 .. MaxDamage
    BY DEF TypeOK
  <2> QED
    BY <2>1, SendInsideBounds, BoundsAssumption
<1>7. damaged' \subseteq Msgs
  BY <1>1, <1>2 DEF TypeOK
<1> QED
  BY <1>5, <1>6, <1>7 DEF SendInside, TypeOK

LEMMA DamageType == TypeOK /\ Damage => TypeOK'
<1> SUFFICES ASSUME TypeOK, Damage PROVE TypeOK'
  OBVIOUS
<1>1. PICK n \in DOMAIN wire :
        /\ wire[n].m # 0 /\ damaged' = damaged \union {wire[n].m}
        /\ \/ wire' = RemoveAt(wire, n) /\ noise' = noise
           \/ wire' = [wire EXCEPT ![n] = Text] /\ noise' = noise + 1
           \/ wire' = [wire EXCEPT ![n] = StrayFlag] /\ noise' = noise
  BY DEF Damage
<1>2. wire \in Seq(Byte) /\ wire[n] \in Byte
  BY DEF TypeOK
<1>3. wire' \in Seq(Byte)
  <2>1. CASE wire' = RemoveAt(wire, n)
    BY <1>2, <2>1, RemovalType
  <2>2. ASSUME NEW b \in Byte, wire' = [wire EXCEPT ![n] = b] PROVE wire' \in Seq(Byte)
    BY <1>2, <2>2
  <2> QED
    BY <1>1, <2>1, <2>2, SpecialBytes
<1>4. wire[n].m \in Msgs
  BY <1>1, <1>2, BoundsAssumption DEF Byte, Msgs
<1> QED
  BY <1>1, <1>3, <1>4, BoundsAssumption, SMTT(20) DEF Damage, TypeOK

LEMMA ReadType == TypeOK /\ (\E k \in 1 .. Len(wire) : Read(k)) => TypeOK'
<1> SUFFICES ASSUME TypeOK, NEW k \in 1 .. Len(wire), Read(k) PROVE TypeOK'
  OBVIOUS
<1>1. SubSeq(wire, 1, k) \in Seq(Byte) /\ SubSeq(wire, k + 1, Len(wire)) \in Seq(Byte)
  BY DEF TypeOK
<1> QED
  BY <1>1 DEF Read, TypeOK

(* The number of text bytes in a piece of the line. *)
LEMMA TextInType == ASSUME NEW bs \in Seq(Byte) PROVE TextIn(bs) \in Nat
<1> DEFINE S == {n \in DOMAIN bs : IsText(bs[n])}
<1>1. IsFiniteSet(DOMAIN bs)
  BY FS_Interval
<1>2. IsFiniteSet(S)
  BY <1>1, FS_Subset
<1> QED
  BY <1>2, FS_CardinalityType DEF TextIn

LEMMA HandleFlagType == TypeOK /\ HandleFlag => TypeOK'
<1> SUFFICES ASSUME TypeOK, HandleFlag PROVE TypeOK'
  OBVIOUS
<1>1. TextIn(_inputFrame) \in Nat
  BY TextInType DEF TypeOK
<1>2. delivered' \in Seq(Msgs) /\ stdout' \in Nat
  <2>1. /\ delivered' = delivered \o SetToSeq(Accepted(_inputFrame))
        /\ stdout' \in {stdout, stdout + TextIn(_inputFrame)}
    BY DEF HandleFlag, HandleFrame
  <2>2. SetToSeq(Accepted(_inputFrame)) \in Seq(Msgs)
    <3>1. CASE Accepted(_inputFrame) = {}
      <4>1. SetToSeq(Accepted(_inputFrame)) = <<>>
        BY <3>1, AcceptedIsOne
      <4> QED
        BY <4>1
    <3>2. ASSUME NEW m \in Accepted(_inputFrame)
          PROVE  SetToSeq(Accepted(_inputFrame)) \in Seq(Msgs)
      <4>1. m \in Msgs /\ SetToSeq(Accepted(_inputFrame)) = <<m>>
        BY AcceptedIsOne
      <4> QED
        BY <4>1
    <3> QED
      BY <3>1, <3>2
  <2> QED
    BY <1>1, <2>1, <2>2 DEF TypeOK
<1>3. chunk' \in Seq(Byte) /\ _inputFrame' \in Seq(Byte)
  BY DEF HandleFlag, TypeOK
<1> QED
  BY <1>2, <1>3 DEF HandleFlag, TypeOK

LEMMA OtherTypes ==
  TypeOK /\ (Console \/ HandleByte \/ EndOfChunk \/ Stall) => TypeOK'
<1> SUFFICES ASSUME TypeOK, Console \/ HandleByte \/ EndOfChunk \/ Stall PROVE TypeOK'
  OBVIOUS
<1>1. CASE Console
  <2>1. /\ Append(wire, Text) \in Seq(Byte) /\ Append(wire, Tilde) \in Seq(Byte)
        /\ noise + 1 \in Nat /\ tildes + 1 \in Nat
    BY SpecialBytes DEF TypeOK
  <2> QED
    BY <1>1, <2>1 DEF Console, TypeOK
<1>2. CASE HandleByte
  <2>1. Head(chunk) \in Byte /\ Tail(chunk) \in Seq(Byte)
    BY <1>2 DEF HandleByte, TypeOK
  <2> QED
    BY <1>2, <2>1 DEF HandleByte, TypeOK
<1>3. CASE EndOfChunk
  <2>1. TextIn(_inputFrame) \in Nat
    BY TextInType DEF TypeOK
  <2>2. \/ _inputFrame' = <<>> /\ stdout' = stdout + TextIn(_inputFrame)
        \/ _inputFrame' = _inputFrame /\ stdout' = stdout
    BY <1>3, Zenon DEF EndOfChunk
  <2>3. _inputFrame' \in Seq(Byte) /\ stdout' \in Nat
    <3>1. stdout + TextIn(_inputFrame) \in Nat /\ stdout \in Nat /\ _inputFrame \in Seq(Byte)
      BY <2>1 DEF TypeOK
    <3>2. <<>> \in Seq(Byte)
      OBVIOUS
    <3> QED
      BY <2>2, <3>1, <3>2
  <2> QED
    BY <1>3, <2>3 DEF EndOfChunk, TypeOK
<1>4. CASE Stall
  BY <1>4, BoundsAssumption DEF Stall, TypeOK
<1> QED
  BY <1>1, <1>2, <1>3, <1>4

(* Type correctness, with the bounds on the history of faults: only bytes   *)
(* that were written, and only messages, occur on either side.              *)
THEOREM FramingTypes == Spec => []TypeOK
<1>1. TypeOK /\ [Next]_vars => TypeOK'
  <2> SUFFICES ASSUME TypeOK, [Next]_vars PROVE TypeOK'
    OBVIOUS
  <2>1. CASE UNCHANGED vars
    BY <2>1 DEF vars, TypeOK
  <2> QED
    BY <2>1, SendType, SendInsideType, DamageType, ReadType, HandleFlagType, OtherTypes
       DEF Next
<1> QED
  BY <1>1, InitType, PTL DEF Spec

-----------------------------------------------------------------------------
(* Counting text: the number of text bytes of two pieces is the sum of      *)
(* theirs.                                                                  *)
TextAt(bs) == {n \in DOMAIN bs : IsText(bs[n])}

(* The text bytes of a sequence are finitely many. *)
LEMMA TextAtFinite ==
  ASSUME NEW bs \in Seq(Byte)
  PROVE  IsFiniteSet(TextAt(bs)) /\ TextIn(bs) = Cardinality(TextAt(bs)) /\ TextIn(bs) \in Nat
<1>1. IsFiniteSet(DOMAIN bs)
  BY FS_Interval
<1>2. IsFiniteSet(TextAt(bs))
  BY <1>1, FS_Subset DEF TextAt
<1> QED
  BY <1>2, TextInType DEF TextIn, TextAt

(* The counts of two sequences add up. *)
LEMMA TextInConcat ==
  ASSUME NEW s \in Seq(Byte), NEW t \in Seq(Byte)
  PROVE  s \o t \in Seq(Byte) /\ TextIn(s \o t) = TextIn(s) + TextIn(t)
<1> DEFINE shifted == {n + Len(s) : n \in TextAt(t)}
<1>1. TextAt(s \o t) = TextAt(s) \union shifted
  <2>1. ASSUME NEW n \in TextAt(s \o t) PROVE n \in TextAt(s) \union shifted
    <3>1. n \in 1 .. (Len(s) + Len(t)) /\ IsText((s \o t)[n])
      BY DEF TextAt
    <3>2. CASE n <= Len(s)
      BY <3>1, <3>2 DEF TextAt
    <3>3. CASE n > Len(s)
      <4>1. n - Len(s) \in DOMAIN t /\ (s \o t)[n] = t[n - Len(s)]
        BY <3>1, <3>3
      <4>2. n - Len(s) \in TextAt(t) /\ n = (n - Len(s)) + Len(s)
        BY <3>1, <4>1 DEF TextAt
      <4> QED
        BY <4>2
    <3> QED
      BY <3>1, <3>2, <3>3
  <2>2. ASSUME NEW n \in TextAt(s) PROVE n \in TextAt(s \o t)
    <3>1. n \in DOMAIN s /\ n \in DOMAIN (s \o t) /\ (s \o t)[n] = s[n] /\ IsText(s[n])
      BY DEF TextAt
    <3> QED
      BY <3>1 DEF TextAt
  <2>3. ASSUME NEW n \in TextAt(t) PROVE n + Len(s) \in TextAt(s \o t)
    <3>1. /\ n \in DOMAIN t /\ n + Len(s) \in DOMAIN (s \o t)
          /\ (s \o t)[n + Len(s)] = t[n] /\ IsText(t[n])
      BY DEF TextAt
    <3> QED
      BY <3>1 DEF TextAt
  <2> QED
    BY <2>1, <2>2, <2>3
<1>2. TextAt(s) \intersect shifted = {}
  BY DEF TextAt
<1>3. IsFiniteSet(shifted) /\ Cardinality(shifted) = Cardinality(TextAt(t))
  <2> DEFINE f == [n \in TextAt(t) |-> n + Len(s)]
  <2>1. TextAt(t) \subseteq Nat /\ Len(s) \in Nat
    BY DEF TextAt
  <2>2. f \in Bijection(TextAt(t), shifted)
    BY <2>1 DEF Bijection, Injection, Surjection, IsInjective
  <2>3. ExistsBijection(TextAt(t), shifted)
    BY <2>2 DEF ExistsBijection
  <2> HIDE DEF shifted, f
  <2> QED
    BY <2>3, TextAtFinite, FS_Bijection
<1> HIDE DEF shifted
<1>4. Cardinality(TextAt(s \o t)) = Cardinality(TextAt(s)) + Cardinality(TextAt(t))
  <2>1. Cardinality(TextAt(s) \union shifted)
          = Cardinality(TextAt(s)) + Cardinality(shifted) - Cardinality({})
    BY <1>2, <1>3, TextAtFinite, FS_Union
  <2>2. Cardinality({}) = 0 /\ Cardinality(TextAt(s)) \in Nat /\ Cardinality(TextAt(t)) \in Nat
    BY FS_EmptySet, TextAtFinite
  <2> QED
    BY <1>1, <1>3, <2>1, <2>2
<1>5. s \o t \in Seq(Byte)
  OBVIOUS
<1> QED
  BY <1>4, <1>5, TextAtFinite

(* A sequence without text counts nothing. *)
LEMMA TextInNone ==
  ASSUME NEW bs \in Seq(Byte), \A n \in DOMAIN bs : ~IsText(bs[n])
  PROVE  TextIn(bs) = 0
<1>1. TextAt(bs) = {}
  BY DEF TextAt
<1> QED
  BY <1>1, TextAtFinite, FS_EmptySet

(* A sequence of one byte. *)
LEMMA TextInOne ==
  ASSUME NEW b \in Byte
  PROVE  <<b>> \in Seq(Byte) /\ TextIn(<<b>>) = IF IsText(b) THEN 1 ELSE 0
<1>1. <<b>> \in Seq(Byte) /\ DOMAIN <<b>> = {1} /\ <<b>>[1] = b
  OBVIOUS
<1>2. CASE IsText(b)
  <2>1. TextAt(<<b>>) = {1}
    BY <1>1, <1>2 DEF TextAt
  <2> QED
    BY <1>1, <1>2, <2>1, TextAtFinite, FS_Singleton
<1>3. CASE ~IsText(b)
  <2>1. TextIn(<<b>>) = 0
    BY <1>1, <1>3, TextInNone
  <2> QED
    BY <1>1, <1>3, <2>1
<1> QED
  BY <1>2, <1>3

(* Cutting a sequence does not change the count. *)
LEMMA TextInCut ==
  ASSUME NEW s \in Seq(Byte), NEW a \in 0 .. Len(s), NEW b \in a .. Len(s)
  PROVE  TextIn(SubSeq(s, 1, b)) = TextIn(SubSeq(s, 1, a)) + TextIn(SubSeq(s, a + 1, b))
<1>1. SubSeq(s, 1, a) \in Seq(Byte) /\ SubSeq(s, a + 1, b) \in Seq(Byte)
  OBVIOUS
<1>2. SubSeq(s, 1, b) = SubSeq(s, 1, a) \o SubSeq(s, a + 1, b)
  OBVIOUS
<1> QED
  BY <1>1, <1>2, TextInConcat

(* The count of a sequence cut in two. *)
LEMMA TextInHalves ==
  ASSUME NEW s \in Seq(Byte), NEW a \in 0 .. Len(s)
  PROVE  TextIn(s) = TextIn(SubSeq(s, 1, a)) + TextIn(SubSeq(s, a + 1, Len(s)))
<1>1. SubSeq(s, 1, Len(s)) = s /\ Len(s) \in a .. Len(s)
  OBVIOUS
<1> QED
  BY <1>1, TextInCut

(* The bytes of a frame are no text, nor is its body. *)
LEMMA FrameHasNoText ==
  ASSUME NEW m \in 1 .. MaxSent
  PROVE  /\ \A n \in DOMAIN Frame(m) : ~IsText(Frame(m)[n])
         /\ \A n \in DOMAIN Body(m) : ~IsText(Body(m)[n])
<1>1. ASSUME NEW i PROVE [m |-> m, i |-> i] # Text
  <2>1. [m |-> m, i |-> i].m = m /\ Text.m = 0 /\ m # 0
    BY DEF Text
  <2> QED
    BY <2>1
<1> QED
  BY <1>1 DEF Frame, Body, IsText

(* Splicing a sequence without text into another keeps the count. *)
LEMMA TextInSpliced ==
  ASSUME NEW w \in Seq(Byte), NEW f \in Seq(Byte), NEW p \in 0 .. Len(w),
         NEW j \in 0 .. Len(f), NEW q \in p .. Len(w),
         \A n \in DOMAIN f : ~IsText(f[n])
  PROVE  TextIn(Spliced(w, f, p, j, q)) = TextIn(w)
<1> DEFINE w1 == SubSeq(w, 1, p)
           w2 == SubSeq(w, p + 1, q)
           w3 == SubSeq(w, q + 1, Len(w))
           f1 == SubSeq(f, 1, j)
           f2 == SubSeq(f, j + 1, Len(f))
<1>1. /\ w1 \in Seq(Byte) /\ w2 \in Seq(Byte) /\ w3 \in Seq(Byte)
      /\ f1 \in Seq(Byte) /\ f2 \in Seq(Byte)
  OBVIOUS
<1>2. TextIn(f1) = 0 /\ TextIn(f2) = 0
  <2>1. \A n \in DOMAIN f1 : ~IsText(f1[n])
    OBVIOUS
  <2>2. \A n \in DOMAIN f2 : ~IsText(f2[n])
    OBVIOUS
  <2> HIDE DEF f1, f2
  <2> QED
    BY <1>1, <2>1, <2>2, TextInNone
<1>3. TextIn(w) = TextIn(w1) + TextIn(w2) + TextIn(w3)
  <2>1. q \in 0 .. Len(w)
    OBVIOUS
  <2>2. TextIn(w) = TextIn(SubSeq(w, 1, q)) + TextIn(w3)
    BY <2>1, TextInHalves
  <2>3. TextIn(SubSeq(w, 1, q)) = TextIn(w1) + TextIn(w2)
    BY TextInCut
  <2> QED
    BY <2>2, <2>3
<1>4. Spliced(w, f, p, j, q) = w1 \o f1 \o w2 \o f2 \o w3
  BY DEF Spliced
<1> HIDE DEF w1, w2, w3, f1, f2
<1>5. /\ w1 \o f1 \in Seq(Byte) /\ TextIn(w1 \o f1) = TextIn(w1)
  BY <1>1, <1>2, TextInConcat, TextAtFinite
<1>6. /\ w1 \o f1 \o w2 \in Seq(Byte) /\ TextIn(w1 \o f1 \o w2) = TextIn(w1) + TextIn(w2)
  BY <1>1, <1>5, TextInConcat
<1>7. /\ w1 \o f1 \o w2 \o f2 \in Seq(Byte)
      /\ TextIn(w1 \o f1 \o w2 \o f2) = TextIn(w1) + TextIn(w2)
  <2> DEFINE front == w1 \o f1 \o w2
  <2>1. front \in Seq(Byte) /\ TextIn(front) = TextIn(w1) + TextIn(w2)
    BY <1>6
  <2> HIDE DEF front
  <2>2. front \o f2 \in Seq(Byte) /\ TextIn(front \o f2) = TextIn(front) + TextIn(f2)
    BY <1>1, <2>1, TextInConcat
  <2>3. TextIn(w1) \in Nat /\ TextIn(w2) \in Nat
    BY <1>1, TextAtFinite
  <2> QED
    BY <1>2, <2>1, <2>2, <2>3 DEF front
<1> QED
  BY <1>1, <1>3, <1>4, <1>7, TextInConcat

(* A sequence that agrees with its beginning, a byte and its end. *)
LEMMA JoinedAt ==
  ASSUME NEW S, NEW v \in Seq(S), NEW u \in Seq(S), NEW t \in Seq(S),
         Len(v) = Len(u) + Len(t),
         \A k \in 1 .. Len(u) : v[k] = u[k],
         \A k \in 1 .. Len(t) : v[Len(u) + k] = t[k]
  PROVE  v = u \o t
<1>1. u \o t \in Seq(S) /\ Len(u \o t) = Len(v)
  OBVIOUS
<1>2. ASSUME NEW k \in 1 .. Len(v) PROVE (u \o t)[k] = v[k]
  <2>1. CASE k <= Len(u)
    BY <2>1
  <2>2. CASE k > Len(u)
    <3>1. k - Len(u) \in 1 .. Len(t) /\ (u \o t)[k] = t[k - Len(u)]
      BY <2>2
    <3>2. v[Len(u) + (k - Len(u))] = t[k - Len(u)]
      BY <3>1
    <3>3. Len(u) + (k - Len(u)) = k
      OBVIOUS
    <3> QED
      BY <3>1, <3>2, <3>3
  <2> QED
    BY <2>1, <2>2
<1> QED
  BY <1>1, <1>2, SeqEqual

(* Replacing one byte. *)
LEMMA Replaced ==
  ASSUME NEW S, NEW w \in Seq(S), NEW n \in DOMAIN w, NEW b \in S
  PROVE  [w EXCEPT ![n] = b] = SubSeq(w, 1, n - 1) \o <<b>> \o SubSeq(w, n + 1, Len(w))
<1>1. /\ [w EXCEPT ![n] = b] \in Seq(S) /\ Len([w EXCEPT ![n] = b]) = Len(w)
      /\ [w EXCEPT ![n] = b][n] = b
      /\ \A k \in 1 .. Len(w) : k # n => [w EXCEPT ![n] = b][k] = w[k]
  OBVIOUS
<1>2. PICK v : v = [w EXCEPT ![n] = b]
  OBVIOUS
<1>3. PICK w1 : w1 = SubSeq(w, 1, n - 1)
  OBVIOUS
<1>4. PICK t : t = SubSeq(w, n + 1, Len(w))
  OBVIOUS
<1>5. PICK u : u = w1 \o <<b>>
  OBVIOUS
<1>6. /\ w1 \in Seq(S) /\ Len(w1) = n - 1 /\ \A k \in 1 .. (n - 1) : w1[k] = w[k]
      /\ n \in 1 .. Len(w) /\ Len(w) \in Nat
  BY <1>3
<1>7. t \in Seq(S) /\ Len(t) = Len(w) - n /\ \A k \in 1 .. (Len(w) - n) : t[k] = w[n + k]
  BY <1>4
<1>8. u \in Seq(S) /\ Len(u) = n /\ u[n] = b /\ \A k \in 1 .. (n - 1) : u[k] = w[k]
  BY <1>5, <1>6
<1>9. v \in Seq(S) /\ Len(v) = Len(u) + Len(t)
  BY <1>1, <1>2, <1>6, <1>7, <1>8
<1>10. ASSUME NEW k \in 1 .. Len(u) PROVE v[k] = u[k]
  <2>1. CASE k = n
    BY <1>1, <1>2, <1>8, <2>1
  <2>2. CASE k # n
    BY <1>1, <1>2, <1>6, <1>8, <2>2
  <2> QED
    BY <2>1, <2>2
<1>11. ASSUME NEW k \in 1 .. Len(t) PROVE v[Len(u) + k] = t[k]
  BY <1>1, <1>2, <1>6, <1>7, <1>8
<1>12. v = u \o t
  BY <1>7, <1>8, <1>9, <1>10, <1>11, JoinedAt
<1> QED
  BY <1>2, <1>3, <1>4, <1>5, <1>12

(* Losing or replacing a byte that is no text. *)
LEMMA TextInDamaged ==
  ASSUME NEW w \in Seq(Byte), NEW n \in DOMAIN w, ~IsText(w[n])
  PROVE  /\ TextIn(RemoveAt(w, n)) = TextIn(w)
         /\ \A b \in Byte :
              TextIn([w EXCEPT ![n] = b]) = TextIn(w) + (IF IsText(b) THEN 1 ELSE 0)
<1> DEFINE w1 == SubSeq(w, 1, n - 1)
           w3 == SubSeq(w, n + 1, Len(w))
<1>1. w1 \in Seq(Byte) /\ w3 \in Seq(Byte) /\ w[n] \in Byte
  OBVIOUS
<1>2. ASSUME NEW v \in Seq(Byte), NEW b \in Byte, v = w1 \o <<b>> \o w3
      PROVE  TextIn(v) = TextIn(w1) + (IF IsText(b) THEN 1 ELSE 0) + TextIn(w3)
  <2> HIDE DEF w1, w3
  <2>1. <<b>> \in Seq(Byte) /\ TextIn(<<b>>) = IF IsText(b) THEN 1 ELSE 0
    BY TextInOne
  <2>2. w1 \o <<b>> \in Seq(Byte) /\ TextIn(w1 \o <<b>>) = TextIn(w1) + TextIn(<<b>>)
    BY <1>1, <2>1, TextInConcat
  <2>3. TextIn((w1 \o <<b>>) \o w3) = TextIn(w1 \o <<b>>) + TextIn(w3)
    BY <1>1, <2>2, TextInConcat
  <2> QED
    BY <1>2, <2>1, <2>2, <2>3
<1>4. ASSUME NEW b \in Byte PROVE [w EXCEPT ![n] = b] = w1 \o <<b>> \o w3
  BY Replaced
<1>3. w = w1 \o <<w[n]>> \o w3
  <2>1. w = [w EXCEPT ![n] = w[n]]
    OBVIOUS
  <2> QED
    BY <1>1, <1>4, <2>1
<1>5. RemoveAt(w, n) = w1 \o w3
  BY DEF RemoveAt
<1>6. TextIn(w) = TextIn(w1) + TextIn(w3)
  <2> HIDE DEF w1, w3
  <2>1. TextIn(w) = TextIn(w1) + (IF IsText(w[n]) THEN 1 ELSE 0) + TextIn(w3)
    BY <1>1, <1>2, <1>3
  <2> QED
    BY <1>1, <2>1, TextAtFinite
<1>7. TextIn(RemoveAt(w, n)) = TextIn(w1) + TextIn(w3)
  <2> HIDE DEF w1, w3
  <2> QED
    BY <1>1, <1>5, TextInConcat
<1>8. ASSUME NEW b \in Byte
      PROVE  TextIn([w EXCEPT ![n] = b]) = TextIn(w1) + (IF IsText(b) THEN 1 ELSE 0) + TextIn(w3)
  <2>1. [w EXCEPT ![n] = b] \in Seq(Byte)
    OBVIOUS
  <2> HIDE DEF w1, w3
  <2> QED
    BY <1>2, <1>4, <2>1
<1> HIDE DEF w1, w3
<1>9. ASSUME NEW b \in Byte
      PROVE  TextIn([w EXCEPT ![n] = b]) = TextIn(w) + (IF IsText(b) THEN 1 ELSE 0)
  <2>1. TextIn(w1) \in Nat /\ TextIn(w3) \in Nat
    BY <1>1, TextAtFinite
  <2> QED
    BY <1>6, <1>8, <2>1
<1> QED
  BY <1>6, <1>7, <1>9

-----------------------------------------------------------------------------
(* The count over the receiver's buffer, the chunk it is looking at and the *)
(* line stays the number of text bytes not printed yet.  The chunk is empty *)
(* between two calls: Read starts a new one.                               *)
IdleIsEmpty == ~inCall => chunk = <<>>

TextInv ==
  /\ IdleIsEmpty
  /\ stdout + TextIn(_inputFrame) + TextIn(chunk) + TextIn(wire) = noise

(* The counts of the buffer, the chunk and the line add up. *)
LEMMA TextInThree ==
  ASSUME NEW a \in Seq(Byte), NEW b \in Seq(Byte), NEW c \in Seq(Byte)
  PROVE  TextIn(a \o b \o c) = TextIn(a) + TextIn(b) + TextIn(c)
<1>1. a \o b \in Seq(Byte) /\ TextIn(a \o b) = TextIn(a) + TextIn(b)
  BY TextInConcat
<1>2. TextIn((a \o b) \o c) = TextIn(a \o b) + TextIn(c)
  BY <1>1, TextInConcat
<1> QED
  BY <1>1, <1>2

(* The empty sequence counts nothing. *)
LEMMA EmptyHasNoText == TextIn(<<>>) = 0
<1>1. <<>> \in Seq(Byte) /\ \A n \in DOMAIN <<>> : ~IsText(<<>>[n])
  OBVIOUS
<1> QED
  BY <1>1, TextInNone

(* The first byte of the chunk. *)
LEMMA TextInHead ==
  ASSUME NEW c \in Seq(Byte), c # <<>>
  PROVE  /\ Head(c) \in Byte /\ Tail(c) \in Seq(Byte)
         /\ TextIn(c) = (IF IsText(Head(c)) THEN 1 ELSE 0) + TextIn(Tail(c))
<1>1. Head(c) \in Byte /\ Tail(c) \in Seq(Byte) /\ c = <<Head(c)>> \o Tail(c)
  OBVIOUS
<1>2. PICK h \in Byte, t \in Seq(Byte) : h = Head(c) /\ t = Tail(c) /\ c = <<h>> \o t
  BY <1>1
<1>3. <<h>> \in Seq(Byte) /\ TextIn(<<h>>) = IF IsText(h) THEN 1 ELSE 0
  BY TextInOne
<1>4. TextIn(c) = TextIn(<<h>>) + TextIn(t)
  BY <1>2, <1>3, TextInConcat
<1> QED
  BY <1>1, <1>2, <1>3, <1>4

(* A FLAG is not text. *)
LEMMA FlagIsNoText == ASSUME NEW b, IsFlag(b) PROVE ~IsText(b)
  BY SizeAssumption DEF IsFlag, IsText, Text

(* The steps, one by one, keep the count. *)
LEMMA TextSend == TypeOK /\ TextInv /\ Send => TextInv'
<1> SUFFICES ASSUME TypeOK, TextInv, Send PROVE TextInv'
  OBVIOUS
<1>1. sent + 1 \in 1 .. MaxSent /\ wire \in Seq(Byte) /\ wire' = wire \o Frame(sent + 1)
  BY RoomToSend DEF Send, TypeOK
<1>2. PICK f \in Seq(Byte) : f = Frame(sent + 1) /\ TextIn(f) = 0
  BY <1>1, FrameType, FrameHasNoText, TextInNone
<1>3. TextIn(wire') = TextIn(wire)
  BY <1>1, <1>2, TextInConcat, TextInType
<1> QED
  BY <1>3 DEF Send, TextInv, IdleIsEmpty

LEMMA TextSendInside == TypeOK /\ TextInv /\ SendInside => TextInv'
<1> SUFFICES ASSUME TypeOK, TextInv, SendInside PROVE TextInv'
  OBVIOUS
<1>1. sent + 1 \in 1 .. MaxSent /\ wire \in Seq(Byte)
  <2>1. sent \in 1 .. (MaxSent - 1)
    BY SendInsideBounds
  <2>2. wire \in Seq(Byte)
    BY DEF TypeOK
  <2> QED
    BY <2>1, <2>2, BoundsAssumption
<1>2. PICK p \in 1 .. (Len(wire) - 1), j \in 1 .. (Size + 2), q \in 1 .. Len(wire) :
        /\ IF j = Size + 2 THEN q = p ELSE q > p
        /\ wire' = Spliced(wire, Frame(sent + 1), p, j, q)
  BY DEF SendInside
<1>3. PICK f \in Seq(Byte) :
        /\ f = Frame(sent + 1) /\ Len(f) = Size + 2
        /\ \A n \in DOMAIN f : ~IsText(f[n])
  BY <1>1, FrameType, FrameHasNoText
<1>4. p \in 0 .. Len(wire) /\ j \in 0 .. Len(f) /\ q \in p .. Len(wire)
  BY <1>1, <1>2, <1>3, SizeAssumption
<1>5. TextIn(wire') = TextIn(wire)
  BY <1>1, <1>2, <1>3, <1>4, TextInSpliced
<1> QED
  BY <1>5 DEF SendInside, TextInv, IdleIsEmpty

LEMMA TextConsole == TypeOK /\ TextInv /\ Console => TextInv'
<1> SUFFICES ASSUME TypeOK, TextInv, Console PROVE TextInv'
  OBVIOUS
<1>1. wire \in Seq(Byte)
  BY DEF TypeOK
<1>2. PICK b \in Byte, d \in {0, 1} :
        wire' = wire \o <<b>> /\ TextIn(<<b>>) = d /\ noise' = noise + d
  <2>1. CASE noise' = noise + 1 /\ wire' = Append(wire, Text)
    <3>1. Text \in Byte /\ TextIn(<<Text>>) = 1
      BY SpecialBytes, TextInOne DEF IsText
    <3>2. Append(wire, Text) = wire \o <<Text>>
      BY <1>1, <3>1, OneMore
    <3>3. wire' = wire \o <<Text>> /\ noise' = noise + 1
      BY <2>1, <3>2
    <3> QED
      BY <3>1, <3>3, Zenon
  <2>2. CASE noise' = noise /\ wire' = Append(wire, Tilde)
    <3>1. Tilde \in Byte /\ TextIn(<<Tilde>>) = 0
      BY SpecialBytes, TextInOne, SizeAssumption DEF IsText, Text, Tilde
    <3>2. Append(wire, Tilde) = wire \o <<Tilde>>
      BY <1>1, <3>1, OneMore
    <3>3. wire' = wire \o <<Tilde>> /\ noise' = noise + 0
      BY <2>2, <3>2 DEF TypeOK
    <3> QED
      BY <3>1, <3>3, Zenon
  <2>3. \/ noise' = noise + 1 /\ wire' = Append(wire, Text)
        \/ noise' = noise /\ wire' = Append(wire, Tilde)
    BY Zenon DEF Console
  <2> QED
    BY <2>1, <2>2, <2>3, Zenon
<1>3. TextIn(wire') = TextIn(wire) + TextIn(<<b>>)
  <2>1. <<b>> \in Seq(Byte)
    BY TextInOne, Zenon
  <2> QED
    BY <1>1, <1>2, <2>1, TextInConcat
<1>4. /\ TextIn(wire) \in Nat /\ TextIn(chunk) \in Nat /\ TextIn(_inputFrame) \in Nat
      /\ stdout \in Nat
  BY TextInType DEF TypeOK
<1> QED
  BY <1>2, <1>3, <1>4 DEF Console, TextInv, IdleIsEmpty

LEMMA TextDamage == TypeOK /\ TextInv /\ Damage => TextInv'
<1> SUFFICES ASSUME TypeOK, TextInv, Damage PROVE TextInv'
  OBVIOUS
<1>1. PICK n \in DOMAIN wire :
        /\ wire[n].m # 0
        /\ \/ wire' = RemoveAt(wire, n) /\ noise' = noise
           \/ wire' = [wire EXCEPT ![n] = Text] /\ noise' = noise + 1
           \/ wire' = [wire EXCEPT ![n] = StrayFlag] /\ noise' = noise
  BY DEF Damage
<1>2. wire \in Seq(Byte) /\ ~IsText(wire[n])
  BY <1>1 DEF TypeOK, IsText, Text
<1>3. /\ TextIn(RemoveAt(wire, n)) = TextIn(wire)
      /\ TextIn([wire EXCEPT ![n] = Text]) = TextIn(wire) + 1
      /\ TextIn([wire EXCEPT ![n] = StrayFlag]) = TextIn(wire) + 0
  <2>1. IsText(Text) /\ ~IsText(StrayFlag)
    BY DEF IsText, Text, StrayFlag
  <2> QED
    BY <1>2, <2>1, SpecialBytes, TextInDamaged
<1>4. /\ TextIn(wire) \in Nat /\ TextIn(chunk) \in Nat /\ TextIn(_inputFrame) \in Nat
      /\ stdout \in Nat
  BY TextInType DEF TypeOK
<1>5. PICK d \in {0, 1} : TextIn(wire') = TextIn(wire) + d /\ noise' = noise + d
  <2>1. CASE wire' = RemoveAt(wire, n) /\ noise' = noise
    <3>1. TextIn(wire') = TextIn(wire) + 0 /\ noise' = noise + 0
      BY <1>3, <1>4, <2>1 DEF TypeOK
    <3> QED
      BY <3>1
  <2>2. CASE wire' = [wire EXCEPT ![n] = Text] /\ noise' = noise + 1
    <3>1. TextIn(wire') = TextIn(wire) + 1
      BY <1>3, <2>2, Zenon
    <3> QED
      BY <2>2, <3>1
  <2>3. CASE wire' = [wire EXCEPT ![n] = StrayFlag] /\ noise' = noise
    <3>1. TextIn(wire') = TextIn(wire) + 0
      BY <1>3, <2>3, Zenon
    <3>2. noise' = noise + 0
      BY <2>3 DEF TypeOK
    <3> QED
      BY <3>1, <3>2
  <2> QED
    BY <1>1, <2>1, <2>2, <2>3
<1>6. /\ chunk' = chunk /\ _inputFrame' = _inputFrame /\ stdout' = stdout /\ inCall' = inCall
  BY DEF Damage
<1>7. stdout' + TextIn(_inputFrame') + TextIn(chunk') + TextIn(wire') = noise'
  BY <1>4, <1>5, <1>6 DEF TextInv
<1> QED
  BY <1>6, <1>7 DEF TextInv, IdleIsEmpty

LEMMA TextRead == TypeOK /\ TextInv /\ (\E k \in 1 .. Len(wire) : Read(k)) => TextInv'
<1> SUFFICES ASSUME TypeOK, TextInv, NEW k \in 1 .. Len(wire), Read(k) PROVE TextInv'
  OBVIOUS
<1>1. /\ wire \in Seq(Byte) /\ k \in 0 .. Len(wire) /\ chunk = <<>>
      /\ chunk' = SubSeq(wire, 1, k) /\ wire' = SubSeq(wire, k + 1, Len(wire))
  BY DEF Read, TypeOK, TextInv, IdleIsEmpty
<1>2. TextIn(wire) = TextIn(chunk') + TextIn(wire')
  BY <1>1, TextInHalves
<1>3. TextIn(chunk) = 0
  BY <1>1, EmptyHasNoText
<1>4. /\ TextIn(_inputFrame) \in Nat /\ stdout \in Nat /\ inCall' = TRUE
      /\ chunk' \in Seq(Byte) /\ wire' \in Seq(Byte)
  BY <1>1, TextInType DEF Read, TypeOK
<1>5. TextIn(chunk') \in Nat /\ TextIn(wire') \in Nat
  BY <1>4, TextInType
<1> QED
  BY <1>2, <1>3, <1>4, <1>5 DEF Read, TextInv, IdleIsEmpty

LEMMA TextHandleFlag == TypeOK /\ TextInv /\ HandleFlag => TextInv'
<1> SUFFICES ASSUME TypeOK, TextInv, HandleFlag PROVE TextInv'
  OBVIOUS
<1>1. /\ inCall /\ inCall' = inCall /\ chunk # <<>> /\ chunk \in Seq(Byte)
      /\ IsFlag(Head(chunk)) /\ chunk' = Tail(chunk) /\ _inputFrame' = <<>>
      /\ wire' = wire /\ noise' = noise
  BY DEF HandleFlag, TypeOK
<1>2. TextIn(chunk) = TextIn(chunk') /\ chunk' \in Seq(Byte)
  <2>1. TextIn(Tail(chunk)) \in Nat
    BY <1>1, TextInHead, TextInType
  <2> QED
    BY <1>1, <2>1, FlagIsNoText, TextInHead
<1>3. stdout' = stdout + TextIn(_inputFrame)
  <2>1. CASE Accepted(_inputFrame) = {}
    BY <2>1 DEF HandleFlag, HandleFrame
  <2>2. ASSUME NEW m \in Accepted(_inputFrame) PROVE stdout' = stdout + TextIn(_inputFrame)
    <3>1. m \in 1 .. MaxSent /\ _inputFrame = Body(m)
      BY AcceptedIsOne DEF Msgs
    <3>2. TextIn(_inputFrame) = 0
      BY <3>1, FrameHasNoText, TextInNone DEF TypeOK
    <3>3. stdout' = stdout
      BY DEF HandleFlag, HandleFrame
    <3> QED
      BY <3>2, <3>3 DEF TypeOK
  <2> QED
    BY <2>1, <2>2
<1>4. TextIn(_inputFrame') = 0
  BY <1>1, EmptyHasNoText
<1>5. /\ TextIn(wire) \in Nat /\ TextIn(chunk) \in Nat /\ TextIn(_inputFrame) \in Nat
      /\ stdout \in Nat
  BY TextInType DEF TypeOK
<1>6. stdout' + TextIn(_inputFrame') + TextIn(chunk') + TextIn(wire') = noise'
  BY <1>1, <1>2, <1>3, <1>4, <1>5 DEF TextInv
<1> QED
  BY <1>1, <1>6 DEF TextInv, IdleIsEmpty

LEMMA TextHandleByte == TypeOK /\ TextInv /\ HandleByte => TextInv'
<1> SUFFICES ASSUME TypeOK, TextInv, HandleByte PROVE TextInv'
  OBVIOUS
<1>1. /\ inCall /\ inCall' = inCall /\ chunk # <<>> /\ chunk \in Seq(Byte)
      /\ chunk' = Tail(chunk) /\ _inputFrame \in Seq(Byte)
      /\ _inputFrame' = _inputFrame \o <<Head(chunk)>>
      /\ wire' = wire /\ noise' = noise /\ stdout' = stdout
  BY DEF HandleByte, TypeOK
<1>2. PICK h \in Byte : h = Head(chunk)
  BY <1>1, TextInHead
<1>3. <<h>> \in Seq(Byte) /\ TextIn(<<h>>) = IF IsText(h) THEN 1 ELSE 0
  BY TextInOne
<1>4. TextIn(chunk) = TextIn(<<h>>) + TextIn(chunk') /\ chunk' \in Seq(Byte)
  BY <1>1, <1>2, <1>3, TextInHead
<1>5. TextIn(_inputFrame') = TextIn(_inputFrame) + TextIn(<<h>>)
  BY <1>1, <1>2, <1>3, TextInConcat
<1>6. /\ TextIn(wire) \in Nat /\ TextIn(chunk') \in Nat /\ TextIn(_inputFrame) \in Nat
      /\ stdout \in Nat /\ TextIn(<<h>>) \in Nat
  BY <1>3, <1>4, TextInType DEF TypeOK
<1>7. stdout' + TextIn(_inputFrame') + TextIn(chunk') + TextIn(wire') = noise'
  BY <1>1, <1>4, <1>5, <1>6 DEF TextInv
<1> QED
  BY <1>1, <1>7 DEF TextInv, IdleIsEmpty

LEMMA TextEndOfChunk == TypeOK /\ TextInv /\ EndOfChunk => TextInv'
<1> SUFFICES ASSUME TypeOK, TextInv, EndOfChunk PROVE TextInv'
  OBVIOUS
<1>1. chunk = <<>> /\ chunk' = chunk /\ wire' = wire /\ noise' = noise
  BY DEF EndOfChunk
<1>2. \/ _inputFrame' = <<>> /\ stdout' = stdout + TextIn(_inputFrame)
      \/ _inputFrame' = _inputFrame /\ stdout' = stdout
  BY Zenon DEF EndOfChunk
<1>3. /\ TextIn(wire) \in Nat /\ TextIn(chunk) \in Nat /\ TextIn(_inputFrame) \in Nat
      /\ stdout \in Nat
  BY TextInType DEF TypeOK
<1>4. stdout' + TextIn(_inputFrame') + TextIn(chunk') + TextIn(wire') = noise'
  BY <1>1, <1>2, <1>3, EmptyHasNoText DEF TextInv
<1> QED
  BY <1>1, <1>4 DEF TextInv, IdleIsEmpty

(* Console text other than 0x7E is never swallowed: every byte of it is     *)
(* printed or still under way, whatever frames it is glued to and wherever  *)
(* a 0x7E, which handleRxd takes for a FLAG, cuts it.                       *)
THEOREM TextIsPrinted == Spec => []TextButFlagsReachesStdout
<1>1. Init => TextInv
  BY EmptyHasNoText DEF Init, TextInv, IdleIsEmpty
<1>2. TypeOK /\ TextInv /\ [Next]_vars => TextInv'
  <2> SUFFICES ASSUME TypeOK, TextInv, [Next]_vars PROVE TextInv'
    OBVIOUS
  <2>1. CASE UNCHANGED vars
    BY <2>1 DEF vars, TextInv, IdleIsEmpty
  <2>2. CASE Stall
    BY <2>2 DEF Stall, TextInv, IdleIsEmpty
  <2> QED
    BY <2>1, <2>2, TextSend, TextSendInside, TextConsole, TextDamage, TextRead,
       TextHandleFlag, TextHandleByte, TextEndOfChunk DEF Next
<1>3. TypeOK /\ TextInv => TextButFlagsReachesStdout
  <2> SUFFICES ASSUME TypeOK, TextInv PROVE TextButFlagsReachesStdout
    OBVIOUS
  <2>1. TextIn(InTransit) = TextIn(_inputFrame) + TextIn(chunk) + TextIn(wire)
    BY TextInThree DEF InTransit, TypeOK
  <2>2. /\ TextIn(wire) \in Nat /\ TextIn(chunk) \in Nat /\ TextIn(_inputFrame) \in Nat
        /\ stdout \in Nat
    BY TextInType DEF TypeOK
  <2> QED
    BY <2>1, <2>2 DEF TextInv, TextButFlagsReachesStdout
<1> QED
  BY <1>1, <1>2, <1>3, FramingTypes, PTL DEF Spec

-----------------------------------------------------------------------------
(* What each step does to the bytes in transit, byte by byte.  The          *)
(* receiver's buffer, its chunk and the line are looked at as one sequence; *)
(* it only grows at its end, gets damaged behind the buffer and is looked   *)
(* at from its beginning.                                                   *)
T == InTransit
L == Len(_inputFrame)

(* Two sequences joined, byte by byte. *)
LEMMA Joined ==
  ASSUME NEW a \in Seq(Byte), NEW b \in Seq(Byte)
  PROVE  /\ a \o b \in Seq(Byte) /\ Len(a \o b) = Len(a) + Len(b)
         /\ \A n \in 1 .. Len(a) : (a \o b)[n] = a[n]
         /\ \A n \in 1 .. Len(b) : (a \o b)[Len(a) + n] = b[n]
  OBVIOUS

(* Three sequences joined, byte by byte. *)
LEMMA JoinedThree ==
  ASSUME NEW a \in Seq(Byte), NEW b \in Seq(Byte), NEW c \in Seq(Byte)
  PROVE  /\ a \o b \o c \in Seq(Byte) /\ Len(a) \in Nat /\ Len(a) <= Len(a \o b \o c)
         /\ Len(a \o b \o c) = Len(a) + Len(b) + Len(c)
         /\ \A n \in 1 .. Len(a) : (a \o b \o c)[n] = a[n]
         /\ \A n \in 1 .. Len(b) : (a \o b \o c)[Len(a) + n] = b[n]
         /\ \A n \in 1 .. Len(c) : (a \o b \o c)[Len(a) + Len(b) + n] = c[n]
<1>1. PICK u \in Seq(Byte) :
        /\ u = a \o b /\ Len(u) = Len(a) + Len(b)
        /\ \A n \in 1 .. Len(a) : u[n] = a[n]
        /\ \A n \in 1 .. Len(b) : u[Len(a) + n] = b[n]
  BY Joined
<1>2. PICK t \in Seq(Byte) :
        /\ t = u \o c /\ Len(t) = Len(u) + Len(c)
        /\ \A n \in 1 .. Len(u) : t[n] = u[n]
        /\ \A n \in 1 .. Len(c) : t[Len(u) + n] = c[n]
  BY Joined
<1>3. /\ \A n \in 1 .. Len(a) : t[n] = a[n]
      /\ \A n \in 1 .. Len(b) : t[Len(a) + n] = b[n]
  BY <1>1, <1>2
<1>4. /\ Len(a) \in Nat /\ Len(a) <= Len(t) /\ Len(t) = Len(a) + Len(b) + Len(c)
      /\ \A n \in 1 .. Len(c) : t[Len(a) + Len(b) + n] = c[n]
  BY <1>1, <1>2
<1> QED
  BY <1>1, <1>2, <1>3, <1>4

(* The buffer, the chunk and the line within the bytes in transit. *)
LEMMA TransitType ==
  ASSUME TypeOK
  PROVE  /\ T \in Seq(Byte) /\ L \in Nat /\ L <= Len(T)
         /\ Len(T) = L + Len(chunk) + Len(wire)
         /\ \A n \in 1 .. L : T[n] = _inputFrame[n]
         /\ \A n \in 1 .. Len(chunk) : T[L + n] = chunk[n]
         /\ \A n \in 1 .. Len(wire) : T[L + Len(chunk) + n] = wire[n]
  BY JoinedThree DEF TypeOK, T, L, InTransit

(* The chunk is cut from the line: nothing moves.                          *)
LEMMA ReadMoves ==
  ASSUME TypeOK, IdleIsEmpty, NEW k \in 1 .. Len(wire), Read(k)
  PROVE  T' = T /\ L' = L
<1>1. /\ wire \in Seq(Byte) /\ _inputFrame \in Seq(Byte) /\ _inputFrame' = _inputFrame
      /\ chunk = <<>> /\ chunk' = SubSeq(wire, 1, k) /\ wire' = SubSeq(wire, k + 1, Len(wire))
  BY DEF Read, TypeOK, IdleIsEmpty
<1>2. chunk' \o wire' = wire /\ chunk' \in Seq(Byte) /\ wire' \in Seq(Byte)
  BY <1>1
<1>5. PICK b \in Seq(Byte), c \in Seq(Byte) : b = chunk' /\ c = wire'
  BY <1>2
<1>6. (_inputFrame \o b) \o c = _inputFrame \o (b \o c)
  BY <1>1, ConcatAssociative, SMTT(20)
<1>3. (_inputFrame \o chunk') \o wire' = _inputFrame \o (chunk' \o wire')
  BY <1>5, <1>6
<1>4. (_inputFrame \o chunk) \o wire = _inputFrame \o wire
  BY <1>1
<1> QED
  BY <1>1, <1>2, <1>3, <1>4 DEF T, L, InTransit

(* A byte goes from the chunk into the buffer: nothing moves. *)
LEMMA HandleByteMoves ==
  ASSUME TypeOK, HandleByte
  PROVE  T' = T /\ L' = L + 1 /\ L < Len(T) /\ ~IsFlag(T[L + 1])
<1>1. /\ _inputFrame \in Seq(Byte) /\ chunk \in Seq(Byte) /\ chunk # <<>>
      /\ ~IsFlag(Head(chunk))
      /\ _inputFrame' = _inputFrame \o <<Head(chunk)>> /\ chunk' = Tail(chunk) /\ wire' = wire
  BY DEF HandleByte, TypeOK
<1>2. /\ <<Head(chunk)>> \in Seq(Byte) /\ Tail(chunk) \in Seq(Byte)
      /\ <<Head(chunk)>> \o Tail(chunk) = chunk
  BY <1>1
<1>3. (_inputFrame \o <<Head(chunk)>>) \o Tail(chunk) = _inputFrame \o chunk
  BY <1>1, <1>2, ConcatAssociative
<1>4. T' = T /\ L' = L + 1
  BY <1>1, <1>3 DEF T, L, InTransit
<1>5. Len(chunk) \in Nat /\ Len(chunk) >= 1 /\ chunk[1] = Head(chunk) /\ Len(wire) \in Nat
  BY <1>1 DEF TypeOK
<1>6. L < Len(T) /\ T[L + 1] = chunk[1]
  BY <1>5, TransitType
<1> QED
  BY <1>1, <1>4, <1>5, <1>6

(* A FLAG empties the buffer: it and the bytes before it are gone. *)
LEMMA HandleFlagMoves ==
  ASSUME TypeOK, TypeOK', HandleFlag
  PROVE  /\ L' = 0 /\ L < Len(T) /\ IsFlag(T[L + 1])
         /\ Len(T') = Len(T) - (L + 1)
         /\ \A n \in 1 .. Len(T') : T'[n] = T[n + (L + 1)]
<1>1. /\ _inputFrame \in Seq(Byte) /\ chunk \in Seq(Byte) /\ chunk # <<>>
      /\ IsFlag(Head(chunk)) /\ wire \in Seq(Byte)
      /\ _inputFrame' = <<>> /\ chunk' = Tail(chunk) /\ wire' = wire
  BY DEF HandleFlag, TypeOK
<1>2. L' = 0 /\ L \in Nat
  BY <1>1 DEF L
<1>3. /\ Len(chunk) \in Nat /\ Len(chunk) >= 1 /\ chunk[1] = Head(chunk) /\ Len(wire) \in Nat
      /\ Len(chunk') = Len(chunk) - 1 /\ \A n \in 1 .. Len(chunk') : chunk'[n] = chunk[n + 1]
  BY <1>1
<1>4. L < Len(T) /\ T[L + 1] = chunk[1]
  BY <1>3, TransitType
<1>5. /\ Len(T) = L + Len(chunk) + Len(wire)
      /\ \A n \in 1 .. Len(chunk) : T[L + n] = chunk[n]
      /\ \A n \in 1 .. Len(wire) : T[L + Len(chunk) + n] = wire[n]
  BY TransitType
<1>6. /\ Len(T') = L' + Len(chunk') + Len(wire')
      /\ \A n \in 1 .. Len(chunk') : T'[L' + n] = chunk'[n]
      /\ \A n \in 1 .. Len(wire') : T'[L' + Len(chunk') + n] = wire'[n]
  <2>1. PICK a \in Seq(Byte), b \in Seq(Byte), c \in Seq(Byte) :
          a = _inputFrame' /\ b = chunk' /\ c = wire'
    BY DEF TypeOK
  <2>2. /\ Len(a \o b \o c) = Len(a) + Len(b) + Len(c)
        /\ \A n \in 1 .. Len(b) : (a \o b \o c)[Len(a) + n] = b[n]
        /\ \A n \in 1 .. Len(c) : (a \o b \o c)[Len(a) + Len(b) + n] = c[n]
    BY JoinedThree, ZenonT(20)
  <2> QED
    BY <2>1, <2>2 DEF T, L, InTransit
<1>7. Len(T') = Len(T) - (L + 1)
  BY <1>1, <1>2, <1>3, <1>5, <1>6
<1>8. ASSUME NEW n \in 1 .. Len(T') PROVE T'[n] = T[n + (L + 1)]
  <2>1. CASE n <= Len(chunk')
    <3>1. T'[n] = chunk'[n]
      BY <1>2, <1>3, <1>6, <2>1
    <3>2. chunk'[n] = chunk[n + 1] /\ n + 1 \in 1 .. Len(chunk)
      BY <1>3, <2>1
    <3>3. T[L + (n + 1)] = chunk[n + 1]
      BY <1>5, <3>2
    <3>4. L + (n + 1) = n + (L + 1)
      BY <1>2
    <3> QED
      BY <3>1, <3>2, <3>3, <3>4
  <2>2. CASE n > Len(chunk')
    <3>1. n - Len(chunk') \in 1 .. Len(wire) /\ n = 0 + Len(chunk') + (n - Len(chunk'))
      BY <1>1, <1>2, <1>3, <1>6, <2>2
    <3>2. T'[n] = wire[n - Len(chunk')]
      BY <1>1, <1>2, <1>6, <3>1
    <3>3. T[L + Len(chunk) + (n - Len(chunk'))] = wire[n - Len(chunk')]
      BY <1>5, <3>1
    <3>4. L + Len(chunk) + (n - Len(chunk')) = n + (L + 1)
      BY <1>2, <1>3
    <3> QED
      BY <3>2, <3>3, <3>4
  <2> QED
    BY <1>3, <2>1, <2>2
<1> QED
  BY <1>1, <1>2, <1>3, <1>4, <1>7, <1>8

(* The timeout empties the buffer. *)
LEMMA EndOfChunkMoves ==
  ASSUME TypeOK, TypeOK', EndOfChunk
  PROVE  \/ expired /\ L' = 0 /\ Len(T') = Len(T) - L /\ \A n \in 1 .. Len(T') : T'[n] = T[n + L]
         \/ ~expired /\ L' = L /\ T' = T
<1>1. chunk = <<>> /\ chunk' = <<>> /\ wire' = wire
  BY DEF EndOfChunk
<1>2. CASE expired
  <2>1. _inputFrame' = <<>>
    BY <1>2, Zenon DEF EndOfChunk
  <2>2. PICK a \in Seq(Byte), c \in Seq(Byte) : a = _inputFrame /\ c = wire
    BY DEF TypeOK
  <2>3. T = a \o c /\ T' = c
    BY <1>1, <2>1, <2>2 DEF T, InTransit
  <2>4. /\ Len(a \o c) = Len(a) + Len(c) /\ Len(a) \in Nat
        /\ \A n \in 1 .. Len(c) : (a \o c)[Len(a) + n] = c[n]
    BY Joined
  <2>5. Len(T') = Len(T) - Len(a) /\ \A n \in 1 .. Len(T') : T'[n] = T[n + Len(a)]
    BY <2>3, <2>4
  <2>6. L = Len(a) /\ L' = 0
    BY <2>1, <2>2 DEF L
  <2> QED
    BY <1>2, <2>5, <2>6
<1>3. CASE ~expired
  <2>1. _inputFrame' = _inputFrame
    BY <1>3, Zenon DEF EndOfChunk
  <2> QED
    BY <1>1, <1>3, <2>1 DEF T, L, InTransit
<1> QED
  BY <1>2, <1>3

(* Bytes added to the line. *)
LEMMA LineGrows ==
  ASSUME TypeOK, NEW f \in Seq(Byte),
         wire' = wire \o f, chunk' = chunk, _inputFrame' = _inputFrame
  PROVE  /\ L' = L /\ Len(T') = Len(T) + Len(f)
         /\ \A n \in 1 .. Len(T) : T'[n] = T[n]
         /\ \A n \in 1 .. Len(f) : T'[Len(T) + n] = f[n]
<1> _inputFrame \o chunk \in Seq(Byte) /\ wire \in Seq(Byte)
  BY DEF TypeOK
<1>1. PICK u \in Seq(Byte), c \in Seq(Byte) : u = _inputFrame \o chunk /\ c = wire
  OBVIOUS
<1>2. T = u \o c /\ T' = u \o (c \o f) /\ L' = L
  BY <1>1 DEF T, L, InTransit
<1>3. (u \o c) \o f = u \o (c \o f) /\ u \o c \in Seq(Byte)
  BY ConcatAssociative, SMTT(20)
<1>4. T' = T \o f /\ T \in Seq(Byte)
  BY <1>2, <1>3
<1>5. PICK t \in Seq(Byte) : t = T
  BY <1>4
<1>6. /\ Len(t \o f) = Len(t) + Len(f)
      /\ \A n \in 1 .. Len(t) : (t \o f)[n] = t[n]
      /\ \A n \in 1 .. Len(f) : (t \o f)[Len(t) + n] = f[n]
  BY Joined
<1> QED
  BY <1>2, <1>4, <1>5, <1>6

(* A change of the line. *)
LEMMA LineChanges ==
  ASSUME TypeOK, TypeOK', chunk' = chunk, _inputFrame' = _inputFrame
  PROVE  /\ L' = L
         /\ \E d \in L .. Len(T) :
              /\ Len(T) = d + Len(wire) /\ Len(T') = d + Len(wire')
              /\ \A n \in 1 .. d : T'[n] = T[n]
              /\ \A n \in 1 .. Len(wire) : T[d + n] = wire[n]
              /\ \A n \in 1 .. Len(wire') : T'[d + n] = wire'[n]
<1> _inputFrame \o chunk \in Seq(Byte) /\ wire \in Seq(Byte) /\ wire' \in Seq(Byte)
  BY DEF TypeOK
<1>1. PICK u \in Seq(Byte), c \in Seq(Byte), v \in Seq(Byte) :
        u = _inputFrame \o chunk /\ c = wire /\ v = wire'
  OBVIOUS
<1>2. T = u \o c /\ T' = u \o v /\ L' = L
  BY <1>1 DEF T, L, InTransit
<1>3. L <= Len(u) /\ L \in Nat /\ Len(u) \in Nat /\ Len(c) \in Nat
  BY <1>1, SMTT(30) DEF L, TypeOK
<1>4. /\ Len(T) = Len(u) + Len(c)
      /\ \A n \in 1 .. Len(u) : T[n] = u[n]
      /\ \A n \in 1 .. Len(c) : T[Len(u) + n] = c[n]
  BY <1>2, Joined
<1>5. /\ Len(T') = Len(u) + Len(v)
      /\ \A n \in 1 .. Len(u) : T'[n] = u[n]
      /\ \A n \in 1 .. Len(v) : T'[Len(u) + n] = v[n]
  BY <1>2, Joined
<1>6. Len(u) \in L .. Len(T)
  BY <1>3, <1>4
<1>7. /\ Len(T) = Len(u) + Len(wire) /\ Len(T') = Len(u) + Len(wire')
      /\ \A n \in 1 .. Len(u) : T'[n] = T[n]
      /\ \A n \in 1 .. Len(wire) : T[Len(u) + n] = wire[n]
      /\ \A n \in 1 .. Len(wire') : T'[Len(u) + n] = wire'[n]
  BY <1>1, <1>4, <1>5
<1> QED
  BY <1>2, <1>6, <1>7

(* Removing a byte moves the ones behind it forward. *)
LEMMA RemovalIndex ==
  ASSUME NEW s \in Seq(Byte), NEW n \in 1 .. Len(s)
  PROVE  /\ Len(RemoveAt(s, n)) = Len(s) - 1
         /\ \A k \in 1 .. (n - 1) : RemoveAt(s, n)[k] = s[k]
         /\ \A k \in n .. (Len(s) - 1) : RemoveAt(s, n)[k] = s[k + 1]
<1>1. PICK a : a = SubSeq(s, 1, n - 1)
  OBVIOUS
<1>2. PICK b : b = SubSeq(s, n + 1, Len(s))
  OBVIOUS
<1>3. a \in Seq(Byte) /\ Len(a) = n - 1 /\ \A k \in 1 .. (n - 1) : a[k] = s[k]
  BY <1>1
<1>4. b \in Seq(Byte) /\ Len(b) = Len(s) - n /\ \A k \in 1 .. (Len(s) - n) : b[k] = s[k + n]
  BY <1>2
<1>5. RemoveAt(s, n) = a \o b
  BY <1>1, <1>2 DEF RemoveAt
<1>6. PICK u : u = a \o b
  OBVIOUS
<1>9. /\ Len(u) = Len(a) + Len(b)
      /\ \A k \in 1 .. Len(a) : u[k] = a[k]
      /\ \A k \in 1 .. Len(b) : u[Len(a) + k] = b[k]
  BY <1>3, <1>4, <1>6, Joined
<1>7. /\ Len(u) = Len(s) - 1
      /\ \A k \in 1 .. (n - 1) : u[k] = a[k]
      /\ \A k \in n .. (Len(s) - 1) : u[k] = b[k - (n - 1)]
  <2>1. Len(u) = Len(s) - 1 /\ \A k \in 1 .. (n - 1) : u[k] = a[k]
    BY <1>3, <1>4, <1>9
  <2>2. ASSUME NEW k \in n .. (Len(s) - 1) PROVE u[k] = b[k - (n - 1)]
    <3>1. k - (n - 1) \in 1 .. Len(b) /\ Len(a) + (k - (n - 1)) = k
      BY <1>3, <1>4
    <3> QED
      BY <1>9, <3>1
  <2> QED
    BY <2>1, <2>2
<1>8. ASSUME NEW k \in n .. (Len(s) - 1) PROVE u[k] = s[k + 1]
  <2>1. k - (n - 1) \in 1 .. (Len(s) - n) /\ (k - (n - 1)) + n = k + 1
    OBVIOUS
  <2>2. b[k - (n - 1)] = s[(k - (n - 1)) + n]
    BY <1>4, <2>1
  <2> QED
    BY <1>7, <2>1, <2>2
<1> QED
  BY <1>3, <1>5, <1>6, <1>7, <1>8

(* A byte behind the receiver's buffer disappears, or becomes one no frame  *)
(* contains.                                                               *)
LEMMA DamageMoves ==
  ASSUME TypeOK, TypeOK', Damage
  PROVE  \E N \in (L + 1) .. Len(T) :
           /\ L' = L /\ T[N].m # 0 /\ damaged' = damaged \union {T[N].m}
           /\ \/ /\ Len(T') = Len(T) - 1
                 /\ \A n \in 1 .. Len(T') : T'[n] = IF n < N THEN T[n] ELSE T[n + 1]
              \/ /\ Len(T') = Len(T) /\ T'[N].m = 0
                 /\ \A n \in 1 .. Len(T') : n # N => T'[n] = T[n]
<1>1. chunk' = chunk /\ _inputFrame' = _inputFrame
  BY DEF Damage
<1>2. PICK n \in DOMAIN wire :
        /\ wire[n].m # 0 /\ damaged' = damaged \union {wire[n].m}
        /\ \/ wire' = RemoveAt(wire, n)
           \/ wire' = [wire EXCEPT ![n] = Text]
           \/ wire' = [wire EXCEPT ![n] = StrayFlag]
  BY DEF Damage
<1>3. PICK d \in L .. Len(T) :
        /\ Len(T) = d + Len(wire) /\ Len(T') = d + Len(wire')
        /\ \A k \in 1 .. d : T'[k] = T[k]
        /\ \A k \in 1 .. Len(wire) : T[d + k] = wire[k]
        /\ \A k \in 1 .. Len(wire') : T'[d + k] = wire'[k]
  BY <1>1, LineChanges
<1>4. L' = L /\ L \in Nat /\ wire \in Seq(Byte) /\ n \in 1 .. Len(wire) /\ Len(wire) \in Nat
  BY <1>1, SMTT(20) DEF L, TypeOK
<1> DEFINE N == d + n
<1>5. N \in (L + 1) .. Len(T) /\ T[N] = wire[n]
  BY <1>3, <1>4
<1>6. CASE wire' = RemoveAt(wire, n)
  <2>1. /\ Len(wire') = Len(wire) - 1
        /\ \A k \in 1 .. (n - 1) : wire'[k] = wire[k]
        /\ \A k \in n .. (Len(wire) - 1) : wire'[k] = wire[k + 1]
    BY <1>4, <1>6, RemovalIndex
  <2>2. Len(T') = Len(T) - 1
    BY <1>3, <1>4, <2>1
  <2>3. ASSUME NEW k \in 1 .. Len(T') PROVE T'[k] = IF k < N THEN T[k] ELSE T[k + 1]
    <3>1. CASE k <= d
      BY <1>3, <1>4, <3>1
    <3>2. CASE k > d /\ k < N
      <4>1. k - d \in 1 .. (n - 1) /\ d + (k - d) = k /\ k - d \in 1 .. Len(wire)
            /\ k - d \in 1 .. Len(wire')
        BY <1>3, <1>4, <2>1, <3>2
      <4>2. T'[k] = wire'[k - d] /\ T[k] = wire[k - d] /\ wire'[k - d] = wire[k - d]
        BY <1>3, <2>1, <4>1
      <4> QED
        BY <3>2, <4>2
    <3>3. CASE k >= N
      <4>1. /\ k - d \in n .. (Len(wire) - 1) /\ d + (k - d) = k /\ d + (k - d + 1) = k + 1
            /\ k - d + 1 \in 1 .. Len(wire) /\ k - d \in 1 .. Len(wire')
        BY <1>3, <1>4, <2>1, <2>2, <3>3
      <4>2. T'[k] = wire'[k - d] /\ T[k + 1] = wire[k - d + 1] /\ wire'[k - d] = wire[k - d + 1]
        BY <1>3, <2>1, <4>1
      <4>3. ~(k < N)
        BY <1>3, <1>4, <3>3
      <4> QED
        BY <4>2, <4>3
    <3> QED
      BY <1>3, <1>4, <3>1, <3>2, <3>3
  <2> HIDE DEF N
  <2> QED
    BY <1>2, <1>4, <1>5, <2>2, <2>3
<1>7. ASSUME NEW b, b.m = 0, wire' = [wire EXCEPT ![n] = b]
      PROVE  /\ Len(T') = Len(T) /\ T'[N].m = 0
             /\ \A k \in 1 .. Len(T') : k # N => T'[k] = T[k]
  <2>1. /\ Len(wire') = Len(wire) /\ wire'[n] = b
        /\ \A k \in 1 .. Len(wire) : k # n => wire'[k] = wire[k]
    BY <1>4, <1>7
  <2>2. Len(T') = Len(T) /\ T'[N] = b
    BY <1>3, <1>4, <2>1
  <2>3. ASSUME NEW k \in 1 .. Len(T'), k # N PROVE T'[k] = T[k]
    <3>1. CASE k <= d
      BY <1>3, <1>4, <3>1
    <3>2. CASE k > d
      <4>1. k - d \in 1 .. Len(wire) /\ d + (k - d) = k /\ k - d # n
        BY <1>3, <1>4, <2>1, <2>3, <3>2
      <4>2. T'[k] = wire'[k - d] /\ T[k] = wire[k - d] /\ wire'[k - d] = wire[k - d]
        BY <1>3, <2>1, <4>1
      <4> QED
        BY <4>2
    <3> QED
      BY <1>3, <1>4, <3>1, <3>2
  <2> QED
    BY <1>7, <2>2, <2>3
<1>8. Text.m = 0 /\ StrayFlag.m = 0
  BY DEF Text, StrayFlag
<1>9. CASE wire' # RemoveAt(wire, n)
  <2>1. PICK b : b.m = 0 /\ wire' = [wire EXCEPT ![n] = b]
    BY <1>2, <1>8, <1>9, Zenon
  <2> HIDE DEF N
  <2>2. /\ Len(T') = Len(T) /\ T'[N].m = 0
        /\ \A k \in 1 .. Len(T') : k # N => T'[k] = T[k]
    BY <1>7, <2>1
  <2> QED
    BY <1>2, <1>4, <1>5, <2>2
<1> QED
  BY <1>6, <1>9

(* The beginning of a sequence. *)
LEMMA BeginningOf ==
  ASSUME NEW s \in Seq(Byte), NEW b \in 0 .. Len(s)
  PROVE  \E u \in Seq(Byte) :
           u = SubSeq(s, 1, b) /\ Len(u) = b /\ \A k \in 1 .. b : u[k] = s[k]
<1>1. SubSeq(s, 1, b) \in Seq(Byte) /\ Len(SubSeq(s, 1, b)) = b
  OBVIOUS
<1>2. \A k \in 1 .. b : SubSeq(s, 1, b)[k] = s[k]
  OBVIOUS
<1> QED
  BY <1>1, <1>2

(* A slice of a sequence. *)
LEMMA SliceOf ==
  ASSUME NEW s \in Seq(Byte), NEW a \in 0 .. Len(s), NEW b \in a .. Len(s)
  PROVE  \E u \in Seq(Byte) :
           /\ u = SubSeq(s, a + 1, b) /\ Len(u) = b - a
           /\ \A k \in (a + 1) .. b : u[k - a] = s[k]
<1>1. SubSeq(s, a + 1, b) \in Seq(Byte) /\ Len(SubSeq(s, a + 1, b)) = b - a
  OBVIOUS
<1>2. \A k \in (a + 1) .. b : SubSeq(s, a + 1, b)[k - a] = s[k]
  OBVIOUS
<1> QED
  BY <1>1, <1>2

(* A sequence joined from parts whose bytes are known. *)
LEMMA JoinOf ==
  ASSUME NEW a \in Seq(Byte), NEW b \in Seq(Byte)
  PROVE  \E u \in Seq(Byte) :
           /\ u = a \o b /\ Len(u) = Len(a) + Len(b)
           /\ \A n \in 1 .. Len(a) : u[n] = a[n]
           /\ \A n \in 1 .. Len(b) : u[Len(a) + n] = b[n]
<1> a \o b \in Seq(Byte)
  OBVIOUS
<1>1. PICK u \in Seq(Byte) : u = a \o b
  OBVIOUS
<1> QED
  BY <1>1, Joined

(* Where the bytes of a splice come from. *)
LEMMA SplicedIndex ==
  ASSUME NEW w \in Seq(Byte), NEW f \in Seq(Byte), NEW p \in 0 .. Len(w),
         NEW j \in 0 .. Len(f), NEW q \in p .. Len(w)
  PROVE  /\ Len(Spliced(w, f, p, j, q)) = Len(w) + Len(f)
         /\ \A n \in 1 .. p : Spliced(w, f, p, j, q)[n] = w[n]
         /\ \A n \in 1 .. j : Spliced(w, f, p, j, q)[p + n] = f[n]
         /\ \A n \in (p + 1) .. q : Spliced(w, f, p, j, q)[n + j] = w[n]
         /\ \A n \in (j + 1) .. Len(f) : Spliced(w, f, p, j, q)[q + n] = f[n]
         /\ \A n \in (q + 1) .. Len(w) : Spliced(w, f, p, j, q)[n + Len(f)] = w[n]
<1>1. /\ Len(w) \in Nat /\ Len(f) \in Nat /\ p \in Nat /\ j \in Nat /\ q \in Nat
      /\ q \in 0 .. Len(w) /\ Len(w) \in q .. Len(w) /\ Len(f) \in j .. Len(f)
      /\ p <= q /\ q <= Len(w) /\ j <= Len(f)
  OBVIOUS
<1>2. PICK w1 \in Seq(Byte) :
        w1 = SubSeq(w, 1, p) /\ Len(w1) = p /\ \A k \in 1 .. p : w1[k] = w[k]
  BY BeginningOf, Zenon
<1>3. PICK f1 \in Seq(Byte) :
        f1 = SubSeq(f, 1, j) /\ Len(f1) = j /\ \A k \in 1 .. j : f1[k] = f[k]
  BY BeginningOf, Zenon
<1>4. PICK w2 \in Seq(Byte) :
        /\ w2 = SubSeq(w, p + 1, q) /\ Len(w2) = q - p
        /\ \A k \in (p + 1) .. q : w2[k - p] = w[k]
  BY SliceOf, Zenon
<1>5. PICK f2 \in Seq(Byte) :
        /\ f2 = SubSeq(f, j + 1, Len(f)) /\ Len(f2) = Len(f) - j
        /\ \A k \in (j + 1) .. Len(f) : f2[k - j] = f[k]
  BY <1>1, SliceOf, Zenon
<1>6. PICK w3 \in Seq(Byte) :
        /\ w3 = SubSeq(w, q + 1, Len(w)) /\ Len(w3) = Len(w) - q
        /\ \A k \in (q + 1) .. Len(w) : w3[k - q] = w[k]
  BY <1>1, SliceOf, Zenon
<1>7. PICK s1 \in Seq(Byte) :
        /\ s1 = w1 \o f1 /\ Len(s1) = Len(w1) + Len(f1)
        /\ \A n \in 1 .. Len(w1) : s1[n] = w1[n]
        /\ \A n \in 1 .. Len(f1) : s1[Len(w1) + n] = f1[n]
  BY JoinOf, Zenon
<1>8. PICK s2 \in Seq(Byte) :
        /\ s2 = s1 \o w2 /\ Len(s2) = Len(s1) + Len(w2)
        /\ \A n \in 1 .. Len(s1) : s2[n] = s1[n]
        /\ \A n \in 1 .. Len(w2) : s2[Len(s1) + n] = w2[n]
  BY JoinOf, Zenon
<1>9. PICK s3 \in Seq(Byte) :
        /\ s3 = s2 \o f2 /\ Len(s3) = Len(s2) + Len(f2)
        /\ \A n \in 1 .. Len(s2) : s3[n] = s2[n]
        /\ \A n \in 1 .. Len(f2) : s3[Len(s2) + n] = f2[n]
  BY JoinOf, Zenon
<1>10. PICK s4 \in Seq(Byte) :
        /\ s4 = s3 \o w3 /\ Len(s4) = Len(s3) + Len(w3)
        /\ \A n \in 1 .. Len(s3) : s4[n] = s3[n]
        /\ \A n \in 1 .. Len(w3) : s4[Len(s3) + n] = w3[n]
  BY JoinOf, Zenon
<1>11. Spliced(w, f, p, j, q) = s4
  BY <1>2, <1>3, <1>4, <1>5, <1>6, <1>7, <1>8, <1>9, <1>10, Zenon DEF Spliced
<1>12. Len(s1) = p + j
  BY <1>2, <1>3, <1>7
<1>13. Len(s2) = q + j
  <2>1. Len(s2) = Len(s1) + Len(w2) /\ Len(w2) = q - p
    BY <1>4, <1>8, Zenon
  <2> QED
    BY <1>1, <1>12, <2>1
<1>14. Len(s3) = q + Len(f)
  <2>1. Len(s3) = Len(s2) + Len(f2) /\ Len(f2) = Len(f) - j
    BY <1>5, <1>9, Zenon
  <2> QED
    BY <1>1, <1>13, <2>1
<1>15. Len(s4) = Len(w) + Len(f)
  <2>1. Len(s4) = Len(s3) + Len(w3) /\ Len(w3) = Len(w) - q
    BY <1>6, <1>10, Zenon
  <2> QED
    BY <1>1, <1>14, <2>1
<1>16. \A n \in 1 .. (q + j) : s4[n] = s2[n]
  BY <1>1, <1>9, <1>10, <1>13, <1>14, SMTT(20)
<1>17. ASSUME NEW n \in 1 .. (p + j) PROVE s4[n] = s1[n]
  <2>1. n \in 1 .. (q + j) /\ n \in 1 .. Len(s1)
    BY <1>1, <1>12
  <2> QED
    BY <1>8, <1>16, <2>1, Zenon
<1>18. ASSUME NEW n \in 1 .. p PROVE s4[n] = w[n]
  BY <1>1, <1>2, <1>7, <1>17
<1>19. ASSUME NEW n \in 1 .. j PROVE s4[p + n] = f[n]
  <2>1. p + n \in 1 .. (p + j)
    BY <1>1
  <2>2. s4[p + n] = s1[p + n]
    BY <1>17, <2>1
  <2> QED
    BY <1>2, <1>3, <1>7, <2>2
<1>20. ASSUME NEW n \in (p + 1) .. q PROVE s4[n + j] = w[n]
  <2>1. n + j \in 1 .. (q + j) /\ n - p \in 1 .. (q - p) /\ (p + j) + (n - p) = n + j
    BY <1>1
  <2>2. s4[n + j] = s2[n + j]
    BY <1>16, <2>1
  <2>3. s2[(p + j) + (n - p)] = w2[n - p]
    BY <1>4, <1>8, <1>12, <2>1
  <2> QED
    BY <1>4, <2>1, <2>2, <2>3
<1>21. ASSUME NEW n \in (j + 1) .. Len(f) PROVE s4[q + n] = f[n]
  <2>1. q + n \in 1 .. (q + Len(f)) /\ n - j \in 1 .. (Len(f) - j) /\ (q + j) + (n - j) = q + n
    BY <1>1
  <2>2. s4[q + n] = s3[q + n]
    BY <1>10, <1>14, <2>1
  <2>3. s3[(q + j) + (n - j)] = f2[n - j]
    BY <1>5, <1>9, <1>13, <2>1
  <2> QED
    BY <1>5, <2>1, <2>2, <2>3
<1>22. ASSUME NEW n \in (q + 1) .. Len(w) PROVE s4[n + Len(f)] = w[n]
  <2>1. n - q \in 1 .. (Len(w) - q) /\ (q + Len(f)) + (n - q) = n + Len(f)
    BY <1>1
  <2>2. s4[(q + Len(f)) + (n - q)] = w3[n - q]
    BY <1>6, <1>10, <1>14, <2>1
  <2> QED
    BY <1>6, <2>1, <2>2
<1> QED
  BY <1>11, <1>15, <1>18, <1>19, <1>20, <1>21, <1>22

(* u is t with frame m spliced in: its first j bytes behind position P, the *)
(* rest behind position Q.                                                 *)
SplicedIn(t, u, m, P, j, Q) ==
  /\ Len(u) = Len(t) + (Size + 2)
  /\ \A n \in 1 .. P : u[n] = t[n]
  /\ \A n \in 1 .. j : u[P + n] = [m |-> m, i |-> n - 1]
  /\ \A n \in (P + 1) .. Q : u[n + j] = t[n]
  /\ \A n \in (j + 1) .. (Size + 2) : u[Q + n] = [m |-> m, i |-> n - 1]
  /\ \A n \in (Q + 1) .. Len(t) : u[n + (Size + 2)] = t[n]

(* The frame another thread writes into the last one, in one piece or two. *)
LEMMA SendInsideMoves ==
  ASSUME TypeOK, TypeOK', SendInside
  PROVE  \E P \in (L + 1) .. (Len(T) - 1), j \in 1 .. (Size + 2), Q \in 1 .. Len(T) :
           /\ L' = L /\ sent >= 1
           /\ (j = Size + 2 /\ Q = P) \/ (j < Size + 2 /\ Q > P)
           /\ T[P].m = sent /\ T[P].i > 0 /\ T[P + 1].m = sent
           /\ damaged' = damaged \union {sent} \union (IF Q = P THEN {} ELSE {sent + 1})
           /\ SplicedIn(T, T', sent + 1, P, j, Q)
<1>1. PICK p \in 1 .. (Len(wire) - 1), j \in 1 .. (Size + 2), q \in 1 .. Len(wire) :
        /\ IF j = Size + 2 THEN q = p ELSE q > p
        /\ wire[p].m = sent /\ wire[p].i > 0 /\ wire[p + 1].m = sent
        /\ wire' = Spliced(wire, Frame(sent + 1), p, j, q)
        /\ damaged' = damaged \union {sent} \union (IF q = p THEN {} ELSE {sent + 1})
  BY DEF SendInside
<1>2. chunk' = chunk /\ _inputFrame' = _inputFrame /\ sent >= 1 /\ sent + 1 \in 1 .. MaxSent
  BY SendInsideBounds, BoundsAssumption
<1>3. L' = L /\ L \in Nat /\ wire \in Seq(Byte) /\ Len(wire) \in Nat /\ Size \in Nat
  <2>1. wire \in Seq(Byte) /\ _inputFrame \in Seq(Byte)
    BY DEF TypeOK
  <2> QED
    BY <1>2, <2>1, SizeAssumption DEF L
<1>4. PICK d \in L .. Len(T) :
        /\ Len(T) = d + Len(wire) /\ Len(T') = d + Len(wire')
        /\ \A n \in 1 .. d : T'[n] = T[n]
        /\ \A n \in 1 .. Len(wire) : T[d + n] = wire[n]
        /\ \A n \in 1 .. Len(wire') : T'[d + n] = wire'[n]
  BY <1>2, LineChanges
<1>5. PICK f \in Seq(Byte) :
        /\ f = Frame(sent + 1) /\ Len(f) = Size + 2
        /\ \A n \in 1 .. (Size + 2) : f[n] = [m |-> sent + 1, i |-> n - 1]
  <2>1. Frame(sent + 1) \in Seq(Byte) /\ Len(Frame(sent + 1)) = Size + 2
    BY <1>2, FrameType
  <2> QED
    BY <2>1 DEF Frame
<1>6. q \in p .. Len(wire) /\ p \in 0 .. Len(wire) /\ j \in 0 .. Len(f)
  BY <1>1, <1>3, <1>5
<1>7. /\ Len(wire') = Len(wire) + (Size + 2)
      /\ \A n \in 1 .. p : wire'[n] = wire[n]
      /\ \A n \in 1 .. j : wire'[p + n] = f[n]
      /\ \A n \in (p + 1) .. q : wire'[n + j] = wire[n]
      /\ \A n \in (j + 1) .. (Size + 2) : wire'[q + n] = f[n]
      /\ \A n \in (q + 1) .. Len(wire) : wire'[n + (Size + 2)] = wire[n]
  <2>1. PICK w \in Seq(Byte) : w = wire
    BY <1>3
  <2>2. /\ Len(Spliced(w, f, p, j, q)) = Len(w) + Len(f)
        /\ \A n \in 1 .. p : Spliced(w, f, p, j, q)[n] = w[n]
        /\ \A n \in 1 .. j : Spliced(w, f, p, j, q)[p + n] = f[n]
        /\ \A n \in (p + 1) .. q : Spliced(w, f, p, j, q)[n + j] = w[n]
        /\ \A n \in (j + 1) .. Len(f) : Spliced(w, f, p, j, q)[q + n] = f[n]
        /\ \A n \in (q + 1) .. Len(w) : Spliced(w, f, p, j, q)[n + Len(f)] = w[n]
    <3>1. p \in 0 .. Len(w) /\ q \in p .. Len(w)
      BY <1>6, <2>1
    <3> QED
      BY <1>6, <3>1, SplicedIndex, ZenonT(30)
  <2>3. wire' = Spliced(w, f, p, j, q)
    BY <1>1, <1>5, <2>1
  <2> QED
    BY <1>5, <2>1, <2>2, <2>3
<1>8. Len(T') = Len(T) + (Size + 2)
  BY <1>3, <1>4, <1>7
<1>9. ASSUME NEW n \in 1 .. (d + p) PROVE T'[n] = T[n]
  <2>1. CASE n <= d
    BY <1>4, <2>1
  <2>2. CASE n > d
    <3>1. n - d \in 1 .. p /\ d + (n - d) = n
      BY <2>2
    <3>2. n - d \in 1 .. Len(wire) /\ n - d \in 1 .. Len(wire')
      BY <1>3, <1>7, <3>1
    <3>3. T'[d + (n - d)] = wire'[n - d] /\ T[d + (n - d)] = wire[n - d] /\ wire'[n - d] = wire[n - d]
      BY <1>4, <1>7, <3>1, <3>2
    <3> QED
      BY <3>1, <3>3
  <2> QED
    BY <1>3, <2>1, <2>2
<1>10. ASSUME NEW n \in 1 .. j PROVE T'[(d + p) + n] = [m |-> sent + 1, i |-> n - 1]
  <2>1. p + n \in 1 .. Len(wire') /\ d + (p + n) = (d + p) + n /\ n \in 1 .. (Size + 2)
    BY <1>3, <1>7, SMTT(20)
  <2>2. T'[d + (p + n)] = wire'[p + n] /\ wire'[p + n] = f[n]
    BY <1>4, <1>7, <2>1
  <2> QED
    BY <1>5, <2>1, <2>2
<1>11. ASSUME NEW n \in ((d + p) + 1) .. (d + q) PROVE T'[n + j] = T[n]
  <2>1. /\ n - d \in (p + 1) .. q /\ n - d + j \in 1 .. Len(wire') /\ n - d \in 1 .. Len(wire)
        /\ d + (n - d + j) = n + j /\ d + (n - d) = n
    BY <1>3, <1>6, <1>7
  <2>2. T'[d + (n - d + j)] = wire'[n - d + j] /\ T[d + (n - d)] = wire[n - d]
    BY <1>4, <2>1
  <2>3. wire'[n - d + j] = wire[n - d]
    BY <1>7, <2>1
  <2> QED
    BY <2>1, <2>2, <2>3
<1>12. ASSUME NEW n \in (j + 1) .. (Size + 2)
       PROVE  T'[(d + q) + n] = [m |-> sent + 1, i |-> n - 1]
  <2>1. q + n \in 1 .. Len(wire') /\ d + (q + n) = (d + q) + n /\ n \in 1 .. (Size + 2)
    BY <1>3, <1>7, SMTT(20)
  <2>2. T'[d + (q + n)] = wire'[q + n] /\ wire'[q + n] = f[n]
    BY <1>4, <1>7, <2>1
  <2> QED
    BY <1>5, <2>1, <2>2
<1>13. ASSUME NEW n \in ((d + q) + 1) .. Len(T) PROVE T'[n + (Size + 2)] = T[n]
  <2>1. /\ n - d \in (q + 1) .. Len(wire) /\ n - d + (Size + 2) \in 1 .. Len(wire')
        /\ n - d \in 1 .. Len(wire) /\ d + (n - d + (Size + 2)) = n + (Size + 2) /\ d + (n - d) = n
    BY <1>3, <1>4, <1>7
  <2>2. T'[d + (n - d + (Size + 2))] = wire'[n - d + (Size + 2)] /\ T[d + (n - d)] = wire[n - d]
    BY <1>3, <1>4, <2>1
  <2>3. wire'[n - d + (Size + 2)] = wire[n - d]
    BY <1>7, <2>1
  <2> QED
    BY <2>1, <2>2, <2>3
<1>14. T[d + p] = wire[p] /\ T[(d + p) + 1] = wire[p + 1]
  <2>1. p \in 1 .. Len(wire) /\ p + 1 \in 1 .. Len(wire) /\ d + (p + 1) = (d + p) + 1
    BY <1>3
  <2>2. T[d + p] = wire[p] /\ T[d + (p + 1)] = wire[p + 1]
    BY <1>4, <2>1
  <2> QED
    BY <2>1, <2>2
<1>15. d + p \in (L + 1) .. (Len(T) - 1) /\ d + q \in 1 .. Len(T)
  BY <1>3, <1>4, SMTT(30)
<1>16. /\ (j = Size + 2 /\ d + q = d + p) \/ (j < Size + 2 /\ d + q > d + p)
       /\ (q = p) <=> (d + q = d + p)
  BY <1>1, <1>3
<1>17. damaged' = damaged \union {sent} \union (IF d + q = d + p THEN {} ELSE {sent + 1})
  BY <1>1, <1>16
<1> DEFINE P == d + p
           Q == d + q
<1>18. L' = L /\ sent >= 1 /\ T[P].m = sent /\ T[P].i > 0 /\ T[P + 1].m = sent
  BY <1>1, <1>2, <1>3, <1>14
<1>19. SplicedIn(T, T', sent + 1, P, j, Q)
  BY <1>8, <1>9, <1>10, <1>11, <1>12, <1>13, Zenon DEF SplicedIn
<1> HIDE DEF P, Q
<1> QED
  BY <1>15, <1>16, <1>17, <1>18, <1>19 DEF P, Q

(* A frame is written behind everything under way. *)
LEMMA SendMoves ==
  ASSUME TypeOK, Send
  PROVE  /\ L' = L /\ Len(T') = Len(T) + (Size + 2) /\ sent' = sent + 1
         /\ \A n \in 1 .. Len(T) : T'[n] = T[n]
         /\ \A n \in 1 .. (Size + 2) : T'[Len(T) + n] = [m |-> sent + 1, i |-> n - 1]
<1>1. /\ wire' = wire \o Frame(sent + 1) /\ chunk' = chunk /\ _inputFrame' = _inputFrame
      /\ sent + 1 \in 1 .. MaxSent /\ sent' = sent + 1
  BY RoomToSend DEF Send
<1>2. Frame(sent + 1) \in Seq(Byte) /\ Len(Frame(sent + 1)) = Size + 2
  BY <1>1, FrameType
<1>3. \A n \in 1 .. (Size + 2) : Frame(sent + 1)[n] = [m |-> sent + 1, i |-> n - 1]
  BY DEF Frame
<1>4. PICK f \in Seq(Byte) : f = Frame(sent + 1)
  BY <1>2
<1>5. /\ L' = L /\ Len(T') = Len(T) + Len(f)
      /\ \A n \in 1 .. Len(T) : T'[n] = T[n]
      /\ \A n \in 1 .. Len(f) : T'[Len(T) + n] = f[n]
  BY <1>1, <1>4, LineGrows
<1> QED
  BY <1>1, <1>2, <1>3, <1>4, <1>5

(* A byte no frame contains is written behind everything under way. *)
LEMMA ConsoleMoves ==
  ASSUME TypeOK, Console
  PROVE  /\ L' = L /\ Len(T') = Len(T) + 1
         /\ \A n \in 1 .. Len(T) : T'[n] = T[n]
         /\ T'[Len(T) + 1].m = 0
<1>1. PICK b \in Byte :
        /\ wire' = wire \o <<b>> /\ b.m = 0
        /\ chunk' = chunk /\ _inputFrame' = _inputFrame
  <2>1. /\ Append(wire, Text) = wire \o <<Text>> /\ Append(wire, Tilde) = wire \o <<Tilde>>
    BY OneMore, SpecialBytes DEF TypeOK
  <2>2. Text.m = 0 /\ Tilde.m = 0
    BY DEF Text, Tilde
  <2>3. wire' = Append(wire, Text) \/ wire' = Append(wire, Tilde)
    BY DEF Console
  <2>4. chunk' = chunk /\ _inputFrame' = _inputFrame
    BY DEF Console
  <2>5. CASE wire' = Append(wire, Text)
    <3>1. wire' = wire \o <<Text>> /\ Text \in Byte
      BY <2>1, <2>5, SpecialBytes
    <3> QED
      BY <2>2, <2>4, <3>1, Zenon
  <2>6. CASE wire' = Append(wire, Tilde)
    <3>1. wire' = wire \o <<Tilde>> /\ Tilde \in Byte
      BY <2>1, <2>6, SpecialBytes
    <3> QED
      BY <2>2, <2>4, <3>1, Zenon
  <2> QED
    BY <2>3, <2>5, <2>6, Zenon
<1> <<b>> \in Seq(Byte)
  BY TextInOne, Zenon
<1>2. PICK f \in Seq(Byte) : f = <<b>>
  OBVIOUS
<1>3. /\ L' = L /\ Len(T') = Len(T) + Len(f)
      /\ \A n \in 1 .. Len(T) : T'[n] = T[n]
      /\ \A n \in 1 .. Len(f) : T'[Len(T) + n] = f[n]
  BY <1>1, <1>2, LineGrows
<1>4. Len(f) = 1 /\ f[1] = b /\ b.m = 0
  BY <1>1, <1>2
<1> QED
  BY <1>3, <1>4

-----------------------------------------------------------------------------
(* Order.  Behind a byte of message m's payload no later payload begins     *)
(* that is not a later message's: the frames lie on the line in the order   *)
(* of their numbers.                                                        *)
Chronological(bs) ==
  \A p \in 1 .. Len(bs), q \in 1 .. Len(bs) :
    (p < q /\ bs[p].m > 0 /\ bs[p].i > 0 /\ bs[q].m > 0 /\ bs[q].i = 1)
      => bs[p].m < bs[q].m

(* Only sent messages are under way, and a payload that begins on the line  *)
(* is later than everything delivered.                                      *)
InOrder(bs, s, del) ==
  /\ \A n \in 1 .. Len(bs) : bs[n].m <= s
  /\ Chronological(bs)
  /\ \A n \in 1 .. Len(bs), k \in 1 .. Len(del) :
       (bs[n].m > 0 /\ bs[n].i = 1) => del[k] < bs[n].m

OrderInv ==
  /\ IdleIsEmpty
  /\ InOrder(InTransit, sent, delivered)
  /\ \A k \in 1 .. Len(delivered) : delivered[k] <= sent

(* Losing bytes, and adding bytes no frame contains, keeps the order.       *)
LEMMA Thinned ==
  ASSUME NEW t \in Seq(Byte), NEW u \in Seq(Byte), NEW s \in Nat, NEW del \in Seq(Msgs),
         InOrder(t, s, del), NEW g \in [1 .. Len(u) -> Int],
         \A n \in 1 .. Len(u) : u[n].m # 0 => g[n] \in 1 .. Len(t) /\ u[n] = t[g[n]],
         \A a \in 1 .. Len(u), b \in 1 .. Len(u) : a < b => g[a] < g[b]
  PROVE  InOrder(u, s, del)
<1>1. ASSUME NEW n \in 1 .. Len(u) PROVE u[n].m \in Nat
  <2>1. u[n] \in Byte
    OBVIOUS
  <2> QED
    BY <2>1, BoundsAssumption DEF Byte
<1>2. ASSUME NEW n \in 1 .. Len(u) PROVE u[n].m <= s
  <2>1. CASE u[n].m = 0
    BY <2>1
  <2>2. CASE u[n].m # 0
    BY <2>2 DEF InOrder
  <2> QED
    BY <2>1, <2>2
<1>3. Chronological(u)
  <2> SUFFICES ASSUME NEW p \in 1 .. Len(u), NEW q \in 1 .. Len(u), p < q,
                      u[p].m > 0, u[p].i > 0, u[q].m > 0, u[q].i = 1
               PROVE  u[p].m < u[q].m
    BY DEF Chronological
  <2>1. g[p] \in 1 .. Len(t) /\ u[p] = t[g[p]] /\ g[q] \in 1 .. Len(t) /\ u[q] = t[g[q]]
    BY <1>1, SMTT(20)
  <2>2. g[p] < g[q]
    OBVIOUS
  <2> QED
    BY <2>1, <2>2 DEF InOrder, Chronological
<1>4. ASSUME NEW n \in 1 .. Len(u), NEW k \in 1 .. Len(del), u[n].m > 0, u[n].i = 1
      PROVE  del[k] < u[n].m
  <2>1. g[n] \in 1 .. Len(t) /\ u[n] = t[g[n]]
    BY <1>4
  <2> QED
    BY <1>4, <2>1 DEF InOrder
<1> QED
  BY <1>2, <1>3, <1>4 DEF InOrder

(* What the order is stated about, typed. *)
LEMMA TransitIsBytes == TypeOK => T \in Seq(Byte) /\ sent \in Nat /\ delivered \in Seq(Msgs)
  BY DEF TypeOK, T, InTransit

(* The two numbers of a byte. *)
LEMMA BytesAreNumbered ==
  ASSUME NEW t \in Seq(Byte), NEW n \in 1 .. Len(t)
  PROVE  t[n] \in Byte /\ t[n].m \in Nat /\ t[n].i \in Nat
<1>1. t[n] \in Byte
  OBVIOUS
<1> QED
  BY <1>1, BoundsAssumption, SizeAssumption DEF Byte

(* Steps that only lose or spoil bytes. *)
LEMMA OrderKept ==
  ASSUME TypeOK, TypeOK', InOrder(T, sent, delivered), sent' = sent, delivered' = delivered,
         NEW g \in [1 .. Len(T') -> Int],
         \A n \in 1 .. Len(T') : T'[n].m # 0 => g[n] \in 1 .. Len(T) /\ T'[n] = T[g[n]],
         \A a \in 1 .. Len(T'), b \in 1 .. Len(T') : a < b => g[a] < g[b]
  PROVE  InOrder(T', sent', delivered')
<1>1. T \in Seq(Byte) /\ sent \in Nat /\ delivered \in Seq(Msgs)
  BY TransitIsBytes
<1>2. T' \in Seq(Byte)
  BY DEF TypeOK, T, InTransit
<1>3. PICK t \in Seq(Byte), u \in Seq(Byte) : t = T /\ u = T'
  BY <1>1, <1>2
<1>4. InOrder(u, sent, delivered)
  BY <1>1, <1>3, Thinned
<1> QED
  BY <1>3, <1>4

(* Console text keeps the order. *)
LEMMA OrderConsole ==
  ASSUME TypeOK, TypeOK', InOrder(T, sent, delivered), Console
  PROVE  InOrder(T', sent', delivered')
<1>1. /\ Len(T') = Len(T) + 1 /\ \A n \in 1 .. Len(T) : T'[n] = T[n]
      /\ T'[Len(T) + 1].m = 0 /\ Len(T) \in Nat
  BY ConsoleMoves, TransitType
<1> DEFINE g == [n \in 1 .. Len(T') |-> n]
<1>2. g \in [1 .. Len(T') -> Int]
  BY <1>1
<1>3. ASSUME NEW n \in 1 .. Len(T'), T'[n].m # 0 PROVE g[n] \in 1 .. Len(T) /\ T'[n] = T[g[n]]
  BY <1>1, <1>3
<1>4. \A a \in 1 .. Len(T'), b \in 1 .. Len(T') : a < b => g[a] < g[b]
  OBVIOUS
<1>5. sent' = sent /\ delivered' = delivered
  BY DEF Console
<1> HIDE DEF g
<1> QED
  BY <1>2, <1>3, <1>4, <1>5, OrderKept

(* A lost or changed byte keeps the order. *)
LEMMA OrderDamage ==
  ASSUME TypeOK, TypeOK', InOrder(T, sent, delivered), Damage
  PROVE  InOrder(T', sent', delivered')
<1>1. PICK N \in (L + 1) .. Len(T) :
        \/ /\ Len(T') = Len(T) - 1
           /\ \A n \in 1 .. Len(T') : T'[n] = IF n < N THEN T[n] ELSE T[n + 1]
        \/ /\ Len(T') = Len(T) /\ T'[N].m = 0
           /\ \A n \in 1 .. Len(T') : n # N => T'[n] = T[n]
  BY DamageMoves
<1>2. sent' = sent /\ delivered' = delivered /\ Len(T) \in Nat /\ L \in Nat
  BY TransitType DEF Damage
<1>3. CASE /\ Len(T') = Len(T) - 1
           /\ \A n \in 1 .. Len(T') : T'[n] = IF n < N THEN T[n] ELSE T[n + 1]
  <2> DEFINE g == [n \in 1 .. Len(T') |-> IF n < N THEN n ELSE n + 1]
  <2>1. g \in [1 .. Len(T') -> Int]
    OBVIOUS
  <2>2. ASSUME NEW n \in 1 .. Len(T') PROVE g[n] \in 1 .. Len(T) /\ T'[n] = T[g[n]]
    BY <1>2, <1>3
  <2>3. \A a \in 1 .. Len(T'), b \in 1 .. Len(T') : a < b => g[a] < g[b]
    BY <1>2
  <2> HIDE DEF g
  <2> QED
    BY <1>2, <2>1, <2>2, <2>3, OrderKept
<1>4. CASE /\ Len(T') = Len(T) /\ T'[N].m = 0
           /\ \A n \in 1 .. Len(T') : n # N => T'[n] = T[n]
  <2> DEFINE g == [n \in 1 .. Len(T') |-> n]
  <2>1. g \in [1 .. Len(T') -> Int]
    OBVIOUS
  <2>2. ASSUME NEW n \in 1 .. Len(T'), T'[n].m # 0
        PROVE  g[n] \in 1 .. Len(T) /\ T'[n] = T[g[n]]
    BY <1>2, <1>4, <2>2
  <2>3. \A a \in 1 .. Len(T'), b \in 1 .. Len(T') : a < b => g[a] < g[b]
    OBVIOUS
  <2> HIDE DEF g
  <2> QED
    BY <1>2, <2>1, <2>2, <2>3, OrderKept
<1> QED
  BY <1>1, <1>3, <1>4

(* The receiver takes bytes from the front. *)
LEMMA OrderTaken ==
  ASSUME TypeOK, TypeOK', InOrder(T, sent, delivered), sent' = sent,
         NEW d \in Nat, Len(T') = Len(T) - d, \A n \in 1 .. Len(T') : T'[n] = T[n + d]
  PROVE  InOrder(T', sent, delivered)
<1>1. Len(T) \in Nat /\ T \in Seq(Byte) /\ sent \in Nat /\ delivered \in Seq(Msgs)
  BY TransitType, TransitIsBytes
<1>2. T' \in Seq(Byte)
  BY DEF TypeOK, T, InTransit
<1> DEFINE g == [n \in 1 .. Len(T') |-> n + d]
<1>3. g \in [1 .. Len(T') -> Int]
  OBVIOUS
<1>4. ASSUME NEW n \in 1 .. Len(T') PROVE g[n] \in 1 .. Len(T) /\ T'[n] = T[g[n]]
  BY <1>1
<1>5. \A a \in 1 .. Len(T'), b \in 1 .. Len(T') : a < b => g[a] < g[b]
  OBVIOUS
<1> HIDE DEF g
<1>6. PICK t \in Seq(Byte), u \in Seq(Byte) : t = T /\ u = T'
  BY <1>1, <1>2
<1>7. InOrder(u, sent, delivered)
  BY <1>1, <1>3, <1>4, <1>5, <1>6, Thinned
<1> QED
  BY <1>6, <1>7

(* The timeout keeps the order. *)
LEMMA OrderEndOfChunk ==
  ASSUME TypeOK, TypeOK', InOrder(T, sent, delivered), EndOfChunk
  PROVE  InOrder(T', sent', delivered')
<1>1. sent' = sent /\ delivered' = delivered /\ L \in Nat
  BY TransitType DEF EndOfChunk
<1>2. CASE T' = T
  BY <1>1, <1>2
<1>3. CASE Len(T') = Len(T) - L /\ \A n \in 1 .. Len(T') : T'[n] = T[n + L]
  BY <1>1, <1>3, OrderTaken
<1> QED
  BY <1>2, <1>3, EndOfChunkMoves

(* A new frame, in one piece or in two, where no payload begins behind it:  *)
(* g tells where an old byte was, and is 0 for a byte of the new frame.     *)
LEMMA Inserted ==
  ASSUME NEW t \in Seq(Byte), NEW u \in Seq(Byte), NEW s \in Nat, NEW del \in Seq(Msgs),
         InOrder(t, s, del), \A k \in 1 .. Len(del) : del[k] <= s,
         NEW P \in Nat, NEW g \in [1 .. Len(u) -> Int],
         \A n \in 1 .. Len(u) : g[n] # 0 => g[n] \in 1 .. Len(t) /\ u[n] = t[g[n]],
         \A n \in 1 .. Len(u) : g[n] = 0 => n > P /\ u[n].m = s + 1,
         \A a \in 1 .. Len(u), b \in 1 .. Len(u) :
           a < b /\ g[a] # 0 /\ g[b] # 0 => g[a] < g[b],
         \A a \in 1 .. Len(u), b \in 1 .. Len(u) :
           a < b /\ g[a] = 0 /\ g[b] = 0 => u[a].i < u[b].i,
         \A n \in 1 .. Len(u) : n > P /\ g[n] # 0 => g[n] > P,
         \A q \in 1 .. Len(t) : q > P /\ t[q].m > 0 => t[q].i # 1
  PROVE  InOrder(u, s + 1, del)
<1>1. ASSUME NEW n \in 1 .. Len(u), g[n] # 0
      PROVE  g[n] \in 1 .. Len(t) /\ u[n] = t[g[n]] /\ u[n].m \in Nat /\ u[n].m <= s
  <2>1. g[n] \in 1 .. Len(t) /\ u[n] = t[g[n]]
    BY <1>1
  <2>2. u[n].m \in Nat
    BY BytesAreNumbered
  <2> QED
    BY <2>1, <2>2 DEF InOrder
<1>2. \A n \in 1 .. Len(u) : u[n].m <= s + 1
  BY <1>1
<1>3. Chronological(u)
  <2> SUFFICES ASSUME NEW p \in 1 .. Len(u), NEW q \in 1 .. Len(u), p < q,
                      u[p].m > 0, u[p].i > 0, u[q].m > 0, u[q].i = 1
               PROVE  u[p].m < u[q].m
    BY DEF Chronological
  <2>1. CASE g[p] # 0 /\ g[q] # 0
    <3>1. g[p] < g[q]
      BY <2>1
    <3>2. /\ g[p] \in 1 .. Len(t) /\ u[p] = t[g[p]]
          /\ g[q] \in 1 .. Len(t) /\ u[q] = t[g[q]]
      BY <1>1, <2>1
    <3> QED
      BY <3>1, <3>2 DEF InOrder, Chronological
  <2>2. CASE g[p] # 0 /\ g[q] = 0
    BY <1>1, <2>2
  <2>3. CASE g[p] = 0 /\ g[q] # 0
    <3>1. p > P
      BY <2>3
    <3>2. q > P
      BY <3>1
    <3>3. g[q] > P /\ g[q] \in 1 .. Len(t) /\ u[q] = t[g[q]]
      BY <1>1, <2>3, <3>2
    <3> QED
      BY <3>3
  <2>4. CASE g[p] = 0 /\ g[q] = 0
    <3>1. u[p].i < u[q].i /\ u[p].i \in Nat
      BY <2>4, BytesAreNumbered
    <3> QED
      BY <3>1
  <2> QED
    BY <2>1, <2>2, <2>3, <2>4
<1>4. ASSUME NEW n \in 1 .. Len(u), NEW k \in 1 .. Len(del), u[n].m > 0, u[n].i = 1
      PROVE  del[k] < u[n].m
  <2>1. CASE g[n] # 0
    <3>1. g[n] \in 1 .. Len(t) /\ u[n] = t[g[n]]
      BY <2>1
    <3> QED
      BY <1>4, <3>1 DEF InOrder
  <2>2. CASE g[n] = 0
    <3>1. del[k] \in Msgs /\ del[k] <= s /\ u[n].m = s + 1
      BY <2>2
    <3> QED
      BY <3>1, BoundsAssumption DEF Msgs
  <2> QED
    BY <2>1, <2>2
<1> QED
  BY <1>2, <1>3, <1>4 DEF InOrder

(* A new frame behind the others keeps the order. *)
LEMMA OrderSend ==
  ASSUME TypeOK, TypeOK', InOrder(T, sent, delivered), Send,
         \A k \in 1 .. Len(delivered) : delivered[k] <= sent
  PROVE  InOrder(T', sent', delivered')
<1>1. /\ Len(T') = Len(T) + (Size + 2) /\ sent' = sent + 1 /\ delivered' = delivered
      /\ \A n \in 1 .. Len(T) : T'[n] = T[n]
      /\ \A n \in 1 .. (Size + 2) : T'[Len(T) + n] = [m |-> sent + 1, i |-> n - 1]
  BY SendMoves DEF Send
<1>2. T \in Seq(Byte) /\ Len(T) \in Nat /\ sent \in Nat /\ delivered \in Seq(Msgs) /\ Size \in Nat
  BY TransitIsBytes, SizeAssumption
<1>3. T' \in Seq(Byte)
  BY DEF TypeOK, T, InTransit
<1>4. ASSUME NEW n \in 1 .. Len(T'), n > Len(T)
      PROVE  T'[n].m = sent + 1 /\ T'[n].i = n - Len(T) - 1
  <2>1. n - Len(T) \in 1 .. (Size + 2) /\ Len(T) + (n - Len(T)) = n
    BY <1>1, <1>2, <1>4
  <2>2. T'[n] = [m |-> sent + 1, i |-> n - Len(T) - 1]
    BY <1>1, <2>1
  <2> QED
    BY <2>2
<1> DEFINE g == [n \in 1 .. Len(T') |-> IF n <= Len(T) THEN n ELSE 0]
<1>5. g \in [1 .. Len(T') -> Int]
  OBVIOUS
<1>6. ASSUME NEW n \in 1 .. Len(T')
      PROVE  /\ g[n] # 0 => n <= Len(T) /\ g[n] \in 1 .. Len(T) /\ g[n] = n /\ T'[n] = T[g[n]]
             /\ g[n] = 0 => n > Len(T) /\ T'[n].m = sent + 1 /\ T'[n].i = n - Len(T) - 1
  BY <1>1, <1>2, <1>4
<1> HIDE DEF g
<1>7. PICK t \in Seq(Byte), u \in Seq(Byte) : t = T /\ u = T'
  BY <1>2, <1>3
<1>8. \A a \in 1 .. Len(u), b \in 1 .. Len(u) :
        a < b /\ g[a] # 0 /\ g[b] # 0 => g[a] < g[b]
  BY <1>6, <1>7
<1>9. \A a \in 1 .. Len(u), b \in 1 .. Len(u) :
        a < b /\ g[a] = 0 /\ g[b] = 0 => u[a].i < u[b].i
  BY <1>2, <1>6, <1>7
<1>10. \A n \in 1 .. Len(u) : g[n] # 0 => g[n] \in 1 .. Len(t) /\ u[n] = t[g[n]]
  BY <1>6, <1>7
<1>11. \A n \in 1 .. Len(u) : g[n] = 0 => n > Len(t) /\ u[n].m = sent + 1
  BY <1>6, <1>7
<1>12. \A n \in 1 .. Len(u) : n > Len(t) /\ g[n] # 0 => g[n] > Len(t)
  BY <1>6, <1>7
<1>13. \A q \in 1 .. Len(t) : q > Len(t) /\ t[q].m > 0 => t[q].i # 1
  BY <1>2, <1>7
<1>14. InOrder(t, sent, delivered) /\ g \in [1 .. Len(u) -> Int] /\ Len(t) \in Nat
  BY <1>2, <1>5, <1>7
<1>15. InOrder(u, sent + 1, delivered)
  BY <1>2, <1>8, <1>9, <1>10, <1>11, <1>12, <1>13, <1>14, Inserted, Zenon
<1> QED
  BY <1>1, <1>7, <1>15

(* A new frame inside the last one keeps the order. *)
LEMMA OrderSplicedIn ==
  ASSUME NEW t \in Seq(Byte), NEW u \in Seq(Byte), NEW s \in Nat, NEW del \in Seq(Msgs),
         InOrder(t, s, del), \A k \in 1 .. Len(del) : del[k] <= s,
         NEW P \in 1 .. Len(t), NEW j \in 1 .. (Size + 2), NEW Q \in P .. Len(t),
         t[P].m = s, t[P].i > 0, s > 0, SplicedIn(t, u, s + 1, P, j, Q)
  PROVE  InOrder(u, s + 1, del)
<1>1. /\ Len(t) \in Nat /\ Size \in Nat /\ P \in Nat /\ Q \in Nat /\ j \in Nat
      /\ P <= Q /\ P >= 1 /\ j <= Size + 2 /\ P <= Len(t) /\ Q <= Len(t)
      /\ Len(u) = Len(t) + (Size + 2)
  BY SizeAssumption DEF SplicedIn
<1> DEFINE g == [n \in 1 .. Len(u) |->
                   IF n <= P THEN n
                   ELSE IF n <= P + j THEN 0
                   ELSE IF n <= Q + j THEN n - j
                   ELSE IF n <= Q + (Size + 2) THEN 0
                   ELSE n - (Size + 2)]
<1>2. g \in [1 .. Len(u) -> Int]
  BY <1>1, SMTT(20)
<1>3. ASSUME NEW n \in 1 .. Len(u), n <= P PROVE g[n] = n /\ u[n] = t[n]
  BY <1>3 DEF SplicedIn
<1>4. ASSUME NEW n \in 1 .. Len(u), n > P, n <= P + j
      PROVE  g[n] = 0 /\ u[n].m = s + 1 /\ u[n].i = n - P - 1
  <2>1. n - P \in 1 .. j /\ P + (n - P) = n
    BY <1>1, <1>4
  <2>2. u[P + (n - P)] = [m |-> s + 1, i |-> (n - P) - 1]
    BY <2>1 DEF SplicedIn
  <2>3. g[n] = 0
    BY <1>1, <1>4
  <2> QED
    BY <2>1, <2>2, <2>3
<1>5. ASSUME NEW n \in 1 .. Len(u), n > P + j, n <= Q + j PROVE g[n] = n - j /\ u[n] = t[n - j]
  <2>1. n - j \in (P + 1) .. Q /\ (n - j) + j = n
    BY <1>1, <1>5
  <2>2. u[n] = t[n - j]
    BY <2>1 DEF SplicedIn
  <2>3. g[n] = n - j
    BY <1>1, <1>5
  <2> QED
    BY <2>2, <2>3
<1>6. ASSUME NEW n \in 1 .. Len(u), n > Q + j, n <= Q + (Size + 2)
      PROVE  g[n] = 0 /\ u[n].m = s + 1 /\ u[n].i = n - Q - 1
  <2>1. n - Q \in (j + 1) .. (Size + 2) /\ Q + (n - Q) = n
    BY <1>1, <1>6
  <2>2. u[n] = [m |-> s + 1, i |-> n - Q - 1]
    BY <2>1 DEF SplicedIn
  <2>3. g[n] = 0
    BY <1>1, <1>6
  <2> QED
    BY <2>2, <2>3
<1>7. ASSUME NEW n \in 1 .. Len(u), n > Q + (Size + 2)
      PROVE  g[n] = n - (Size + 2) /\ u[n] = t[n - (Size + 2)]
  <2>1. n - (Size + 2) \in (Q + 1) .. Len(t) /\ (n - (Size + 2)) + (Size + 2) = n
    BY <1>1, <1>7
  <2>2. u[n] = t[n - (Size + 2)]
    BY <2>1 DEF SplicedIn
  <2>3. g[n] = n - (Size + 2)
    BY <1>1, <1>7
  <2> QED
    BY <2>2, <2>3
<1> HIDE DEF g
(* The five stretches of u. *)
<1>8. ASSUME NEW n \in 1 .. Len(u)
      PROVE  \/ n <= P /\ g[n] = n /\ u[n] = t[n]
             \/ n > P /\ n <= P + j /\ g[n] = 0 /\ u[n].m = s + 1 /\ u[n].i = n - P - 1
             \/ n > P + j /\ n <= Q + j /\ g[n] = n - j /\ u[n] = t[n - j]
             \/ /\ n > Q + j /\ n <= Q + (Size + 2) /\ g[n] = 0
                /\ u[n].m = s + 1 /\ u[n].i = n - Q - 1
             \/ n > Q + (Size + 2) /\ g[n] = n - (Size + 2) /\ u[n] = t[n - (Size + 2)]
  <2>1. \/ n <= P
        \/ n > P /\ n <= P + j
        \/ n > P + j /\ n <= Q + j
        \/ n > Q + j /\ n <= Q + (Size + 2)
        \/ n > Q + (Size + 2)
    BY <1>1
  <2> QED
    BY <1>3, <1>4, <1>5, <1>6, <1>7, <2>1, Zenon
<1>9. ASSUME NEW n \in 1 .. Len(u), g[n] # 0
      PROVE  g[n] \in 1 .. Len(t) /\ u[n] = t[g[n]] /\ (n > P => g[n] > P)
  <2>1. \/ n <= P /\ g[n] = n /\ u[n] = t[n]
        \/ n > P + j /\ n <= Q + j /\ g[n] = n - j /\ u[n] = t[n - j]
        \/ n > Q + (Size + 2) /\ g[n] = n - (Size + 2) /\ u[n] = t[n - (Size + 2)]
    BY <1>8, <1>9, Zenon
  <2>2. CASE n <= P /\ g[n] = n /\ u[n] = t[n]
    BY <1>1, <2>2
  <2>3. CASE n > P + j /\ n <= Q + j /\ g[n] = n - j /\ u[n] = t[n - j]
    <3>1. n - j \in 1 .. Len(t) /\ n - j > P
      BY <1>1, <2>3
    <3> QED
      BY <2>3, <3>1
  <2>4. CASE n > Q + (Size + 2) /\ g[n] = n - (Size + 2) /\ u[n] = t[n - (Size + 2)]
    <3>1. n - (Size + 2) \in 1 .. Len(t) /\ n - (Size + 2) > P
      BY <1>1, <2>4
    <3> QED
      BY <2>4, <3>1
  <2> QED
    BY <2>1, <2>2, <2>3, <2>4
<1>10. ASSUME NEW n \in 1 .. Len(u), g[n] = 0
       PROVE  /\ n > P /\ u[n].m = s + 1
              /\ \/ n <= P + j /\ u[n].i = n - P - 1
                 \/ n > Q + j /\ n <= Q + (Size + 2) /\ u[n].i = n - Q - 1
  <2>1. \/ n <= P /\ g[n] = n
        \/ n > P /\ n <= P + j /\ g[n] = 0 /\ u[n].m = s + 1 /\ u[n].i = n - P - 1
        \/ n > P + j /\ g[n] = n - j
        \/ /\ n > Q + j /\ n <= Q + (Size + 2) /\ g[n] = 0
           /\ u[n].m = s + 1 /\ u[n].i = n - Q - 1
        \/ n > Q + (Size + 2) /\ g[n] = n - (Size + 2)
    BY <1>8, Zenon
  <2> QED
    BY <1>1, <1>10, <2>1
<1>11. ASSUME NEW a \in 1 .. Len(u), NEW b \in 1 .. Len(u), a < b, g[a] # 0, g[b] # 0
       PROVE  g[a] < g[b]
  <2>1. \/ a <= P /\ g[a] = a
        \/ a > P + j /\ a <= Q + j /\ g[a] = a - j
        \/ a > Q + (Size + 2) /\ g[a] = a - (Size + 2)
    BY <1>8, <1>11, Zenon
  <2>2. \/ b <= P /\ g[b] = b
        \/ b > P + j /\ b <= Q + j /\ g[b] = b - j
        \/ b > Q + (Size + 2) /\ g[b] = b - (Size + 2)
    BY <1>8, <1>11, Zenon
  <2>3. a \in Nat /\ b \in Nat
    BY <1>1
  <2>4. CASE b <= P /\ g[b] = b
    BY <1>1, <1>11, <2>1, <2>3, <2>4
  <2>5. CASE b > P + j /\ b <= Q + j /\ g[b] = b - j
    BY <1>1, <1>11, <2>1, <2>3, <2>5
  <2>6. CASE b > Q + (Size + 2) /\ g[b] = b - (Size + 2)
    BY <1>1, <1>11, <2>1, <2>3, <2>6
  <2> QED
    BY <2>2, <2>4, <2>5, <2>6
<1>12. ASSUME NEW a \in 1 .. Len(u), NEW b \in 1 .. Len(u), a < b, g[a] = 0, g[b] = 0
       PROVE  u[a].i < u[b].i
  <2>1. /\ a > P /\ b > P
        /\ \/ a <= P + j /\ u[a].i = a - P - 1
           \/ a > Q + j /\ a <= Q + (Size + 2) /\ u[a].i = a - Q - 1
        /\ \/ b <= P + j /\ u[b].i = b - P - 1
           \/ b > Q + j /\ b <= Q + (Size + 2) /\ u[b].i = b - Q - 1
    BY <1>10, <1>12, Zenon
  <2> QED
    BY <1>1, <1>12, <2>1
<1>13. ASSUME NEW q \in 1 .. Len(t), q > P, t[q].m > 0 PROVE t[q].i # 1
  <2>1. t[q].m <= s /\ t[q].m \in Nat
    BY BytesAreNumbered DEF InOrder
  <2>2. t[q].i = 1 => t[P].m < t[q].m
    BY <1>13, <2>1 DEF InOrder, Chronological
  <2> QED
    BY <2>1, <2>2
<1>14. P \in Nat
  BY <1>1
<1>16. /\ \A n \in 1 .. Len(u) : g[n] # 0 => g[n] \in 1 .. Len(t) /\ u[n] = t[g[n]]
       /\ \A n \in 1 .. Len(u) : g[n] = 0 => n > P /\ u[n].m = s + 1
       /\ \A a \in 1 .. Len(u), b \in 1 .. Len(u) :
            a < b /\ g[a] # 0 /\ g[b] # 0 => g[a] < g[b]
       /\ \A a \in 1 .. Len(u), b \in 1 .. Len(u) :
            a < b /\ g[a] = 0 /\ g[b] = 0 => u[a].i < u[b].i
       /\ \A n \in 1 .. Len(u) : n > P /\ g[n] # 0 => g[n] > P
       /\ \A q \in 1 .. Len(t) : q > P /\ t[q].m > 0 => t[q].i # 1
  BY <1>9, <1>10, <1>11, <1>12, <1>13, Zenon
<1> QED
  BY <1>2, <1>14, <1>16, Inserted, Zenon

(* The same, for the step. *)
LEMMA OrderSendInside ==
  ASSUME TypeOK, TypeOK', InOrder(T, sent, delivered), SendInside,
         \A k \in 1 .. Len(delivered) : delivered[k] <= sent
  PROVE  InOrder(T', sent', delivered')
<1>1. PICK P \in (L + 1) .. (Len(T) - 1), j \in 1 .. (Size + 2), Q \in 1 .. Len(T) :
        /\ (j = Size + 2 /\ Q = P) \/ (j < Size + 2 /\ Q > P)
        /\ T[P].m = sent /\ T[P].i > 0 /\ sent >= 1
        /\ SplicedIn(T, T', sent + 1, P, j, Q)
  BY SendInsideMoves
<1>2. /\ T \in Seq(Byte) /\ Len(T) \in Nat /\ sent \in Nat /\ delivered \in Seq(Msgs)
      /\ L \in Nat /\ P \in 1 .. Len(T) /\ Q \in P .. Len(T) /\ sent > 0
  BY <1>1, TransitIsBytes, TransitType
<1>3. T' \in Seq(Byte) /\ sent' = sent + 1 /\ delivered' = delivered
  BY DEF TypeOK, T, InTransit, SendInside
<1>4. PICK t \in Seq(Byte), u \in Seq(Byte) : t = T /\ u = T'
  BY <1>2, <1>3
<1>5. /\ InOrder(t, sent, delivered) /\ P \in 1 .. Len(t) /\ Q \in P .. Len(t)
      /\ t[P].m = sent /\ t[P].i > 0 /\ SplicedIn(t, u, sent + 1, P, j, Q)
  BY <1>1, <1>2, <1>4
<1>6. InOrder(u, sent + 1, delivered)
  BY <1>2, <1>5, OrderSplicedIn, Zenon
<1> QED
  BY <1>3, <1>4, <1>6

(* What a FLAG delivers: nothing, or the message whose payload has been at  *)
(* the front since.                                                        *)
LEMMA Delivers ==
  ASSUME TypeOK, InOrder(T, sent, delivered), HandleFlag
  PROVE  \/ delivered' = delivered /\ Accepted(_inputFrame) = {}
         \/ \E m \in 1 .. sent :
              /\ delivered' = Append(delivered, m) /\ _inputFrame = Body(m)
              /\ L = Size /\ 1 \in 1 .. Len(T) /\ T[1].m = m /\ T[1].i = 1
              /\ \A k \in 1 .. Len(delivered) : delivered[k] < m
<1>1. delivered' = delivered \o SetToSeq(Accepted(_inputFrame)) /\ delivered \in Seq(Msgs)
  BY DEF HandleFlag, HandleFrame, TypeOK
<1>2. CASE Accepted(_inputFrame) = {}
  <2>1. SetToSeq(Accepted(_inputFrame)) = <<>>
    BY <1>2, AcceptedIsOne
  <2>2. delivered' = delivered
    BY <1>1, <2>1
  <2> QED
    BY <1>2, <2>2
<1>3. ASSUME NEW m \in Accepted(_inputFrame)
      PROVE  /\ m \in 1 .. sent /\ delivered' = Append(delivered, m) /\ _inputFrame = Body(m)
             /\ L = Size /\ 1 \in 1 .. Len(T) /\ T[1].m = m /\ T[1].i = 1
             /\ \A k \in 1 .. Len(delivered) : delivered[k] < m
  <2>1. m \in Msgs /\ _inputFrame = Body(m) /\ SetToSeq(Accepted(_inputFrame)) = <<m>>
    BY AcceptedIsOne
  <2>2. L = Size
    BY <2>1, SizeAssumption DEF L, Body
  <2>3. Body(m)[1] = [m |-> m, i |-> 1]
    BY SizeAssumption DEF Body
  <2>4. 1 \in 1 .. Len(T) /\ T[1] = [m |-> m, i |-> 1]
    BY <2>1, <2>2, <2>3, SizeAssumption, TransitType
  <2>5. T[1].m = m /\ T[1].i = 1
    BY <2>4
  <2>6. m \in 1 .. sent
    BY <2>1, <2>4, <2>5 DEF InOrder, Msgs, TypeOK
  <2>7. \A k \in 1 .. Len(delivered) : delivered[k] < m
    BY <2>4, <2>5, <2>6 DEF InOrder
  <2>8. delivered' = Append(delivered, m)
    BY <1>1, <2>1
  <2> QED
    BY <2>1, <2>2, <2>4, <2>5, <2>6, <2>7, <2>8
<1> QED
  BY <1>2, <1>3

(* What a FLAG does keeps the order, and what it delivers is in order. *)
LEMMA OrderHandleFlag ==
  ASSUME TypeOK, TypeOK', InOrder(T, sent, delivered), HandleFlag,
         \A k \in 1 .. Len(delivered) : delivered[k] <= sent
  PROVE  /\ InOrder(T', sent', delivered')
         /\ \A k \in 1 .. Len(delivered') : delivered'[k] <= sent'
<1>1. /\ Len(T') = Len(T) - (L + 1) /\ \A n \in 1 .. Len(T') : T'[n] = T[n + (L + 1)]
      /\ L \in Nat /\ Len(T) \in Nat
  BY HandleFlagMoves, TransitType
<1>2. sent' = sent /\ L + 1 \in Nat /\ delivered \in Seq(Msgs) /\ sent \in Nat
  BY <1>1 DEF HandleFlag, TypeOK
<1>3. InOrder(T', sent, delivered)
  BY <1>1, <1>2, OrderTaken
<1>4. CASE delivered' = delivered
  BY <1>2, <1>3, <1>4
<1>5. ASSUME NEW m \in 1 .. sent, delivered' = Append(delivered, m),
             1 \in 1 .. Len(T), T[1].m = m, T[1].i = 1
      PROVE  /\ InOrder(T', sent', delivered')
             /\ \A k \in 1 .. Len(delivered') : delivered'[k] <= sent'
  <2>1. ASSUME NEW k \in 1 .. Len(delivered')
        PROVE  delivered'[k] = m \/ (k \in 1 .. Len(delivered) /\ delivered'[k] = delivered[k])
    BY <1>2, <1>5
  <2>2. ASSUME NEW n \in 1 .. Len(T'), T'[n].m > 0, T'[n].i = 1 PROVE m < T'[n].m
    <3>1. n + (L + 1) \in 1 .. Len(T) /\ 1 < n + (L + 1) /\ T'[n] = T[n + (L + 1)]
      BY <1>1
    <3> QED
      BY <1>5, <2>2, <3>1 DEF InOrder, Chronological
  <2>3. InOrder(T', sent, delivered')
    BY <1>3, <2>1, <2>2 DEF InOrder
  <2> QED
    BY <1>2, <2>1, <2>3
<1> QED
  BY <1>4, <1>5, Delivers

(* Between two calls of toFrames no chunk is left over. *)
LEMMA IdleStep == IdleIsEmpty /\ [Next]_vars => IdleIsEmpty'
  BY DEF IdleIsEmpty, Next, vars, Send, SendInside, Console, Damage, Read, HandleFlag,
         HandleByte, EndOfChunk, Stall

(* The order of the frames is kept by every step. *)
LEMMA OrderStep == TypeOK /\ TypeOK' /\ OrderInv /\ [Next]_vars => OrderInv'
<1> SUFFICES ASSUME TypeOK, TypeOK', OrderInv, [Next]_vars PROVE OrderInv'
  OBVIOUS
<1>1. /\ IdleIsEmpty /\ InOrder(T, sent, delivered)
      /\ \A k \in 1 .. Len(delivered) : delivered[k] <= sent
      /\ sent \in Nat /\ delivered \in Seq(Msgs)
  BY DEF OrderInv, TypeOK, T
<1>2. \A k \in 1 .. Len(delivered) : delivered[k] <= sent + 1
  <2> SUFFICES ASSUME NEW k \in 1 .. Len(delivered) PROVE delivered[k] <= sent + 1
    OBVIOUS
  <2>1. delivered[k] \in Nat /\ delivered[k] <= sent
    BY <1>1, BoundsAssumption DEF Msgs
  <2> QED
    BY <1>1, <2>1
<1>3. /\ InOrder(T', sent', delivered')
      /\ \A k \in 1 .. Len(delivered') : delivered'[k] <= sent'
  <2>1. CASE UNCHANGED vars \/ Stall
    <3>1. T' = T /\ sent' = sent /\ delivered' = delivered
      BY <2>1 DEF vars, Stall, T, InTransit
    <3> QED
      BY <1>1, <3>1
  <2>2. CASE Send
    BY <1>1, <1>2, <2>2, OrderSend DEF Send
  <2>3. CASE SendInside
    BY <1>1, <1>2, <2>3, OrderSendInside DEF SendInside
  <2>4. CASE Console
    BY <1>1, <2>4, OrderConsole DEF Console
  <2>5. CASE Damage
    BY <1>1, <2>5, OrderDamage DEF Damage
  <2>6. ASSUME NEW k \in 1 .. Len(wire), Read(k)
        PROVE  /\ InOrder(T', sent', delivered')
               /\ \A n \in 1 .. Len(delivered') : delivered'[n] <= sent'
    BY <1>1, <2>6, ReadMoves DEF Read
  <2>7. CASE HandleFlag
    BY <1>1, <2>7, OrderHandleFlag
  <2>8. CASE HandleByte
    BY <1>1, <2>8, HandleByteMoves DEF HandleByte
  <2>9. CASE EndOfChunk
    BY <1>1, <2>9, OrderEndOfChunk DEF EndOfChunk
  <2> QED
    BY <2>1, <2>2, <2>3, <2>4, <2>5, <2>6, <2>7, <2>8, <2>9 DEF Next
<1> QED
  BY <1>1, <1>3, IdleStep DEF OrderInv, T

(* Nothing is under way at first. *)
LEMMA OrderInit == Init => OrderInv
<1> SUFFICES ASSUME Init PROVE OrderInv
  OBVIOUS
<1>1. T = <<>> /\ delivered = <<>> /\ chunk = <<>>
  BY DEF Init, T, InTransit
<1> QED
  BY <1>1 DEF OrderInv, IdleIsEmpty, InOrder, Chronological, T

(* No loss, damage, console text, chunk boundary, timeout or writing thread *)
(* makes the receiver see the messages in another order: the frames under   *)
(* way are in order and later than everything delivered.                    *)
THEOREM FramesInOrder == Spec => []OrderInv
<1>1. OrderInv /\ TypeOK /\ TypeOK' /\ [Next]_vars => OrderInv'
  BY OrderStep
<1> QED
  BY <1>1, OrderInit, FramingTypes, PTL DEF Spec

(* A step of the framing is a step of the channel, or changes neither what  *)
(* was sent nor what was delivered.                                        *)
LEMMA ChannelStep ==
  TypeOK /\ OrderInv /\ [Next]_vars
    => [Channel!CSend \/ Channel!CDeliver]_<<sent, delivered>>
<1> SUFFICES ASSUME TypeOK, OrderInv, [Next]_vars
             PROVE  \/ Channel!CSend \/ Channel!CDeliver
                    \/ sent' = sent /\ delivered' = delivered
  OBVIOUS
<1>1. CASE Send \/ SendInside
  BY <1>1 DEF Send, SendInside, Channel!CSend
<1>2. CASE HandleFlag
  <2>1. sent' = sent /\ InOrder(T, sent, delivered) /\ delivered \in Seq(Msgs)
    BY <1>2 DEF HandleFlag, OrderInv, T, TypeOK
  <2>2. CASE delivered' = delivered
    BY <2>1, <2>2
  <2>3. ASSUME NEW m \in 1 .. sent, delivered' = Append(delivered, m),
               \A k \in 1 .. Len(delivered) : delivered[k] < m
        PROVE  Channel!CDeliver
    <3>1. ASSUME delivered # <<>> PROVE m > delivered[Len(delivered)]
      <4>1. Len(delivered) \in 1 .. Len(delivered)
        BY <2>1, <3>1
      <4>2. delivered[Len(delivered)] \in Msgs
        BY <2>1, <4>1
      <4> QED
        BY <2>3, <4>1, <4>2, BoundsAssumption DEF Msgs
    <3> QED
      BY <2>1, <2>3, <3>1 DEF Channel!CDeliver
  <2> QED
    BY <1>2, <2>1, <2>2, <2>3, Delivers
<1>3. ASSUME NEW k \in 1 .. Len(wire), Read(k) PROVE sent' = sent /\ delivered' = delivered
  BY <1>3 DEF Read
<1>4. CASE UNCHANGED vars \/ Console \/ Damage \/ HandleByte \/ EndOfChunk \/ Stall
  BY <1>4 DEF vars, Console, Damage, HandleByte, EndOfChunk, Stall
<1> QED
  BY <1>1, <1>2, <1>3, <1>4 DEF Next

(* FrameToBytes and FrameExtractor implement the channel: whatever happens  *)
(* on the line, what is emitted was sent, once, and in the order sent.      *)
THEOREM FramingImplementsChannel == Spec => ImplementsChannel
<1>1. Init => Channel!CInit
  BY DEF Init, Channel!CInit
<1>2. TypeOK /\ OrderInv /\ [Next]_vars => [Channel!CSend \/ Channel!CDeliver]_<<sent, delivered>>
  BY ChannelStep
<1> QED
  BY <1>1, <1>2, FramingTypes, FramesInOrder, PTL DEF Spec, ImplementsChannel, Channel!CSpec

-----------------------------------------------------------------------------
(* Damage stays local.  Until it is delivered, an intact message lies whole *)
(* in transit: its bytes at positions b + 1 .. b + Size between its FLAGs    *)
(* at b and b + Size + 1.  Either the receiver's buffer ends before b, or    *)
(* (b = 0) the first FLAG has been looked at and the buffer, which was       *)
(* emptied by it, begins with the payload and will not be dropped for its    *)
(* age.                                                                    *)
RunAt(bs, m, b) ==
  \A i \in 0 .. (Size + 1) :
    b > 0 \/ i > 0 => b + i \in 1 .. Len(bs) /\ bs[b + i].m = m /\ bs[b + i].i = i

Lies(bs, l, tooOld, m, b) ==
  /\ b > l \/ (b = 0 /\ ~tooOld /\ l <= Size)
  /\ RunAt(bs, m, b)

Whole(bs, l, tooOld, m) == \E b \in Nat : Lies(bs, l, tooOld, m, b)

Arrived(m) == \E k \in 1 .. Len(delivered) : delivered[k] = m

WholeInv ==
  stalls = 0 =>
    \A m \in 1 .. sent : m \in damaged \/ Arrived(m) \/ Whole(InTransit, Len(_inputFrame), expired, m)

(* A run that is copied to another place.                                   *)
LEMMA RunCopied ==
  ASSUME NEW t, NEW u, NEW m, NEW b \in Nat, NEW c \in Nat, RunAt(t, m, b),
         \A i \in 0 .. (Size + 1) :
           c > 0 \/ i > 0 => (b > 0 \/ i > 0) /\ c + i \in 1 .. Len(u) /\ u[c + i] = t[b + i]
  PROVE  RunAt(u, m, c)
<1> SUFFICES ASSUME NEW i \in 0 .. (Size + 1), c > 0 \/ i > 0
             PROVE  c + i \in 1 .. Len(u) /\ u[c + i].m = m /\ u[c + i].i = i
  BY DEF RunAt
<1>1. (b > 0 \/ i > 0) /\ c + i \in 1 .. Len(u) /\ u[c + i] = t[b + i]
  OBVIOUS
<1>2. t[b + i].m = m /\ t[b + i].i = i
  BY <1>1 DEF RunAt
<1> QED
  BY <1>1, <1>2

(* Bytes added at the end. *)
LEMMA WholePrefix ==
  ASSUME NEW t \in Seq(Byte), NEW u \in Seq(Byte), NEW l, NEW x, NEW m, NEW b \in Nat,
         Lies(t, l, x, m, b), NEW e \in Nat, b + Size + 1 <= e, e <= Len(u),
         \A n \in 1 .. e : u[n] = t[n]
  PROVE  Whole(u, l, x, m)
<1>1. RunAt(u, m, b)
  <2>1. ASSUME NEW i \in 0 .. (Size + 1), b > 0 \/ i > 0
        PROVE  b + i \in 1 .. Len(u) /\ u[b + i] = t[b + i]
    <3>1. b + i \in 1 .. e /\ Len(u) \in Nat
      BY <2>1, SizeAssumption
    <3> QED
      BY <3>1
  <2> QED
    BY <2>1, RunCopied DEF Lies
<1> QED
  BY <1>1 DEF Lies, Whole

(* A run ends within the sequence. *)
LEMMA RunEnds ==
  ASSUME NEW t, NEW l, NEW x, NEW m, NEW b \in Nat, Lies(t, l, x, m, b)
  PROVE  b + Size + 1 <= Len(t) /\ b + Size + 1 \in 1 .. Len(t)
<1>1. Size + 1 \in 0 .. (Size + 1) /\ Size + 1 > 0
  BY SizeAssumption
<1>2. b + (Size + 1) \in 1 .. Len(t)
  BY <1>1 DEF Lies, RunAt
<1> QED
  BY <1>2, SizeAssumption

(* A new frame leaves the runs of the others whole. *)
LEMMA WholeSend ==
  ASSUME TypeOK, TypeOK', Send, NEW m \in 1 .. sent', m # sent',  Whole(T, L, expired, m)
  PROVE  Whole(T', L', expired', m)
<1>1. /\ L' = L /\ expired' = expired /\ Len(T) \in Nat /\ Len(T') = Len(T) + (Size + 2)
      /\ \A n \in 1 .. Len(T) : T'[n] = T[n]
  BY SendMoves, TransitType DEF Send
<1> T \in Seq(Byte) /\ T' \in Seq(Byte)
  BY DEF TypeOK, T, InTransit
<1>2. PICK t \in Seq(Byte), u \in Seq(Byte) : t = T /\ u = T'
  OBVIOUS
<1>3. PICK b \in Nat : Lies(t, L, expired, m, b)
  BY <1>2 DEF Whole
<1>4. b + Size + 1 <= Len(t)
  BY <1>3, RunEnds
<1>5. Len(t) \in Nat /\ Len(t) <= Len(u) /\ \A n \in 1 .. Len(t) : u[n] = t[n]
  BY <1>1, <1>2, SizeAssumption
<1>6. Whole(u, L, expired, m)
  BY <1>3, <1>4, <1>5, WholePrefix
<1> QED
  BY <1>1, <1>2, <1>6

(* Console text leaves every run whole. *)
LEMMA WholeConsole ==
  ASSUME TypeOK, TypeOK', Console, NEW m, Whole(T, L, expired, m)
  PROVE  Whole(T', L', expired', m)
<1>1. /\ L' = L /\ expired' = expired /\ Len(T) \in Nat /\ Len(T') = Len(T) + 1
      /\ \A n \in 1 .. Len(T) : T'[n] = T[n]
  BY ConsoleMoves, TransitType DEF Console
<1> T \in Seq(Byte) /\ T' \in Seq(Byte)
  BY DEF TypeOK, T, InTransit
<1>2. PICK t \in Seq(Byte), u \in Seq(Byte) : t = T /\ u = T'
  OBVIOUS
<1>3. PICK b \in Nat : Lies(t, L, expired, m, b)
  BY <1>2 DEF Whole
<1>4. b + Size + 1 <= Len(t)
  BY <1>3, RunEnds
<1>5. Len(t) \in Nat /\ Len(t) <= Len(u) /\ \A n \in 1 .. Len(t) : u[n] = t[n]
  BY <1>1, <1>2
<1>6. Whole(u, L, expired, m)
  BY <1>3, <1>4, <1>5, WholePrefix
<1> QED
  BY <1>1, <1>2, <1>6

(* The new frame itself. *)
LEMMA WholeNew ==
  ASSUME NEW t \in Seq(Byte), NEW u \in Seq(Byte), NEW l \in Nat, NEW x, NEW m,
         NEW P \in Nat, l <= P, P + Size + 2 <= Len(u),
         \A n \in 1 .. (Size + 2) : u[P + n] = [m |-> m, i |-> n - 1]
  PROVE  Whole(u, l, x, m)
<1>1. RunAt(u, m, P + 1)
  <2> SUFFICES ASSUME NEW i \in 0 .. (Size + 1)
               PROVE  P + 1 + i \in 1 .. Len(u) /\ u[P + 1 + i].m = m /\ u[P + 1 + i].i = i
    BY DEF RunAt
  <2>1. i + 1 \in 1 .. (Size + 2) /\ P + (i + 1) = P + 1 + i /\ (i + 1) - 1 = i
    BY SizeAssumption
  <2>2. u[P + 1 + i] = [m |-> m, i |-> i]
    BY <2>1
  <2>3. P + 1 + i \in 1 .. Len(u)
    BY SizeAssumption
  <2> QED
    BY <2>2, <2>3
<1>2. P + 1 \in Nat /\ P + 1 > l
  OBVIOUS
<1> QED
  BY <1>1, <1>2 DEF Whole, Lies

(* A frame that has just been written is whole. *)
LEMMA WholeSent ==
  ASSUME TypeOK, TypeOK', Send
  PROVE  Whole(T', L', expired', sent')
<1>1. /\ L' = L /\ L \in Nat /\ L <= Len(T) /\ Len(T) \in Nat /\ sent' = sent + 1
      /\ Len(T') = Len(T) + (Size + 2)
      /\ \A n \in 1 .. (Size + 2) : T'[Len(T) + n] = [m |-> sent + 1, i |-> n - 1]
  BY SendMoves, TransitType
<1> T \in Seq(Byte) /\ T' \in Seq(Byte)
  BY DEF TypeOK, T, InTransit
<1>2. PICK t \in Seq(Byte), u \in Seq(Byte) : t = T /\ u = T'
  OBVIOUS
<1>3. /\ L <= Len(t) /\ Len(t) \in Nat /\ Len(t) + Size + 2 <= Len(u)
      /\ \A n \in 1 .. (Size + 2) : u[Len(t) + n] = [m |-> sent + 1, i |-> n - 1]
  BY <1>1, <1>2, SizeAssumption
<1>4. Whole(u, L, expired', sent + 1)
  BY <1>1, <1>3, WholeNew
<1> QED
  BY <1>1, <1>2, <1>4

(* A frame written into the last one tears that one, and no other. *)
LEMMA WholeSplicedIn ==
  ASSUME NEW t \in Seq(Byte), NEW u \in Seq(Byte), NEW s \in Nat, NEW del, InOrder(t, s, del),
         NEW P \in 1 .. Len(t), NEW j \in 1 .. (Size + 2), NEW Q \in P .. Len(t),
         t[P].m = s, t[P].i > 0, SplicedIn(t, u, s + 1, P, j, Q),
         NEW l, NEW x, NEW m \in 1 .. s, m # s, Whole(t, l, x, m)
  PROVE  Whole(u, l, x, m)
<1>1. PICK b \in Nat : Lies(t, l, x, m, b)
  BY DEF Whole
<1>2. b + 1 \in 1 .. Len(t) /\ t[b + 1].m = m /\ t[b + 1].i = 1
  <2>1. 1 \in 0 .. (Size + 1) /\ 1 > 0
    BY SizeAssumption
  <2> QED
    BY <1>1, <2>1 DEF Lies, RunAt
<1>3. b + 1 <= P
  <2>1. ASSUME P < b + 1 PROVE FALSE
    <3>1. t[P].m < t[b + 1].m
      BY <1>2, <2>1 DEF InOrder, Chronological
    <3> QED
      BY <1>2, <3>1
  <2> QED
    BY <1>2, <2>1
<1>4. b + Size + 1 <= P
  <2>1. ASSUME P < b + Size + 1 PROVE FALSE
    <3>1. P - b \in 0 .. (Size + 1) /\ P - b > 0 /\ b + (P - b) = P
      BY <1>3, <2>1, SizeAssumption
    <3>2. t[b + (P - b)].m = m
      BY <1>1, <3>1 DEF Lies, RunAt
    <3> QED
      BY <3>1, <3>2
  <2> QED
    BY <2>1, SizeAssumption
<1>5. P <= Len(u) /\ P \in Nat /\ \A n \in 1 .. P : u[n] = t[n]
  <2>1. Len(u) = Len(t) + (Size + 2) /\ \A n \in 1 .. P : u[n] = t[n]
    BY DEF SplicedIn
  <2> QED
    BY <2>1, SizeAssumption
<1> QED
  BY <1>1, <1>4, <1>5, WholePrefix

(* The same, for the step: the frame written inside is whole in one piece. *)
LEMMA WholeSendInside ==
  ASSUME TypeOK, TypeOK', OrderInv, SendInside, NEW m \in 1 .. sent', m \notin damaged',
         m # sent' => Whole(T, L, expired, m)
  PROVE  Whole(T', L', expired', m)
<1>1. PICK P \in (L + 1) .. (Len(T) - 1), j \in 1 .. (Size + 2), Q \in 1 .. Len(T) :
        /\ L' = L
        /\ (j = Size + 2 /\ Q = P) \/ (j < Size + 2 /\ Q > P)
        /\ T[P].m = sent /\ T[P].i > 0
        /\ damaged' = damaged \union {sent} \union (IF Q = P THEN {} ELSE {sent + 1})
        /\ SplicedIn(T, T', sent + 1, P, j, Q)
  BY SendInsideMoves
<1>2. /\ Len(T) \in Nat /\ sent \in Nat /\ L \in Nat /\ P \in 1 .. Len(T) /\ Q \in P .. Len(T)
      /\ InOrder(T, sent, delivered) /\ sent' = sent + 1 /\ expired' = expired
  <2>1. Len(T) \in Nat /\ sent \in Nat /\ L \in Nat
    BY TransitIsBytes, TransitType
  <2>2. InOrder(T, sent, delivered)
    BY DEF OrderInv, T
  <2>3. sent' = sent + 1 /\ expired' = expired
    BY DEF SendInside
  <2> QED
    BY <1>1, <2>1, <2>2, <2>3
<1> T \in Seq(Byte) /\ T' \in Seq(Byte)
  BY DEF TypeOK, T, InTransit
<1>3. PICK t \in Seq(Byte), u \in Seq(Byte) : t = T /\ u = T'
  OBVIOUS
<1>4. /\ InOrder(t, sent, delivered) /\ P \in 1 .. Len(t) /\ Q \in P .. Len(t)
      /\ t[P].m = sent /\ t[P].i > 0 /\ SplicedIn(t, u, sent + 1, P, j, Q)
  BY <1>1, <1>2, <1>3
<1>5. m # sent /\ (m = sent + 1 => Q = P /\ j = Size + 2)
  BY <1>1, <1>2
<1>6. CASE m = sent + 1
  <2>1. /\ Len(u) = Len(t) + (Size + 2)
        /\ \A n \in 1 .. (Size + 2) : u[P + n] = [m |-> m, i |-> n - 1]
    BY <1>4, <1>5, <1>6 DEF SplicedIn
  <2>2. L <= P /\ P \in Nat /\ P + Size + 2 <= Len(u)
    BY <1>1, <1>2, <1>4, <2>1, SizeAssumption
  <2>3. Whole(u, L, expired, m)
    BY <1>2, <2>1, <2>2, WholeNew
  <2> QED
    BY <1>1, <1>2, <1>3, <2>3
<1>7. CASE m # sent + 1
  <2>1. m \in 1 .. sent /\ Whole(t, L, expired, m)
    BY <1>2, <1>3, <1>7
  <2>2. Whole(u, L, expired, m)
    BY <1>2, <1>4, <1>5, <2>1, WholeSplicedIn
  <2> QED
    BY <1>1, <1>2, <1>3, <2>2
<1> QED
  BY <1>6, <1>7

(* Damage to another frame leaves a run whole. *)
LEMMA WholeDamage ==
  ASSUME TypeOK, TypeOK', Damage, NEW m, m \notin damaged', m # 0, Whole(T, L, expired, m)
  PROVE  Whole(T', L', expired', m)
<1>1. PICK N \in (L + 1) .. Len(T) :
        /\ L' = L /\ damaged' = damaged \union {T[N].m}
        /\ \/ /\ Len(T') = Len(T) - 1
              /\ \A n \in 1 .. Len(T') : T'[n] = IF n < N THEN T[n] ELSE T[n + 1]
           \/ /\ Len(T') = Len(T) /\ T'[N].m = 0
              /\ \A n \in 1 .. Len(T') : n # N => T'[n] = T[n]
  BY DamageMoves
<1>2. T[N].m # m /\ expired' = expired /\ L \in Nat /\ Len(T) \in Nat /\ N \in Nat /\ N > L /\ N <= Len(T)
  BY <1>1, TransitType DEF Damage
<1> T \in Seq(Byte) /\ T' \in Seq(Byte)
  BY DEF TypeOK, T, InTransit
<1>3. PICK t \in Seq(Byte), u \in Seq(Byte) : t = T /\ u = T'
  OBVIOUS
<1>4. PICK b \in Nat : Lies(t, L, expired, m, b)
  BY <1>3 DEF Whole
<1>5. b + Size + 1 <= Len(t) /\ (b > L \/ b = 0)
  BY <1>4, RunEnds DEF Lies
(* The byte is outside the run. *)
<1>6. N < b \/ N > b + Size + 1
  <2>1. ASSUME N >= b, N <= b + Size + 1 PROVE FALSE
    <3>1. N - b \in 0 .. (Size + 1) /\ b + (N - b) = N /\ (b > 0 \/ N - b > 0)
      BY <1>2, <2>1, SizeAssumption
    <3>2. t[b + (N - b)].m = m
      BY <1>4, <3>1 DEF Lies, RunAt
    <3> QED
      BY <1>2, <1>3, <3>1, <3>2
  <2> QED
    BY <1>2, <2>1, SizeAssumption
<1>7. CASE /\ Len(T') = Len(T) - 1
           /\ \A n \in 1 .. Len(T') : T'[n] = IF n < N THEN T[n] ELSE T[n + 1]
  <2>1. Len(u) = Len(t) - 1 /\ \A n \in 1 .. Len(u) : u[n] = IF n < N THEN t[n] ELSE t[n + 1]
    BY <1>3, <1>7
  <2>2. CASE N < b
    <3>1. b - 1 \in Nat /\ b - 1 > L /\ b > 0
      BY <1>2, <1>5, <2>2
    <3>2. ASSUME NEW i \in 0 .. (Size + 1)
          PROVE  b - 1 + i \in 1 .. Len(u) /\ u[b - 1 + i] = t[b + i]
      <4>1. /\ b - 1 + i \in 1 .. Len(u) /\ ~(b - 1 + i < N) /\ (b - 1 + i) + 1 = b + i
        BY <1>2, <1>3, <1>5, <2>1, <2>2, <3>1, SizeAssumption
      <4> QED
        BY <2>1, <4>1
    <3>3. RunAt(u, m, b - 1)
      BY <1>4, <3>1, <3>2, RunCopied DEF Lies
    <3>4. Whole(u, L, expired, m)
      BY <3>1, <3>3 DEF Whole, Lies
    <3> QED
      BY <1>1, <1>2, <1>3, <3>4
  <2>3. CASE N > b + Size + 1
    <3>1. N - 1 \in Nat /\ b + Size + 1 <= N - 1 /\ N - 1 <= Len(u)
      BY <1>2, <1>3, <2>1, <2>3, SizeAssumption
    <3>2. \A n \in 1 .. (N - 1) : u[n] = t[n]
      BY <1>2, <2>1, <3>1
    <3>3. Whole(u, L, expired, m)
      BY <1>4, <3>1, <3>2, WholePrefix
    <3> QED
      BY <1>1, <1>2, <1>3, <3>3
  <2> QED
    BY <1>6, <2>2, <2>3
<1>8. CASE /\ Len(T') = Len(T) /\ T'[N].m = 0
           /\ \A n \in 1 .. Len(T') : n # N => T'[n] = T[n]
  <2>1. Len(u) = Len(t) /\ \A n \in 1 .. Len(u) : n # N => u[n] = t[n]
    BY <1>3, <1>8
  <2>2. ASSUME NEW i \in 0 .. (Size + 1), b > 0 \/ i > 0
        PROVE  b + i \in 1 .. Len(u) /\ u[b + i] = t[b + i]
    <3>1. b + i \in 1 .. Len(u) /\ b + i # N
      BY <1>2, <1>3, <1>5, <1>6, <2>1, <2>2, SizeAssumption
    <3> QED
      BY <2>1, <3>1
  <2>3. RunAt(u, m, b)
    BY <1>4, <2>2, RunCopied DEF Lies
  <2>4. Whole(u, L, expired, m)
    BY <1>4, <2>3 DEF Whole, Lies
  <2> QED
    BY <1>1, <1>2, <1>3, <2>4
<1> QED
  BY <1>1, <1>7, <1>8

(* A byte taken into the buffer leaves every run whole. *)
LEMMA WholeHandleByte ==
  ASSUME TypeOK, TypeOK', HandleByte, NEW m, Whole(T, L, expired, m)
  PROVE  Whole(T', L', expired', m)
<1>1. T' = T /\ L' = L + 1 /\ L \in Nat /\ L < Len(T) /\ ~IsFlag(T[L + 1]) /\ expired' = expired
  BY HandleByteMoves, TransitType DEF HandleByte
<1>2. PICK b \in Nat : Lies(T, L, expired, m, b)
  BY DEF Whole
<1>3. T[L + 1].i # 0 /\ T[L + 1].i # Size + 1
  BY <1>1 DEF IsFlag
<1>4. CASE b = 0
  <2>1. L <= Size /\ ~expired
    BY <1>1, <1>2, <1>4 DEF Lies
  <2>2. L # Size
    <3>1. ASSUME L = Size PROVE FALSE
      <4>1. Size + 1 \in 0 .. (Size + 1) /\ Size + 1 > 0 /\ b + (Size + 1) = L + 1
        BY <1>4, <3>1, SizeAssumption
      <4>2. T[b + (Size + 1)].i = Size + 1
        BY <1>2, <4>1 DEF Lies, RunAt
      <4> QED
        BY <1>3, <4>1, <4>2
    <3> QED
      BY <3>1
  <2>3. L + 1 <= Size
    BY <1>1, <2>1, <2>2, SizeAssumption
  <2> QED
    BY <1>1, <1>2, <1>4, <2>1, <2>3 DEF Whole, Lies
<1>5. CASE b > L
  <2>1. b # L + 1
    <3>1. ASSUME b = L + 1 PROVE FALSE
      <4>1. 0 \in 0 .. (Size + 1) /\ b > 0 /\ b + 0 = L + 1
        BY <1>1, <3>1, SizeAssumption
      <4>2. T[b + 0].i = 0
        BY <1>2, <4>1 DEF Lies, RunAt
      <4> QED
        BY <1>3, <4>1, <4>2
    <3> QED
      BY <3>1
  <2>2. b > L + 1
    BY <1>1, <1>5, <2>1
  <2> QED
    BY <1>1, <1>2, <2>2 DEF Whole, Lies
<1> QED
  BY <1>2, <1>4, <1>5 DEF Lies

(* Looking at bytes that are in front of the run. *)
LEMMA WholeTaken ==
  ASSUME NEW t, NEW u, NEW l \in Nat, NEW x, NEW y, NEW m, NEW b \in Nat, NEW d \in Nat,
         Lies(t, l, x, m, b), d <= b, b > 0, b = d => ~y,
         Len(t) \in Nat, Len(u) = Len(t) - d, \A n \in 1 .. Len(u) : u[n] = t[n + d]
  PROVE  Whole(u, 0, y, m)
<1>1. b - d \in Nat /\ b + Size + 1 <= Len(t)
  BY RunEnds
<1>2. ASSUME NEW i \in 0 .. (Size + 1), b - d > 0 \/ i > 0
      PROVE  (b > 0 \/ i > 0) /\ b - d + i \in 1 .. Len(u) /\ u[b - d + i] = t[b + i]
  <2>1. b - d + i \in 1 .. Len(u) /\ (b - d + i) + d = b + i
    BY <1>1, <1>2, SizeAssumption
  <2> QED
    BY <2>1
<1>3. RunAt(u, m, b - d)
  BY <1>1, <1>2, RunCopied DEF Lies
<1>4. b - d > 0 \/ (b - d = 0 /\ ~y /\ 0 <= Size)
  BY <1>1, SizeAssumption
<1> QED
  BY <1>1, <1>3, <1>4 DEF Whole, Lies

(* The timeout leaves a run whole that lies behind the buffer. *)
LEMMA WholeEndOfChunk ==
  ASSUME TypeOK, TypeOK', EndOfChunk, NEW m, Whole(T, L, expired, m)
  PROVE  Whole(T', L', expired', m)
<1>1. expired' = expired /\ L \in Nat /\ Len(T) \in Nat
  BY TransitType DEF EndOfChunk
<1>2. CASE ~expired /\ L' = L /\ T' = T
  BY <1>1, <1>2
<1>3. CASE expired /\ L' = 0 /\ Len(T') = Len(T) - L /\ \A n \in 1 .. Len(T') : T'[n] = T[n + L]
  <2>1. PICK b \in Nat : Lies(T, L, expired, m, b)
    BY DEF Whole
  <2>2. b > L
    BY <1>3, <2>1 DEF Lies
  <2>3. PICK t, u : t = T /\ u = T'
    OBVIOUS
  <2>4. Lies(t, L, expired, m, b)
    BY <2>1, <2>3
  <2>5. L <= b /\ b > 0 /\ b # L
    BY <1>1, <2>2
  <2>6. Len(t) \in Nat /\ Len(u) = Len(t) - L /\ \A n \in 1 .. Len(u) : u[n] = t[n + L]
    BY <1>1, <1>3, <2>3
  <2>7. Whole(u, 0, expired, m)
    BY <1>1, <2>4, <2>5, <2>6, WholeTaken
  <2> QED
    BY <1>1, <1>3, <2>3, <2>7
<1> QED
  BY <1>2, <1>3, EndOfChunkMoves

(* A FLAG leaves a run whole that lies behind it, and delivers the one it ends. *)
LEMMA WholeHandleFlag ==
  ASSUME TypeOK, TypeOK', HandleFlag, NEW m \in 1 .. sent, Whole(T, L, expired, m)
  PROVE  Whole(T', L', expired', m) \/ (\E k \in 1 .. Len(delivered') : delivered'[k] = m)
<1>1. /\ L' = 0 /\ L < Len(T) /\ IsFlag(T[L + 1]) /\ Len(T') = Len(T) - (L + 1)
      /\ \A n \in 1 .. Len(T') : T'[n] = T[n + (L + 1)]
      /\ L \in Nat /\ Len(T) \in Nat
  BY HandleFlagMoves, TransitType
<1>2. expired' = FALSE
  BY DEF HandleFlag
<1>3. PICK b \in Nat : Lies(T, L, expired, m, b)
  BY DEF Whole
<1>4. CASE b > L
  <2>1. PICK t, u : t = T /\ u = T'
    OBVIOUS
  <2>2. /\ Lies(t, L, expired, m, b) /\ L + 1 \in Nat /\ L + 1 <= b /\ b > 0
        /\ Len(t) \in Nat /\ Len(u) = Len(t) - (L + 1)
        /\ \A n \in 1 .. Len(u) : u[n] = t[n + (L + 1)]
    BY <1>1, <1>3, <1>4, <2>1
  <2>3. Whole(u, 0, FALSE, m)
    BY <1>1, <2>2, WholeTaken
  <2> QED
    BY <1>1, <1>2, <2>1, <2>3
<1>5. CASE b = 0
  <2>1. L <= Size
    BY <1>1, <1>3, <1>5 DEF Lies
  <2>2. ASSUME NEW i \in 1 .. (Size + 1) PROVE T[i].m = m /\ T[i].i = i
    <3>1. i \in 0 .. (Size + 1) /\ i > 0 /\ b + i = i
      BY <1>5, SizeAssumption
    <3>2. T[b + i].m = m /\ T[b + i].i = i
      BY <1>3, <3>1 DEF Lies, RunAt
    <3> QED
      BY <3>1, <3>2
  <2>3. L = Size
    <3>1. L + 1 \in 1 .. (Size + 1)
      BY <1>1, <2>1, SizeAssumption
    <3>2. T[L + 1].i = L + 1
      BY <2>2, <3>1
    <3> QED
      BY <1>1, <2>1, <3>2, SizeAssumption DEF IsFlag
  <2>4. _inputFrame = Body(m)
    <3>1. _inputFrame \in Seq(Byte) /\ Len(_inputFrame) = Size /\ Size \in Nat
      BY <2>3, SizeAssumption DEF TypeOK, L
    <3>2. ASSUME NEW n \in 1 .. Size PROVE _inputFrame[n] = [m |-> m, i |-> n]
      <4>1. _inputFrame[n] = T[n]
        BY <2>3, TransitType
      <4>2. T[n].m = m /\ T[n].i = n
        BY <2>2, SizeAssumption
      <4>3. _inputFrame[n] \in Byte
        BY <3>1
      <4> QED
        BY <4>1, <4>2, <4>3 DEF Byte
    <3> QED
      BY <3>1, <3>2 DEF Body
  <2>5. m \in Accepted(_inputFrame)
    BY <2>4, BoundsAssumption DEF Accepted, Msgs, TypeOK
  <2>6. delivered' = delivered \o <<m>> /\ delivered \in Seq(Msgs)
    BY <2>5, AcceptedIsOne DEF HandleFlag, HandleFrame, TypeOK
  <2>7. Len(delivered) + 1 \in 1 .. Len(delivered') /\ delivered'[Len(delivered) + 1] = m
    BY <2>6
  <2> QED
    BY <2>7
<1> QED
  BY <1>3, <1>4, <1>5 DEF Lies

(* Every step keeps intact messages whole or delivered. *)
LEMMA WholeStep ==
  TypeOK /\ TypeOK' /\ OrderInv /\ WholeInv /\ [Next]_vars => WholeInv'
<1> SUFFICES ASSUME TypeOK, TypeOK', OrderInv, WholeInv, [Next]_vars, stalls' = 0,
                    NEW m \in 1 .. sent', m \notin damaged'
             PROVE  \/ \E k \in 1 .. Len(delivered') : delivered'[k] = m
                    \/ Whole(T', L', expired', m)
  BY DEF WholeInv, Arrived, T, L
<1>1. ~Stall /\ stalls = 0 /\ damaged \subseteq damaged'
  <2>1. ~Stall
    BY DEF TypeOK, Stall
  <2>2. CASE UNCHANGED vars
    BY <2>1, <2>2 DEF vars
  <2>3. CASE Send \/ Console \/ (\E k \in 1 .. Len(wire) : Read(k))
    BY <2>1, <2>3 DEF Send, Console, Read
  <2>4. CASE HandleFlag \/ HandleByte \/ EndOfChunk
    BY <2>1, <2>4 DEF HandleFlag, HandleByte, EndOfChunk
  <2>5. CASE SendInside
    BY <2>1, <2>5 DEF SendInside
  <2>6. CASE Damage
    BY <2>1, <2>6 DEF Damage
  <2> QED
    BY <2>1, <2>2, <2>3, <2>4, <2>5, <2>6 DEF Next
<1>2. m \in 1 .. sent =>
        (\E k \in 1 .. Len(delivered) : delivered[k] = m) \/ Whole(T, L, expired, m)
  BY <1>1 DEF WholeInv, Arrived, T, L
<1>3. CASE UNCHANGED vars
  <2>1. /\ T' = T /\ L' = L /\ expired' = expired /\ delivered' = delivered /\ sent' = sent
    BY <1>3 DEF vars, T, L, InTransit
  <2> QED
    BY <1>2, <2>1
<1>4. CASE Send
  <2>1. sent' = sent + 1 /\ delivered' = delivered /\ sent \in Nat
    BY <1>4 DEF Send, TypeOK
  <2>2. CASE m = sent'
    BY <1>4, <2>2, WholeSent
  <2>3. CASE m # sent'
    <3>1. m \in 1 .. sent
      BY <2>1, <2>3
    <3> QED
      BY <1>2, <1>4, <2>1, <2>3, <3>1, WholeSend
  <2> QED
    BY <2>2, <2>3
<1>5. CASE SendInside
  <2>1. sent' = sent + 1 /\ delivered' = delivered /\ sent \in Nat
    BY <1>5 DEF SendInside, TypeOK
  <2>2. m # sent' => m \in 1 .. sent
    BY <2>1
  <2> QED
    BY <1>2, <1>5, <2>1, <2>2, WholeSendInside
<1>6. CASE Console
  <2>1. sent' = sent /\ delivered' = delivered
    BY <1>6 DEF Console
  <2> QED
    BY <1>2, <1>6, <2>1, WholeConsole
<1>7. CASE Damage
  <2>1. sent' = sent /\ delivered' = delivered /\ m # 0
    BY <1>7 DEF Damage
  <2> QED
    BY <1>2, <1>7, <2>1, WholeDamage
<1>8. ASSUME NEW k \in 1 .. Len(wire), Read(k)
      PROVE  \/ \E n \in 1 .. Len(delivered') : delivered'[n] = m
             \/ Whole(T', L', expired', m)
  <2>1. T' = T /\ L' = L
    BY <1>8, ReadMoves DEF OrderInv
  <2>2. sent' = sent /\ delivered' = delivered /\ expired' = expired
    BY <1>8 DEF Read
  <2> QED
    BY <1>2, <2>1, <2>2
<1>9. CASE HandleFlag
  <2>1. sent' = sent /\ m \in 1 .. sent
    BY <1>9 DEF HandleFlag
  <2>2. ASSUME NEW k \in 1 .. Len(delivered), delivered[k] = m
        PROVE  \E n \in 1 .. Len(delivered') : delivered'[n] = m
    <3>1. PICK new \in Seq(Msgs) : delivered' = delivered \o new
      <4>1. delivered' = delivered \o SetToSeq(Accepted(_inputFrame))
        BY <1>9 DEF HandleFlag, HandleFrame
      <4>2. CASE Accepted(_inputFrame) = {}
        <5>1. SetToSeq(Accepted(_inputFrame)) = <<>>
          BY <4>2, AcceptedIsOne
        <5>2. <<>> \in Seq(Msgs)
          OBVIOUS
        <5> QED
          BY <4>1, <5>1, <5>2
      <4>3. ASSUME NEW a \in Accepted(_inputFrame)
            PROVE  \E new \in Seq(Msgs) : delivered' = delivered \o new
        <5>1. SetToSeq(Accepted(_inputFrame)) = <<a>> /\ <<a>> \in Seq(Msgs)
          BY AcceptedIsOne
        <5> QED
          BY <4>1, <5>1
      <4> QED
        BY <4>2, <4>3
    <3>2. delivered \in Seq(Msgs)
      BY DEF TypeOK
    <3>3. k \in 1 .. Len(delivered') /\ delivered'[k] = delivered[k]
      BY <3>1, <3>2
    <3> QED
      BY <2>2, <3>3
  <2> QED
    BY <1>2, <1>9, <2>1, <2>2, WholeHandleFlag
<1>10. CASE HandleByte
  <2>1. sent' = sent /\ delivered' = delivered
    BY <1>10 DEF HandleByte
  <2> QED
    BY <1>2, <1>10, <2>1, WholeHandleByte
<1>11. CASE EndOfChunk
  <2>1. sent' = sent /\ delivered' = delivered
    BY <1>11 DEF EndOfChunk
  <2> QED
    BY <1>2, <1>11, <2>1, WholeEndOfChunk
<1> QED
  BY <1>1, <1>3, <1>4, <1>5, <1>6, <1>7, <1>8, <1>9, <1>10, <1>11 DEF Next

(* Damage stays local: unless the timeout strikes, a message none of whose  *)
(* own bytes was damaged or torn apart has been emitted when its closing    *)
(* FLAG has been looked at, whatever happened to its neighbours or to the   *)
(* frame it was written into.                                              *)
THEOREM IntactFramesArrive == Spec => []IntactDelivered
<1>1. Init => WholeInv
  BY DEF Init, WholeInv
<1>2. TypeOK /\ TypeOK' /\ OrderInv /\ WholeInv /\ [Next]_vars => WholeInv'
  BY WholeStep
<1>3. TypeOK /\ WholeInv => IntactDelivered
  <2> SUFFICES ASSUME TypeOK, WholeInv, stalls = 0, NEW m \in (1 .. sent) \ damaged
               PROVE  Contains(delivered, m) \/ Contains(chunk \o wire, [m |-> m, i |-> Size + 1])
    BY DEF IntactDelivered
  <2>1. CASE Arrived(m)
    BY <2>1 DEF Arrived, Contains
  <2>2. CASE Whole(T, L, expired, m)
    <3>1. PICK b \in Nat : Lies(T, L, expired, m, b)
      BY <2>2 DEF Whole
    <3>2. Size + 1 \in 0 .. (Size + 1) /\ Size + 1 > 0 /\ Size \in Nat
      BY SizeAssumption
    <3>3. /\ b + (Size + 1) \in 1 .. Len(T) /\ T[b + (Size + 1)].m = m
          /\ T[b + (Size + 1)].i = Size + 1
      BY <3>1, <3>2 DEF Lies, RunAt
    <3>4. b + (Size + 1) > L
      BY <3>1, <3>2, TransitType DEF Lies
    <3>5. T[b + (Size + 1)] = [m |-> m, i |-> Size + 1]
      <4>1. T \in Seq(Byte)
        BY TransitIsBytes DEF T
      <4>2. T[b + (Size + 1)] \in Byte
        BY <3>3, <4>1
      <4> QED
        BY <3>3, <4>2 DEF Byte
    <3>6. PICK a \in Seq(Byte), c \in Seq(Byte), w \in Seq(Byte) :
            a = _inputFrame /\ c = chunk /\ w = wire
      BY DEF TypeOK
    <3>7. T = a \o (c \o w) /\ L = Len(a) /\ c \o w \in Seq(Byte)
      BY <3>6, ConcatAssociative DEF T, L, InTransit
    <3>8. PICK v \in Seq(Byte) : v = c \o w
      BY <3>7
    <3>9. b + (Size + 1) - L \in 1 .. Len(v) /\ T[b + (Size + 1)] = v[b + (Size + 1) - L]
      <4>1. /\ Len(T) = L + Len(v) /\ L \in Nat /\ Len(v) \in Nat
            /\ \A n \in 1 .. Len(v) : T[L + n] = v[n]
        BY <3>7, <3>8, Joined
      <4>2. /\ b + (Size + 1) - L \in 1 .. Len(v)
            /\ L + (b + (Size + 1) - L) = b + (Size + 1)
        BY <3>2, <3>3, <3>4, <4>1
      <4> QED
        BY <4>1, <4>2
    <3> QED
      BY <3>5, <3>6, <3>8, <3>9 DEF Contains
  <2> QED
    BY <2>1, <2>2 DEF WholeInv, T, L
<1> QED
  BY <1>1, <1>2, <1>3, FramingTypes, FramesInOrder, PTL DEF Spec

-----------------------------------------------------------------------------
(* The frame format.                                                         *)


-----------------------------------------------------------------------------
(* Words and their bits                                                    *)

Word == {n \in Nat : n < 65536}
Weights == {1, 2, 4, 8, 16, 32, 64, 128, 256, 512, 1024, 2048, 4096, 8192, 16384, 32768}

LEMMA BitValue == \A n \in Nat, w \in Nat \ {0} : Bit(n, w) \in {0, 1}
  BY DEF Bit

(* A number is its lowest bit and twice its half, and so on up. *)
LEMMA Halves ==
  ASSUME NEW n \in Word
  PROVE  /\ n = 2 * (n \div 2) + Bit(n, 1)
         /\ n \div 2 = 2 * (n \div 4) + Bit(n, 2)
         /\ n \div 4 = 2 * (n \div 8) + Bit(n, 4)
         /\ n \div 8 = 2 * (n \div 16) + Bit(n, 8)
         /\ n \div 16 = 2 * (n \div 32) + Bit(n, 16)
         /\ n \div 32 = 2 * (n \div 64) + Bit(n, 32)
         /\ n \div 64 = 2 * (n \div 128) + Bit(n, 64)
         /\ n \div 128 = 2 * (n \div 256) + Bit(n, 128)
         /\ n \div 256 = 2 * (n \div 512) + Bit(n, 256)
         /\ n \div 512 = 2 * (n \div 1024) + Bit(n, 512)
         /\ n \div 1024 = 2 * (n \div 2048) + Bit(n, 1024)
         /\ n \div 2048 = 2 * (n \div 4096) + Bit(n, 2048)
         /\ n \div 4096 = 2 * (n \div 8192) + Bit(n, 4096)
         /\ n \div 8192 = 2 * (n \div 16384) + Bit(n, 8192)
         /\ n \div 16384 = 2 * (n \div 32768) + Bit(n, 16384)
         /\ n \div 32768 = Bit(n, 32768)
<1>1. n \in Nat /\ n < 65536 /\ n \div 1 = n
  BY DEF Word
<1>2. n = 2 * (n \div 2) + Bit(n, 1)
  BY <1>1 DEF Bit
<1>3. n \div 2 = 2 * (n \div 4) + Bit(n, 2)
  BY <1>1 DEF Bit
<1>4. n \div 4 = 2 * (n \div 8) + Bit(n, 4)
  BY <1>1 DEF Bit
<1>5. n \div 8 = 2 * (n \div 16) + Bit(n, 8)
  BY <1>1 DEF Bit
<1>6. n \div 16 = 2 * (n \div 32) + Bit(n, 16)
  BY <1>1 DEF Bit
<1>7. n \div 32 = 2 * (n \div 64) + Bit(n, 32)
  BY <1>1 DEF Bit
<1>8. n \div 64 = 2 * (n \div 128) + Bit(n, 64)
  BY <1>1 DEF Bit
<1>9. n \div 128 = 2 * (n \div 256) + Bit(n, 128)
  BY <1>1 DEF Bit
<1>10. n \div 256 = 2 * (n \div 512) + Bit(n, 256)
  BY <1>1 DEF Bit
<1>11. n \div 512 = 2 * (n \div 1024) + Bit(n, 512)
  BY <1>1 DEF Bit
<1>12. n \div 1024 = 2 * (n \div 2048) + Bit(n, 1024)
  BY <1>1 DEF Bit
<1>13. n \div 2048 = 2 * (n \div 4096) + Bit(n, 2048)
  BY <1>1 DEF Bit
<1>14. n \div 4096 = 2 * (n \div 8192) + Bit(n, 4096)
  BY <1>1 DEF Bit
<1>15. n \div 8192 = 2 * (n \div 16384) + Bit(n, 8192)
  BY <1>1 DEF Bit
<1>16. n \div 16384 = 2 * (n \div 32768) + Bit(n, 16384)
  BY <1>1 DEF Bit
<1>17. n \div 32768 = Bit(n, 32768)
  BY <1>1 DEF Bit
<1> QED
  BY <1>2, <1>3, <1>4, <1>5, <1>6, <1>7, <1>8, <1>9, <1>10, <1>11, <1>12, <1>13, <1>14,
     <1>15, <1>16, <1>17

(* Words with the same bits are equal. *)
LEMMA SameBits ==
  ASSUME NEW a \in Word, NEW b \in Word, \A w \in Weights : Bit(a, w) = Bit(b, w)
  PROVE  a = b
<1>1. a \div 32768 = b \div 32768
  BY Halves, 32768 \in Weights DEF Weights
<1>2. a \div 16384 = b \div 16384
  <2>1. Bit(a, 16384) = Bit(b, 16384)
    BY DEF Weights
  <2> QED
    BY <1>1, <2>1, Halves
<1>3. a \div 8192 = b \div 8192
  <2>1. Bit(a, 8192) = Bit(b, 8192)
    BY DEF Weights
  <2> QED
    BY <1>2, <2>1, Halves
<1>4. a \div 4096 = b \div 4096
  <2>1. Bit(a, 4096) = Bit(b, 4096)
    BY DEF Weights
  <2> QED
    BY <1>3, <2>1, Halves
<1>5. a \div 2048 = b \div 2048
  <2>1. Bit(a, 2048) = Bit(b, 2048)
    BY DEF Weights
  <2> QED
    BY <1>4, <2>1, Halves
<1>6. a \div 1024 = b \div 1024
  <2>1. Bit(a, 1024) = Bit(b, 1024)
    BY DEF Weights
  <2> QED
    BY <1>5, <2>1, Halves
<1>7. a \div 512 = b \div 512
  <2>1. Bit(a, 512) = Bit(b, 512)
    BY DEF Weights
  <2> QED
    BY <1>6, <2>1, Halves
<1>8. a \div 256 = b \div 256
  <2>1. Bit(a, 256) = Bit(b, 256)
    BY DEF Weights
  <2> QED
    BY <1>7, <2>1, Halves
<1>9. a \div 128 = b \div 128
  <2>1. Bit(a, 128) = Bit(b, 128)
    BY DEF Weights
  <2> QED
    BY <1>8, <2>1, Halves
<1>10. a \div 64 = b \div 64
  <2>1. Bit(a, 64) = Bit(b, 64)
    BY DEF Weights
  <2> QED
    BY <1>9, <2>1, Halves
<1>11. a \div 32 = b \div 32
  <2>1. Bit(a, 32) = Bit(b, 32)
    BY DEF Weights
  <2> QED
    BY <1>10, <2>1, Halves
<1>12. a \div 16 = b \div 16
  <2>1. Bit(a, 16) = Bit(b, 16)
    BY DEF Weights
  <2> QED
    BY <1>11, <2>1, Halves
<1>13. a \div 8 = b \div 8
  <2>1. Bit(a, 8) = Bit(b, 8)
    BY DEF Weights
  <2> QED
    BY <1>12, <2>1, Halves
<1>14. a \div 4 = b \div 4
  <2>1. Bit(a, 4) = Bit(b, 4)
    BY DEF Weights
  <2> QED
    BY <1>13, <2>1, Halves
<1>15. a \div 2 = b \div 2
  <2>1. Bit(a, 2) = Bit(b, 2)
    BY DEF Weights
  <2> QED
    BY <1>14, <2>1, Halves
<1>16. a = b
  <2>1. Bit(a, 1) = Bit(b, 1)
    BY DEF Weights
  <2> QED
    BY <1>15, <2>1, Halves
<1> QED
  BY <1>16

LEMMA DifferValue ==
  ASSUME NEW a \in Nat, NEW b \in Nat, NEW w \in Nat \ {0}
  PROVE  Differ(a, b, w) \in 0 .. 1
<1>1. \A n \in Nat : n % 2 \in {0, 1}
  OBVIOUS
<1>2. Bit(a, w) \in {0, 1} /\ Bit(b, w) \in {0, 1}
  BY BitValue
<1> QED
  BY <1>1, <1>2 DEF Differ

(* The bits of a ^ b. *)
LEMMA XorBits ==
  ASSUME NEW a \in Word, NEW b \in Word
  PROVE  Xor(a, b) \in Word /\ \A w \in Weights : Bit(Xor(a, b), w) = Differ(a, b, w)
<1>1. /\ Differ(a, b, 1) \in 0 .. 1 /\ Differ(a, b, 2) \in 0 .. 1 /\ Differ(a, b, 4) \in 0 .. 1
      /\ Differ(a, b, 8) \in 0 .. 1 /\ Differ(a, b, 16) \in 0 .. 1 /\ Differ(a, b, 32) \in 0 .. 1
      /\ Differ(a, b, 64) \in 0 .. 1 /\ Differ(a, b, 128) \in 0 .. 1 /\ Differ(a, b, 256) \in 0 .. 1
      /\ Differ(a, b, 512) \in 0 .. 1 /\ Differ(a, b, 1024) \in 0 .. 1 /\ Differ(a, b, 2048) \in 0 .. 1
      /\ Differ(a, b, 4096) \in 0 .. 1 /\ Differ(a, b, 8192) \in 0 .. 1 /\ Differ(a, b, 16384) \in 0 .. 1
      /\ Differ(a, b, 32768) \in 0 .. 1
  BY DifferValue DEF Word
<1>2. PICK x32768 \in 0 .. 1, h32768 \in Nat :
        x32768 = Differ(a, b, 32768) /\ h32768 = x32768 /\ h32768 < 2
  BY <1>1
<1>3. PICK x16384 \in 0 .. 1, h16384 \in Nat :
        x16384 = Differ(a, b, 16384) /\ h16384 = x16384 + 2 * h32768 /\ h16384 < 4
  BY <1>1, <1>2
<1>4. PICK x8192 \in 0 .. 1, h8192 \in Nat :
        x8192 = Differ(a, b, 8192) /\ h8192 = x8192 + 2 * h16384 /\ h8192 < 8
  BY <1>1, <1>3
<1>5. PICK x4096 \in 0 .. 1, h4096 \in Nat :
        x4096 = Differ(a, b, 4096) /\ h4096 = x4096 + 2 * h8192 /\ h4096 < 16
  BY <1>1, <1>4
<1>6. PICK x2048 \in 0 .. 1, h2048 \in Nat :
        x2048 = Differ(a, b, 2048) /\ h2048 = x2048 + 2 * h4096 /\ h2048 < 32
  BY <1>1, <1>5
<1>7. PICK x1024 \in 0 .. 1, h1024 \in Nat :
        x1024 = Differ(a, b, 1024) /\ h1024 = x1024 + 2 * h2048 /\ h1024 < 64
  BY <1>1, <1>6
<1>8. PICK x512 \in 0 .. 1, h512 \in Nat :
        x512 = Differ(a, b, 512) /\ h512 = x512 + 2 * h1024 /\ h512 < 128
  BY <1>1, <1>7
<1>9. PICK x256 \in 0 .. 1, h256 \in Nat :
        x256 = Differ(a, b, 256) /\ h256 = x256 + 2 * h512 /\ h256 < 256
  BY <1>1, <1>8
<1>10. PICK x128 \in 0 .. 1, h128 \in Nat :
        x128 = Differ(a, b, 128) /\ h128 = x128 + 2 * h256 /\ h128 < 512
  BY <1>1, <1>9
<1>11. PICK x64 \in 0 .. 1, h64 \in Nat :
        x64 = Differ(a, b, 64) /\ h64 = x64 + 2 * h128 /\ h64 < 1024
  BY <1>1, <1>10
<1>12. PICK x32 \in 0 .. 1, h32 \in Nat :
        x32 = Differ(a, b, 32) /\ h32 = x32 + 2 * h64 /\ h32 < 2048
  BY <1>1, <1>11
<1>13. PICK x16 \in 0 .. 1, h16 \in Nat :
        x16 = Differ(a, b, 16) /\ h16 = x16 + 2 * h32 /\ h16 < 4096
  BY <1>1, <1>12
<1>14. PICK x8 \in 0 .. 1, h8 \in Nat :
        x8 = Differ(a, b, 8) /\ h8 = x8 + 2 * h16 /\ h8 < 8192
  BY <1>1, <1>13
<1>15. PICK x4 \in 0 .. 1, h4 \in Nat :
        x4 = Differ(a, b, 4) /\ h4 = x4 + 2 * h8 /\ h4 < 16384
  BY <1>1, <1>14
<1>16. PICK x2 \in 0 .. 1, h2 \in Nat :
        x2 = Differ(a, b, 2) /\ h2 = x2 + 2 * h4 /\ h2 < 32768
  BY <1>1, <1>15
<1>17. PICK x1 \in 0 .. 1, h1 \in Nat :
        x1 = Differ(a, b, 1) /\ h1 = x1 + 2 * h2 /\ h1 < 65536
  BY <1>1, <1>16
<1>18. Xor(a, b) = h1
  <2>1. h256 = x256 + 2 * x512 + 4 * x1024 + 8 * x2048
                 + 16 * x4096 + 32 * x8192 + 64 * x16384 + 128 * x32768
    BY <1>2, <1>3, <1>4, <1>5, <1>6, <1>7, <1>8, <1>9
  <2>2. h1 = x1 + 2 * x2 + 4 * x4 + 8 * x8 + 16 * x16 + 32 * x32 + 64 * x64 + 128 * x128
               + 256 * h256
    BY <1>10, <1>11, <1>12, <1>13, <1>14, <1>15, <1>16, <1>17
  <2>3. Xor(a, b) = x1 + 2 * x2 + 4 * x4 + 8 * x8 + 16 * x16 + 32 * x32 + 64 * x64 + 128 * x128
                      + 256 * x256 + 512 * x512 + 1024 * x1024 + 2048 * x2048
                      + 4096 * x4096 + 8192 * x8192 + 16384 * x16384 + 32768 * x32768
    BY <1>2, <1>3, <1>4, <1>5, <1>6, <1>7, <1>8, <1>9, <1>10, <1>11, <1>12, <1>13, <1>14,
       <1>15, <1>16, <1>17 DEF Xor
  <2> QED
    BY <2>1, <2>2, <2>3
<1>19. h1 \in Word /\ h1 \div 1 = h1
  BY <1>17 DEF Word
<1>20. Bit(h1, 1) = x1 /\ h1 \div 2 = h2
  BY <1>17, <1>19 DEF Bit
<1>21. Bit(h1, 2) = x2 /\ h1 \div 4 = h4
  BY <1>16, <1>20 DEF Bit
<1>22. Bit(h1, 4) = x4 /\ h1 \div 8 = h8
  BY <1>15, <1>21 DEF Bit
<1>23. Bit(h1, 8) = x8 /\ h1 \div 16 = h16
  BY <1>14, <1>22 DEF Bit
<1>24. Bit(h1, 16) = x16 /\ h1 \div 32 = h32
  BY <1>13, <1>23 DEF Bit
<1>25. Bit(h1, 32) = x32 /\ h1 \div 64 = h64
  BY <1>12, <1>24 DEF Bit
<1>26. Bit(h1, 64) = x64 /\ h1 \div 128 = h128
  BY <1>11, <1>25 DEF Bit
<1>27. Bit(h1, 128) = x128 /\ h1 \div 256 = h256
  BY <1>10, <1>26 DEF Bit
<1>28. Bit(h1, 256) = x256 /\ h1 \div 512 = h512
  BY <1>9, <1>27 DEF Bit
<1>29. Bit(h1, 512) = x512 /\ h1 \div 1024 = h1024
  BY <1>8, <1>28 DEF Bit
<1>30. Bit(h1, 1024) = x1024 /\ h1 \div 2048 = h2048
  BY <1>7, <1>29 DEF Bit
<1>31. Bit(h1, 2048) = x2048 /\ h1 \div 4096 = h4096
  BY <1>6, <1>30 DEF Bit
<1>32. Bit(h1, 4096) = x4096 /\ h1 \div 8192 = h8192
  BY <1>5, <1>31 DEF Bit
<1>33. Bit(h1, 8192) = x8192 /\ h1 \div 16384 = h16384
  BY <1>4, <1>32 DEF Bit
<1>34. Bit(h1, 16384) = x16384 /\ h1 \div 32768 = h32768
  BY <1>3, <1>33 DEF Bit
<1>35. Bit(h1, 32768) = x32768
  BY <1>2, <1>34 DEF Bit
<1>36. /\ Bit(h1, 1) = Differ(a, b, 1) /\ Bit(h1, 2) = Differ(a, b, 2)
       /\ Bit(h1, 4) = Differ(a, b, 4) /\ Bit(h1, 8) = Differ(a, b, 8)
       /\ Bit(h1, 16) = Differ(a, b, 16) /\ Bit(h1, 32) = Differ(a, b, 32)
       /\ Bit(h1, 64) = Differ(a, b, 64) /\ Bit(h1, 128) = Differ(a, b, 128)
       /\ Bit(h1, 256) = Differ(a, b, 256) /\ Bit(h1, 512) = Differ(a, b, 512)
       /\ Bit(h1, 1024) = Differ(a, b, 1024) /\ Bit(h1, 2048) = Differ(a, b, 2048)
       /\ Bit(h1, 4096) = Differ(a, b, 4096) /\ Bit(h1, 8192) = Differ(a, b, 8192)
       /\ Bit(h1, 16384) = Differ(a, b, 16384) /\ Bit(h1, 32768) = Differ(a, b, 32768)
  BY <1>2, <1>3, <1>4, <1>5, <1>6, <1>7, <1>8, <1>9, <1>10, <1>11, <1>12, <1>13, <1>14,
     <1>15, <1>16, <1>17, <1>20, <1>21, <1>22, <1>23, <1>24, <1>25, <1>26, <1>27, <1>28, <1>29, <1>30, <1>31, <1>32, <1>33, <1>34, <1>35
<1> QED
  BY <1>18, <1>19, <1>36 DEF Weights

-----------------------------------------------------------------------------
(* The algebra of Xor                                                      *)

(* The bits of a number below 256 and of a word, as the laws below use them. *)
LEMMA Parity ==
  \A p, q, r \in {0, 1} :
    /\ (p + q) % 2 = (q + p) % 2
    /\ (p + p) % 2 = 0
    /\ (p + 0) % 2 = p
    /\ (((p + q) % 2) + r) % 2 = (p + ((q + r) % 2)) % 2
  OBVIOUS

LEMMA WeightsPositive == Weights \subseteq Nat \ {0}
  BY DEF Weights

LEMMA BitOfWord == \A n \in Word, w \in Weights : Bit(n, w) \in {0, 1}
  BY BitValue, WeightsPositive DEF Word

LEMMA XorComm ==
  ASSUME NEW a \in Word, NEW b \in Word
  PROVE  Xor(a, b) = Xor(b, a)
<1>1. \A w \in Weights : Differ(a, b, w) = Differ(b, a, w)
  BY BitOfWord, Parity DEF Differ
<1> QED
  BY <1>1, XorBits, SameBits

LEMMA XorAssoc ==
  ASSUME NEW a \in Word, NEW b \in Word, NEW c \in Word
  PROVE  Xor(Xor(a, b), c) = Xor(a, Xor(b, c))
<1>1. /\ Xor(a, b) \in Word /\ Xor(b, c) \in Word
      /\ Xor(Xor(a, b), c) \in Word /\ Xor(a, Xor(b, c)) \in Word
  BY XorBits
<1>2. ASSUME NEW w \in Weights
      PROVE  Bit(Xor(Xor(a, b), c), w) = Bit(Xor(a, Xor(b, c)), w)
  <2>1. /\ Bit(Xor(Xor(a, b), c), w) = (Bit(Xor(a, b), w) + Bit(c, w)) % 2
        /\ Bit(Xor(a, Xor(b, c)), w) = (Bit(a, w) + Bit(Xor(b, c), w)) % 2
        /\ Bit(Xor(a, b), w) = (Bit(a, w) + Bit(b, w)) % 2
        /\ Bit(Xor(b, c), w) = (Bit(b, w) + Bit(c, w)) % 2
    BY <1>1, XorBits DEF Differ
  <2> QED
    BY <2>1, BitOfWord, Parity
<1> QED
  BY <1>1, <1>2, SameBits

LEMMA ZeroWord == 0 \in Word /\ \A w \in Weights : Bit(0, w) = 0
  BY DEF Word, Weights, Bit

LEMMA XorZero ==
  ASSUME NEW a \in Word
  PROVE  Xor(a, 0) = a /\ Xor(0, a) = a
<1>1. \A w \in Weights : Differ(a, 0, w) = Bit(a, w)
  BY ZeroWord, BitOfWord, Parity DEF Differ
<1>2. Xor(a, 0) = a
  BY <1>1, ZeroWord, XorBits, SameBits
<1> QED
  BY <1>2, ZeroWord, XorComm

LEMMA XorSelf ==
  ASSUME NEW a \in Word
  PROVE  Xor(a, a) = 0
<1>1. \A w \in Weights : Differ(a, a, w) = Bit(0, w)
  BY ZeroWord, BitOfWord, Parity DEF Differ
<1> QED
  BY <1>1, ZeroWord, XorBits, SameBits

LEMMA XorType == \A a, b \in Word : Xor(a, b) \in Word
  BY XorBits

(* What is added to both sides goes. *)
LEMMA XorCancel ==
  ASSUME NEW a \in Word, NEW b \in Word, NEW c \in Word, Xor(c, a) = Xor(c, b)
  PROVE  a = b
<1>1. Xor(Xor(c, c), a) = Xor(Xor(c, c), b)
  BY XorAssoc
<1> QED
  BY <1>1, XorSelf, XorZero

LEMMA XorExchange ==
  ASSUME NEW a \in Word, NEW b \in Word, NEW c \in Word, NEW d \in Word
  PROVE  Xor(Xor(a, b), Xor(c, d)) = Xor(Xor(a, c), Xor(b, d))
<1>1. Xor(Xor(a, b), Xor(c, d)) = Xor(a, Xor(b, Xor(c, d)))
  BY XorAssoc, XorType
<1>2. Xor(b, Xor(c, d)) = Xor(c, Xor(b, d))
  <2>1. Xor(b, Xor(c, d)) = Xor(Xor(b, c), d) /\ Xor(c, Xor(b, d)) = Xor(Xor(c, b), d)
    BY XorAssoc
  <2> QED
    BY <2>1, XorComm
<1>3. Xor(a, Xor(c, Xor(b, d))) = Xor(Xor(a, c), Xor(b, d))
  BY XorAssoc, XorType
<1> QED
  BY <1>1, <1>2, <1>3

-----------------------------------------------------------------------------
(* Halves and bytes of a word                                              *)

LEMMA HalfBits ==
  ASSUME NEW n \in Word
  PROVE  /\ n \div 2 \in Word /\ n \div 2 < 32768
         /\ \A w \in Weights : Bit(n \div 2, w) = IF w = 32768 THEN 0 ELSE Bit(n, 2 * w)
<1>1. n \in Nat /\ n < 65536
  BY DEF Word
<1>2. \A w \in Nat \ {0} : (n \div 2) \div w = n \div (2 * w)
  BY <1>1
<1>3. (n \div 2) \div 32768 = 0
  BY <1>1
<1> QED
  BY <1>1, <1>2, <1>3, WeightsPositive DEF Word, Bit

LEMMA XorHalf ==
  ASSUME NEW a \in Word, NEW b \in Word
  PROVE  Xor(a, b) \div 2 = Xor(a \div 2, b \div 2)
<1>1. Xor(a, b) \in Word /\ a \div 2 \in Word /\ b \div 2 \in Word
  BY XorType, HalfBits
<1>2. ASSUME NEW w \in Weights
      PROVE  Bit(Xor(a, b) \div 2, w) = Bit(Xor(a \div 2, b \div 2), w)
  <2>1. Bit(Xor(a \div 2, b \div 2), w) = (Bit(a \div 2, w) + Bit(b \div 2, w)) % 2
    BY <1>1, XorBits DEF Differ
  <2>2. CASE w = 32768
    BY <1>1, <2>1, <2>2, HalfBits
  <2>3. CASE w # 32768
    <3>1. 2 * w \in Weights
      BY <2>3 DEF Weights
    <3>2. Bit(Xor(a, b), 2 * w) = (Bit(a, 2 * w) + Bit(b, 2 * w)) % 2
      BY <3>1, XorBits DEF Differ
    <3> QED
      BY <1>1, <2>1, <2>3, <3>2, HalfBits
  <2> QED
    BY <2>2, <2>3
<1>3. Xor(a, b) \div 2 \in Word /\ Xor(a \div 2, b \div 2) \in Word
  BY <1>1, HalfBits, XorType
<1> QED
  BY <1>2, <1>3, SameBits

Octet == {n \in Nat : n < 256}

(* The bits of a word by its two bytes. *)
WordOf(h, l) == 256 * h + l
LowWeights == {1, 2, 4, 8, 16, 32, 64, 128}

LEMMA BytesBits ==
  ASSUME NEW h \in Octet, NEW l \in Octet
  PROVE  /\ WordOf(h, l) \in Word
         /\ \A w \in LowWeights : Bit(WordOf(h, l), w) = Bit(l, w)
         /\ \A w \in LowWeights : Bit(WordOf(h, l), 256 * w) = Bit(h, w)
<1> DEFINE n == 256 * h + l
<1>1. n \in Word
  BY DEF Word, Octet
<1>2. Bit(n, 1) = Bit(l, 1) /\ Bit(n, 2) = Bit(l, 2) /\ Bit(n, 4) = Bit(l, 4) /\ Bit(n, 8) = Bit(l, 8)
  BY DEF Bit, Octet
<1>3. Bit(n, 16) = Bit(l, 16) /\ Bit(n, 32) = Bit(l, 32) /\ Bit(n, 64) = Bit(l, 64) /\ Bit(n, 128) = Bit(l, 128)
  BY DEF Bit, Octet
<1>4. n \div 256 = h
  BY DEF Octet
<1>5. \A w \in Nat \ {0} : n \div (256 * w) = (n \div 256) \div w
  BY <1>1 DEF Word
<1>6. ASSUME NEW w \in LowWeights PROVE Bit(n, 256 * w) = Bit(h, w)
  <2> HIDE DEF n
  <2>1. w \in Nat \ {0}
    BY DEF LowWeights
  <2>2. n \div (256 * w) = h \div w
    BY <1>4, <1>5, <2>1
  <2> QED
    BY <2>2 DEF Bit
<1>7. \A w \in LowWeights : Bit(n, w) = Bit(l, w)
  <2> HIDE DEF n
  <2> QED
    BY <1>2, <1>3 DEF LowWeights
<1> QED
  BY <1>1, <1>6, <1>7 DEF WordOf

LEMMA WeightHalves ==
  /\ LowWeights \subseteq Weights
  /\ \A w \in Weights : w \in LowWeights \/ \E v \in LowWeights : w = 256 * v
<1>1. LowWeights \subseteq Weights
  BY DEF LowWeights, Weights
<1>2. ASSUME NEW w \in Weights PROVE w \in LowWeights \/ \E v \in LowWeights : w = 256 * v
  <2>1. w \in LowWeights \/ w \in {256, 512, 1024, 2048, 4096, 8192, 16384, 32768}
    BY DEF LowWeights, Weights
  <2>2. ASSUME w \in {256, 512, 1024, 2048, 4096, 8192, 16384, 32768}
        PROVE  w \div 256 \in LowWeights /\ w = 256 * (w \div 256)
    BY <2>2 DEF LowWeights
  <2> QED
    BY <2>1, <2>2
<1> QED
  BY <1>1, <1>2

(* Bytes are closed under xor. *)
LEMMA XorByte ==
  ASSUME NEW a \in Octet, NEW b \in Octet
  PROVE  Xor(a, b) \in Octet
<1> DEFINE n == Xor(a, b)
<1>1. a \in Word /\ b \in Word /\ n \in Word
  BY XorType DEF Word, Octet
<1>2. \A w \in Weights : w > 128 => Bit(a, w) = 0 /\ Bit(b, w) = 0
  <2>1. \A w \in Weights : w > 128 => a \div w = 0 /\ b \div w = 0
    BY DEF Weights, Octet
  <2> QED
    BY <2>1 DEF Bit
<1>3. Bit(n, 256) = 0 /\ Bit(n, 512) = 0 /\ Bit(n, 1024) = 0 /\ Bit(n, 2048) = 0 /\ Bit(n, 4096) = 0
      /\ Bit(n, 8192) = 0 /\ Bit(n, 16384) = 0 /\ Bit(n, 32768) = 0
  <2>1. ASSUME NEW w \in Weights, w > 128 PROVE Bit(n, w) = 0
    BY <1>1, <1>2, <2>1, XorBits, Parity DEF Differ
  <2> QED
    BY <2>1 DEF Weights
<1> HIDE DEF n
<1>4. n \div 256 = 0
  <2>1. n \div 256 = 2 * (n \div 512) + Bit(n, 256) /\ n \div 512 = 2 * (n \div 1024) + Bit(n, 512)
        /\ n \div 1024 = 2 * (n \div 2048) + Bit(n, 1024) /\ n \div 2048 = 2 * (n \div 4096) + Bit(n, 2048)
    BY <1>1, Halves
  <2>2. n \div 4096 = 2 * (n \div 8192) + Bit(n, 4096) /\ n \div 8192 = 2 * (n \div 16384) + Bit(n, 8192)
        /\ n \div 16384 = 2 * (n \div 32768) + Bit(n, 16384) /\ n \div 32768 = Bit(n, 32768)
    BY <1>1, Halves
  <2>3. n \div 4096 = 0
    BY <1>3, <2>2
  <2> QED
    BY <1>3, <2>1, <2>3
<1>5. n \in Octet
  BY <1>1, <1>4 DEF Word, Octet
<1> QED
  BY <1>5 DEF n

(* The xor of two words is the xor of their bytes. *)
LEMMA XorBytes ==
  ASSUME NEW h \in Octet, NEW l \in Octet, NEW g \in Octet, NEW m \in Octet
  PROVE  Xor(WordOf(h, l), WordOf(g, m)) = WordOf(Xor(h, g), Xor(l, m))
<1>1. PICK p \in Octet, q \in Octet : p = Xor(h, g) /\ q = Xor(l, m)
  BY XorByte
<1> DEFINE a == WordOf(h, l)
           b == WordOf(g, m)
           c == WordOf(p, q)
<1>2. a \in Word /\ b \in Word /\ c \in Word
  BY BytesBits
<1>3. h \in Word /\ l \in Word /\ g \in Word /\ m \in Word
  BY DEF Word, Octet
<1>4. ASSUME NEW w \in LowWeights
      PROVE  Bit(Xor(a, b), w) = Bit(c, w) /\ Bit(Xor(a, b), 256 * w) = Bit(c, 256 * w)
  <2>1. Bit(a, w) = Bit(l, w) /\ Bit(a, 256 * w) = Bit(h, w)
    BY BytesBits
  <2>2. Bit(b, w) = Bit(m, w) /\ Bit(b, 256 * w) = Bit(g, w)
    BY BytesBits
  <2>3. Bit(c, w) = Bit(q, w) /\ Bit(c, 256 * w) = Bit(p, w)
    BY BytesBits
  <2> HIDE DEF a, b, c
  <2>4. w \in Weights /\ 256 * w \in Weights
    BY DEF LowWeights, Weights
  <2>5. Bit(Xor(a, b), w) = Differ(a, b, w) /\ Bit(Xor(a, b), 256 * w) = Differ(a, b, 256 * w)
    BY <1>2, <2>4, XorBits
  <2>6. Bit(q, w) = Differ(l, m, w) /\ Bit(p, w) = Differ(h, g, w)
    BY <1>1, <1>3, <2>4, XorBits
  <2> QED
    BY <2>1, <2>2, <2>3, <2>5, <2>6 DEF Differ
<1> HIDE DEF a, b, c
<1>5. Xor(a, b) = c
  BY <1>2, <1>4, XorType, SameBits, WeightHalves
<1> QED
  BY <1>1, <1>5 DEF a, b, c

-----------------------------------------------------------------------------
(* The bitwise CRC is linear and injective                                 *)

LEMMA ByteWord == Octet \subseteq Word
  BY DEF Octet, Word

LEMMA Polynomial == 33800 \in Word
  BY DEF Word

LEMMA WordHalf == \A n \in Word : n \div 2 \in Word /\ n \div 2 < 32768
  BY HalfBits

LEMMA OddBit == \A n \in Word : n % 2 = Bit(n, 1)
<1>1. \A n \in Word : n \div 1 = n
  BY DEF Word
<1> QED
  BY <1>1 DEF Bit

LEMMA CrcBitType == \A r \in Word : CrcBit(r) \in Word
  BY WordHalf, Polynomial, XorType DEF CrcBit

(* One step of the CRC is linear ... *)
LEMMA CrcBitLinear ==
  ASSUME NEW a \in Word, NEW b \in Word
  PROVE  CrcBit(Xor(a, b)) = Xor(CrcBit(a), CrcBit(b))
<1> DEFINE p == a \div 2
           q == b \div 2
           k == 33800
<1>1. p \in Word /\ q \in Word /\ k \in Word /\ Xor(p, q) \in Word /\ Xor(a, b) \in Word
  BY WordHalf, Polynomial, XorType
<1>2. Xor(a, b) \div 2 = Xor(p, q)
  BY XorHalf
<1>3. Xor(p, Xor(q, k)) = Xor(Xor(p, q), k) /\ Xor(Xor(p, k), q) = Xor(Xor(p, q), k)
      /\ Xor(Xor(p, k), Xor(q, k)) = Xor(p, q)
  BY <1>1, XorAssoc, XorComm, XorExchange, XorSelf, XorZero
<1>4. a % 2 = Bit(a, 1) /\ b % 2 = Bit(b, 1) /\ Xor(a, b) % 2 = Differ(a, b, 1)
  <2>1. 1 \in Weights
    BY DEF Weights
  <2> QED
    BY <1>1, <2>1, XorBits, OddBit
<1>5. CrcBit(a) = (IF Bit(a, 1) = 1 THEN Xor(p, k) ELSE p) /\ CrcBit(b) = (IF Bit(b, 1) = 1 THEN Xor(q, k) ELSE q)
      /\ CrcBit(Xor(a, b)) = (IF Differ(a, b, 1) = 1 THEN Xor(Xor(p, q), k) ELSE Xor(p, q))
  BY <1>2, <1>4 DEF CrcBit
<1>6. /\ Bit(a, 1) = 0 \/ Bit(a, 1) = 1
      /\ Bit(b, 1) = 0 \/ Bit(b, 1) = 1
      /\ Differ(a, b, 1) = IF Bit(a, 1) = Bit(b, 1) THEN 0 ELSE 1
  BY BitValue DEF Differ, Word
<1> HIDE DEF p, q, k
<1> QED
  BY <1>3, <1>5, <1>6

(* ... and takes only zero to zero, *)
LEMMA CrcBitKernel ==
  ASSUME NEW r \in Word, CrcBit(r) = 0
  PROVE  r = 0
<1>1. r \div 2 \in Word /\ r \div 2 < 32768
  BY WordHalf
<1>2. CASE r % 2 = 1
  <2>1. Xor(r \div 2, 33800) = Xor(33800, 33800)
    BY <1>2, Polynomial, XorSelf DEF CrcBit
  <2>2. r \div 2 = 33800
    BY <1>1, <2>1, Polynomial, XorComm, XorCancel
  <2> QED
    BY <1>1, <2>2
<1>3. CASE r % 2 # 1
  BY <1>3 DEF CrcBit, Word
<1> QED
  BY <1>2, <1>3

(* so that it keeps different words different. *)
LEMMA CrcBitInjective ==
  ASSUME NEW a \in Word, NEW b \in Word, CrcBit(a) = CrcBit(b)
  PROVE  a = b
<1>1. CrcBit(Xor(a, b)) = 0
  BY CrcBitLinear, CrcBitType, XorSelf
<1>2. Xor(a, b) = Xor(a, a)
  BY <1>1, XorType, CrcBitKernel, XorSelf
<1> QED
  BY <1>2, XorCancel

LEMMA Crc8Type == \A r \in Word : Crc8(r) \in Word
  BY CrcBitType DEF Crc8

LEMMA Crc8Linear ==
  ASSUME NEW a \in Word, NEW b \in Word
  PROVE  Crc8(Xor(a, b)) = Xor(Crc8(a), Crc8(b))
  BY CrcBitLinear, CrcBitType DEF Crc8

LEMMA Crc8Injective ==
  ASSUME NEW a \in Word, NEW b \in Word, Crc8(a) = Crc8(b)
  PROVE  a = b
  BY CrcBitInjective, CrcBitType DEF Crc8

(* A byte in the upper half comes down unchanged. *)
LEMMA Crc8High ==
  ASSUME NEW h \in Octet
  PROVE  Crc8(256 * h) = h
<1>1. CrcBit(256 * h) = 128 * h /\ CrcBit(128 * h) = 64 * h /\ CrcBit(64 * h) = 32 * h /\ CrcBit(32 * h) = 16 * h
  <2>1. h \in Nat
    BY DEF Octet
  <2> QED
    BY <2>1 DEF CrcBit
<1>2. CrcBit(16 * h) = 8 * h /\ CrcBit(8 * h) = 4 * h /\ CrcBit(4 * h) = 2 * h /\ CrcBit(2 * h) = h
  <2>1. h \in Nat
    BY DEF Octet
  <2> QED
    BY <2>1 DEF CrcBit
<1> QED
  BY <1>1, <1>2 DEF Crc8

-----------------------------------------------------------------------------
(* Xor as addition and subtraction                                         *)

(* The weight above a number is added to it by xor, ... *)
AddsByXor(i) == \A y \in Word : y < i => Xor(i, y) = i + y

LEMMA XorHalves ==
  ASSUME NEW a \in Word, NEW b \in Word
  PROVE  Xor(a, b) = 2 * Xor(a \div 2, b \div 2) + (((a % 2) + (b % 2)) % 2)
<1>1. Xor(a, b) \in Word /\ 1 \in Weights
  BY XorType DEF Weights
<1>2. Xor(a, b) = 2 * (Xor(a, b) \div 2) + Bit(Xor(a, b), 1)
  BY <1>1, Halves
<1>3. Bit(Xor(a, b), 1) = (Bit(a, 1) + Bit(b, 1)) % 2
  BY <1>1, XorBits DEF Differ
<1>4. Bit(a, 1) = a % 2 /\ Bit(b, 1) = b % 2
  BY OddBit
<1> QED
  BY <1>2, <1>3, <1>4, XorHalf

LEMMA AddsByXorDoubling ==
  ASSUME NEW i \in Word, 2 * i \in Word, AddsByXor(i)
  PROVE  AddsByXor(2 * i)
<1> SUFFICES ASSUME NEW y \in Word, y < 2 * i PROVE Xor(2 * i, y) = 2 * i + y
  BY DEF AddsByXor
<1>1. /\ (2 * i) \div 2 = i /\ (2 * i) % 2 = 0
      /\ y \div 2 < i /\ y = 2 * (y \div 2) + (y % 2) /\ ((0 + (y % 2)) % 2) = y % 2
  BY DEF Word
<1>2. y \div 2 \in Word
  BY WordHalf
<1>3. Xor(i, y \div 2) = i + (y \div 2)
  BY <1>1, <1>2 DEF AddsByXor
<1>4. Xor(2 * i, y) = 2 * Xor((2 * i) \div 2, y \div 2) + ((((2 * i) % 2) + (y % 2)) % 2)
  BY XorHalves
<1>5. y % 2 \in Nat /\ y \div 2 \in Nat /\ i \in Nat
  BY DEF Word
<1> QED
  BY <1>1, <1>3, <1>4, <1>5

(* ... and a row of ones is subtracted from. *)
SubtractsByXor(c) == \A y \in Word : y <= c => Xor(c, y) = c - y

LEMMA SubtractsByXorDoubling ==
  ASSUME NEW c \in Word, 2 * c + 1 \in Word, SubtractsByXor(c)
  PROVE  SubtractsByXor(2 * c + 1)
<1> DEFINE d == 2 * c + 1
<1> SUFFICES ASSUME NEW y \in Word, y <= d PROVE Xor(d, y) = d - y
  BY DEF SubtractsByXor
<1>1. /\ d \div 2 = c /\ d % 2 = 1
      /\ y \div 2 <= c /\ y = 2 * (y \div 2) + (y % 2) /\ ((1 + (y % 2)) % 2) = 1 - (y % 2)
  BY DEF Word
<1>2. y \div 2 \in Word
  BY WordHalf
<1>3. Xor(c, y \div 2) = c - (y \div 2)
  BY <1>1, <1>2 DEF SubtractsByXor
<1>4. Xor(d, y) = 2 * Xor(d \div 2, y \div 2) + (((d % 2) + (y % 2)) % 2)
  BY XorHalves
<1>5. y % 2 \in Nat /\ y \div 2 \in Nat /\ c \in Nat
  BY DEF Word
<1> QED
  BY <1>1, <1>3, <1>4, <1>5

LEMMA Powers ==
  /\ AddsByXor(1) /\ AddsByXor(2) /\ AddsByXor(4) /\ AddsByXor(8)
  /\ AddsByXor(16) /\ AddsByXor(32) /\ AddsByXor(64) /\ AddsByXor(128)
<1>1. AddsByXor(1)
  <2>1. 1 \in Word /\ \A y \in Word : y < 1 => y = 0 /\ 1 + y = 1
    BY DEF Word
  <2> QED
    BY <2>1, XorZero DEF AddsByXor
<1>2. AddsByXor(2)
  <2>1. 1 \in Word /\ 2 \in Word /\ 2 * 1 = 2
    BY DEF Word
  <2> QED
    BY <1>1, <2>1, AddsByXorDoubling
<1>3. AddsByXor(4)
  <2>1. 2 \in Word /\ 4 \in Word /\ 2 * 2 = 4
    BY DEF Word
  <2> QED
    BY <1>2, <2>1, AddsByXorDoubling
<1>4. AddsByXor(8)
  <2>1. 4 \in Word /\ 8 \in Word /\ 2 * 4 = 8
    BY DEF Word
  <2> QED
    BY <1>3, <2>1, AddsByXorDoubling
<1>5. AddsByXor(16)
  <2>1. 8 \in Word /\ 16 \in Word /\ 2 * 8 = 16
    BY DEF Word
  <2> QED
    BY <1>4, <2>1, AddsByXorDoubling
<1>6. AddsByXor(32)
  <2>1. 16 \in Word /\ 32 \in Word /\ 2 * 16 = 32
    BY DEF Word
  <2> QED
    BY <1>5, <2>1, AddsByXorDoubling
<1>7. AddsByXor(64)
  <2>1. 32 \in Word /\ 64 \in Word /\ 2 * 32 = 64
    BY DEF Word
  <2> QED
    BY <1>6, <2>1, AddsByXorDoubling
<1>8. AddsByXor(128)
  <2>1. 64 \in Word /\ 128 \in Word /\ 2 * 64 = 128
    BY DEF Word
  <2> QED
    BY <1>7, <2>1, AddsByXorDoubling
<1> QED
  BY <1>1, <1>2, <1>3, <1>4, <1>5, <1>6, <1>7, <1>8

LEMMA RowsOfOnes == SubtractsByXor(255)
<1>1. SubtractsByXor(1)
  <2>1. 1 \in Word /\ \A y \in Word : y <= 1 => (y = 0 /\ 1 - y = 1) \/ (y = 1 /\ 1 - y = 0)
    BY DEF Word
  <2> QED
    BY <2>1, XorZero, XorSelf DEF SubtractsByXor
<1>2. SubtractsByXor(3)
  <2>1. 1 \in Word /\ 3 \in Word /\ 2 * 1 + 1 = 3
    BY DEF Word
  <2> QED
    BY <1>1, <2>1, SubtractsByXorDoubling
<1>3. SubtractsByXor(7)
  <2>1. 3 \in Word /\ 7 \in Word /\ 2 * 3 + 1 = 7
    BY DEF Word
  <2> QED
    BY <1>2, <2>1, SubtractsByXorDoubling
<1>4. SubtractsByXor(15)
  <2>1. 7 \in Word /\ 15 \in Word /\ 2 * 7 + 1 = 15
    BY DEF Word
  <2> QED
    BY <1>3, <2>1, SubtractsByXorDoubling
<1>5. SubtractsByXor(31)
  <2>1. 15 \in Word /\ 31 \in Word /\ 2 * 15 + 1 = 31
    BY DEF Word
  <2> QED
    BY <1>4, <2>1, SubtractsByXorDoubling
<1>6. SubtractsByXor(63)
  <2>1. 31 \in Word /\ 63 \in Word /\ 2 * 31 + 1 = 63
    BY DEF Word
  <2> QED
    BY <1>5, <2>1, SubtractsByXorDoubling
<1>7. SubtractsByXor(127)
  <2>1. 63 \in Word /\ 127 \in Word /\ 2 * 63 + 1 = 127
    BY DEF Word
  <2> QED
    BY <1>6, <2>1, SubtractsByXorDoubling
<1>8. SubtractsByXor(255)
  <2>1. 127 \in Word /\ 255 \in Word /\ 2 * 127 + 1 = 255
    BY DEF Word
  <2> QED
    BY <1>7, <2>1, SubtractsByXorDoubling
<1> QED
  BY <1>8

-----------------------------------------------------------------------------
(* The table                                                               *)

(* The entry of a byte. *)
Entry(x) == fcsTable[x + 1]

(* What the 256 numbers of the table say: an entry is the xor of the entry of its *)
(* highest bit and that of the rest, ...                                         *)
Doubles(t, i) == \A y \in 0 .. (i - 1) : t[i + y + 1] = Xor(t[i + 1], t[y + 1])

LEMMA EntryDoubling == \A i \in LowWeights : Doubles(fcsTable, i)
<1> SUFFICES ASSUME NEW t, t = fcsTable PROVE \A i \in LowWeights : Doubles(t, i)
  OBVIOUS
<1>1. Doubles(t, 1)
  BY DEF Doubles, fcsTable, Xor, Differ, Bit
<1>2. Doubles(t, 2)
  BY DEF Doubles, fcsTable, Xor, Differ, Bit
<1>3. Doubles(t, 4)
  BY DEF Doubles, fcsTable, Xor, Differ, Bit
<1>4. Doubles(t, 8)
  BY DEF Doubles, fcsTable, Xor, Differ, Bit
<1>5. Doubles(t, 16)
  BY DEF Doubles, fcsTable, Xor, Differ, Bit
<1>6. Doubles(t, 32)
  BY DEF Doubles, fcsTable, Xor, Differ, Bit
<1>7. Doubles(t, 64)
  BY DEF Doubles, fcsTable, Xor, Differ, Bit
<1>8. Doubles(t, 128)
  BY DEF Doubles, fcsTable, Xor, Differ, Bit
<1> QED
  BY <1>1, <1>2, <1>3, <1>4, <1>5, <1>6, <1>7, <1>8 DEF LowWeights

LEMMA EntryBits ==
  /\ Entry(0) = 0 /\ Entry(255) = 3960 /\ Entry(135) = 61623
  /\ Entry(1) = 4489 /\ Entry(2) = 8978 /\ Entry(4) = 17956 /\ Entry(8) = 35912
  /\ Entry(16) = 4225 /\ Entry(32) = 8450 /\ Entry(64) = 16900 /\ Entry(128) = 33800
<1> SUFFICES ASSUME NEW t, t = fcsTable
    PROVE  /\ t[1] = 0 /\ t[256] = 3960 /\ t[136] = 61623
           /\ t[2] = 4489 /\ t[3] = 8978 /\ t[5] = 17956 /\ t[9] = 35912
           /\ t[17] = 4225 /\ t[33] = 8450 /\ t[65] = 16900 /\ t[129] = 33800
  BY DEF Entry
<1> QED
  BY DEF fcsTable

(* ... and the entry of a bit is the entry of the next one after a step of the CRC. *)
LEMMA EntrySteps ==
  /\ CrcBit(1) = Entry(128)
  /\ \A i \in {1, 2, 4, 8, 16, 32, 64} : CrcBit(Entry(2 * i)) = Entry(i)
<1>1. CrcBit(1) = 33800
  <2>1. Xor(0, 33800) = 33800
    BY DEF Xor, Differ, Bit
  <2>2. 1 % 2 = 1 /\ 1 \div 2 = 0
    OBVIOUS
  <2> QED
    BY <2>1, <2>2 DEF CrcBit
<1>2. CrcBit(33800) = 16900
  <2>1. 33800 % 2 = 0 /\ 33800 \div 2 = 16900
    OBVIOUS
  <2> QED
    BY <2>1 DEF CrcBit
<1>3. CrcBit(16900) = 8450
  <2>1. 16900 % 2 = 0 /\ 16900 \div 2 = 8450
    OBVIOUS
  <2> QED
    BY <2>1 DEF CrcBit
<1>4. CrcBit(8450) = 4225
  <2>1. 8450 % 2 = 0 /\ 8450 \div 2 = 4225
    OBVIOUS
  <2> QED
    BY <2>1 DEF CrcBit
<1>5. CrcBit(4225) = 35912
  <2>1. Xor(2112, 33800) = 35912
    BY DEF Xor, Differ, Bit
  <2>2. 4225 % 2 = 1 /\ 4225 \div 2 = 2112
    OBVIOUS
  <2> QED
    BY <2>1, <2>2 DEF CrcBit
<1>6. CrcBit(35912) = 17956
  <2>1. 35912 % 2 = 0 /\ 35912 \div 2 = 17956
    OBVIOUS
  <2> QED
    BY <2>1 DEF CrcBit
<1>7. CrcBit(17956) = 8978
  <2>1. 17956 % 2 = 0 /\ 17956 \div 2 = 8978
    OBVIOUS
  <2> QED
    BY <2>1 DEF CrcBit
<1>8. CrcBit(8978) = 4489
  <2>1. 8978 % 2 = 0 /\ 8978 \div 2 = 4489
    OBVIOUS
  <2> QED
    BY <2>1 DEF CrcBit
<1> QED
  BY <1>1, <1>2, <1>3, <1>4, <1>5, <1>6, <1>7, <1>8, EntryBits

-----------------------------------------------------------------------------
(* The table is the CRC of a byte                                          *)

LEMMA BasisEntries == \A i \in LowWeights : Entry(i) = Crc8(i)
<1>1. \A n \in Nat : CrcBit(2 * n) = n
  BY DEF CrcBit
<1>2. \A n \in Nat : Crc8(n) = CrcBit(Crc8(2 * n))
  <2>1. \A r : Crc8(CrcBit(r)) = CrcBit(Crc8(r))
    BY DEF Crc8
  <2> QED
    BY <1>1, <2>1
<1>3. Crc8(128) = Entry(128)
  <2>1. 1 \in Octet
    BY DEF Octet
  <2>2. Crc8(256) = 1
    BY <2>1, Crc8High
  <2> QED
    BY <1>2, <2>2, EntrySteps
<1>4. Crc8(64) = Entry(64) /\ Crc8(32) = Entry(32) /\ Crc8(16) = Entry(16) /\ Crc8(8) = Entry(8)
  <2>1. Crc8(64) = CrcBit(Crc8(128)) /\ Crc8(32) = CrcBit(Crc8(64)) /\ Crc8(16) = CrcBit(Crc8(32))
        /\ Crc8(8) = CrcBit(Crc8(16))
    BY <1>2
  <2>2. CrcBit(Entry(128)) = Entry(64) /\ CrcBit(Entry(64)) = Entry(32) /\ CrcBit(Entry(32)) = Entry(16)
        /\ CrcBit(Entry(16)) = Entry(8)
    BY EntrySteps
  <2> QED
    BY <1>3, <2>1, <2>2
<1>5. Crc8(4) = Entry(4) /\ Crc8(2) = Entry(2) /\ Crc8(1) = Entry(1)
  <2>1. Crc8(4) = CrcBit(Crc8(8)) /\ Crc8(2) = CrcBit(Crc8(4)) /\ Crc8(1) = CrcBit(Crc8(2))
    BY <1>2
  <2>2. CrcBit(Entry(8)) = Entry(4) /\ CrcBit(Entry(4)) = Entry(2) /\ CrcBit(Entry(2)) = Entry(1)
    BY EntrySteps
  <2> QED
    BY <1>4, <2>1, <2>2
<1> QED
  BY <1>3, <1>4, <1>5 DEF LowWeights

EntriesBelow(n) == \A y \in Octet : y < n => Entry(y) = Crc8(y)

LEMMA EntriesBelowDoubling ==
  ASSUME NEW i \in LowWeights, AddsByXor(i), EntriesBelow(i)
  PROVE  EntriesBelow(2 * i)
<1> SUFFICES ASSUME NEW y \in Octet, y < 2 * i, ~(y < i) PROVE Entry(y) = Crc8(y)
  BY DEF EntriesBelow
<1>1. i \in Nat /\ i \in Octet /\ i \in Word
  BY DEF LowWeights, Octet, Word
<1>2. PICK z \in Octet : y = i + z /\ z < i
  <2>1. y - i \in Octet /\ y = i + (y - i) /\ y - i < i
    BY <1>1 DEF Octet
  <2> QED
    BY <2>1
<1>3. z \in Word /\ z \in 0 .. (i - 1) /\ z \in Nat
  BY <1>1, <1>2 DEF Octet, Word
<1>4. Entry(y) = Xor(Entry(i), Entry(z))
  <2>1. fcsTable[i + z + 1] = Xor(fcsTable[i + 1], fcsTable[z + 1])
    BY <1>3, EntryDoubling DEF Doubles
  <2> QED
    BY <1>2, <2>1 DEF Entry
<1>5. Entry(i) = Crc8(i) /\ Entry(z) = Crc8(z)
  BY <1>2, BasisEntries DEF EntriesBelow
<1>6. y = Xor(i, z)
  BY <1>2, <1>3 DEF AddsByXor
<1> QED
  BY <1>1, <1>3, <1>4, <1>5, <1>6, Crc8Linear

(* The table is the CRC of every byte. *)
LEMMA EntryIsCrc8 == \A x \in Octet : Entry(x) = Crc8(x)
<1>1. EntriesBelow(1)
  <2>1. Crc8(0) = 0
    <3>1. 0 \in Octet /\ 256 * 0 = 0
      BY DEF Octet
    <3> QED
      BY <3>1, Crc8High
  <2>2. \A y \in Octet : y < 1 => y = 0
    BY DEF Octet
  <2> QED
    BY <2>1, <2>2, EntryBits DEF EntriesBelow
<1>2. \A i \in LowWeights : AddsByXor(i)
  BY Powers DEF LowWeights
<1>3. \A i \in LowWeights : EntriesBelow(i) => EntriesBelow(2 * i)
  BY <1>2, EntriesBelowDoubling
<1>4. /\ EntriesBelow(1) => EntriesBelow(2)
      /\ EntriesBelow(2) => EntriesBelow(4)
      /\ EntriesBelow(4) => EntriesBelow(8)
      /\ EntriesBelow(8) => EntriesBelow(16)
  BY <1>3 DEF LowWeights
<1>5. /\ EntriesBelow(16) => EntriesBelow(32)
      /\ EntriesBelow(32) => EntriesBelow(64)
      /\ EntriesBelow(64) => EntriesBelow(128)
      /\ EntriesBelow(128) => EntriesBelow(256)
  BY <1>3 DEF LowWeights
<1>6. EntriesBelow(256)
  BY <1>1, <1>4, <1>5
<1> QED
  BY <1>6 DEF EntriesBelow, Octet

(* class Fcs computes the CRC, a byte at a time. *)
LEMMA ByteParts ==
  ASSUME NEW f \in Word
  PROVE  f \div 256 \in Octet /\ f % 256 \in Octet /\ f = 256 * (f \div 256) + (f % 256)
<1>1. f \in Nat /\ f < 65536
  BY DEF Word
<1> QED
  BY <1>1 DEF Octet

LEMMA SplitWord ==
  ASSUME NEW h \in Octet, NEW l \in Octet
  PROVE  256 * h \in Word /\ Xor(256 * h, l) = 256 * h + l
<1>1. 0 \in Octet /\ h = Xor(h, 0) /\ l = Xor(0, l)
  BY ByteWord, XorZero DEF Octet
<1>2. Xor(WordOf(h, 0), WordOf(0, l)) = WordOf(h, l)
  BY <1>1, XorBytes
<1>3. WordOf(h, 0) \in Word
  BY <1>1, BytesBits
<1>4. WordOf(h, 0) = 256 * h /\ WordOf(0, l) = l /\ WordOf(h, l) = 256 * h + l
  BY DEF WordOf, Octet
<1> QED
  BY <1>2, <1>3, <1>4

LEMMA FcsWriteIsCrc ==
  ASSUME NEW f \in Word, NEW b \in Octet
  PROVE  FcsWrite(f, b) = Crc8(Xor(f, b))
<1> DEFINE h == f \div 256
           l == f % 256
<1>1. h \in Octet /\ l \in Octet /\ f = Xor(256 * h, l) /\ 256 * h \in Word
  BY ByteParts, SplitWord
<1>2. h \in Word /\ l \in Word /\ b \in Word
  BY <1>1, ByteWord
<1>3. Xor(l, b) \in Octet /\ Xor(l, b) \in Word
  BY <1>1, XorByte, ByteWord
<1>4. FcsWrite(f, b) = Xor(h, Entry(Xor(l, b)))
  BY DEF FcsWrite, Entry
<1> HIDE DEF h, l
<1>5. Xor(f, b) = Xor(256 * h, Xor(l, b))
  BY <1>1, <1>2, XorAssoc
<1>6. Crc8(Xor(f, b)) = Xor(Crc8(256 * h), Crc8(Xor(l, b)))
  BY <1>1, <1>3, <1>5, Crc8Linear
<1> QED
  BY <1>1, <1>3, <1>4, <1>6, Crc8High, EntryIsCrc8

-----------------------------------------------------------------------------
(* Fcs::write                                                              *)

LEMMA FcsWriteType ==
  ASSUME NEW f \in Word, NEW b \in Octet
  PROVE  FcsWrite(f, b) \in Word
  BY FcsWriteIsCrc, ByteWord, XorType, Crc8Type

(* Different bytes, or different states, go different ways. *)
LEMMA FcsWriteSeparatesBytes ==
  ASSUME NEW f \in Word, NEW a \in Octet, NEW b \in Octet, FcsWrite(f, a) = FcsWrite(f, b)
  PROVE  a = b
<1>1. a \in Word /\ b \in Word
  BY ByteWord
<1>2. Xor(f, a) = Xor(f, b)
  BY <1>1, FcsWriteIsCrc, XorType, Crc8Injective
<1> QED
  BY <1>1, <1>2, XorCancel

LEMMA FcsWriteSeparatesStates ==
  ASSUME NEW f \in Word, NEW g \in Word, NEW b \in Octet, FcsWrite(f, b) = FcsWrite(g, b)
  PROVE  f = g
<1>1. b \in Word
  BY ByteWord
<1>2. Xor(f, b) = Xor(g, b)
  BY <1>1, FcsWriteIsCrc, XorType, Crc8Injective
<1>3. Xor(b, f) = Xor(b, g)
  BY <1>1, <1>2, XorComm
<1> QED
  BY <1>1, <1>3, XorCancel

(* Nor do two bytes make up for each other: what the first one changes the second cannot undo. *)
LEMMA FcsWriteSeparatesPairs ==
  ASSUME NEW f \in Word, NEW a \in Octet, NEW b \in Octet, NEW c \in Octet, NEW d \in Octet,
         FcsWrite(FcsWrite(f, a), b) = FcsWrite(FcsWrite(f, c), d)
  PROVE  a = c /\ b = d
<1> DEFINE p == FcsWrite(f, a)
           q == FcsWrite(f, c)
           x == Xor(a, c)
           y == Xor(b, d)
<1>1. a \in Word /\ b \in Word /\ c \in Word /\ d \in Word /\ x \in Octet /\ y \in Octet
      /\ p \in Word /\ q \in Word
  BY ByteWord, XorByte, FcsWriteType
<1>2. Xor(p, b) = Xor(q, d)
  <2> HIDE DEF p, q
  <2> QED
    BY <1>1, FcsWriteIsCrc, XorType, Crc8Injective DEF p, q
<1>3. Xor(p, q) = Crc8(x)
  <2>1. p = Crc8(Xor(f, a)) /\ q = Crc8(Xor(f, c)) /\ Xor(f, a) \in Word /\ Xor(f, c) \in Word
    BY <1>1, FcsWriteIsCrc, XorType
  <2>2. Xor(Xor(f, a), Xor(f, c)) = Xor(Xor(f, f), x)
    BY <1>1, XorExchange
  <2>3. Xor(Xor(f, f), x) = x
    BY <1>1, ByteWord, XorSelf, XorZero
  <2> QED
    BY <2>1, <2>2, <2>3, Crc8Linear
<1> HIDE DEF p, q
<1>4. Xor(p, q) = y
  <2>1. Xor(Xor(p, b), Xor(q, d)) = Xor(Xor(p, q), y)
    BY <1>1, XorExchange
  <2>2. Xor(Xor(p, b), Xor(q, d)) = 0
    BY <1>1, <1>2, XorType, XorSelf
  <2>3. Xor(Xor(p, q), Xor(p, q)) = 0 /\ Xor(p, q) \in Word /\ y \in Word
    BY <1>1, XorType, XorSelf, ByteWord
  <2> QED
    BY <2>1, <2>2, <2>3, XorCancel
<1>5. \A z \in Octet : 256 * z \in Word
  BY DEF Octet, Word
<1>6. x = 256 * y
  <2>1. x \in Word /\ 256 * y \in Word
    BY <1>1, <1>5, ByteWord
  <2>2. Crc8(x) = Crc8(256 * y)
    BY <1>1, <1>3, <1>4, Crc8High
  <2> HIDE DEF x, y
  <2> QED
    BY <2>1, <2>2, Crc8Injective
<1>7. x = 0 /\ y = 0
  <2> HIDE DEF x, y
  <2> QED
    BY <1>1, <1>6 DEF Octet
<1>8. a = c
  <2>1. Xor(a, a) = Xor(a, c)
    BY <1>1, <1>7, XorSelf
  <2> QED
    BY <1>1, <2>1, XorCancel
<1>9. b = d
  <2>1. Xor(b, b) = Xor(b, d)
    BY <1>1, <1>7, XorSelf
  <2> QED
    BY <1>1, <2>1, XorCancel
<1> QED
  BY <1>8, <1>9

(* After its own complement, low byte first, the FCS is the constant ppp_deframe looks for. *)
GoodFcs == 61624

LEMMA Residue ==
  ASSUME NEW f \in Word
  PROVE  LET r == FcsResult(f)
         IN  /\ r % 256 \in Octet /\ r \div 256 \in Octet
             /\ FcsWrite(FcsWrite(f, r % 256), r \div 256) = GoodFcs
<1> DEFINE r == FcsResult(f)
           h == f \div 256
           l == f % 256
           m == r % 256
           n == r \div 256
<1>1. h \in Octet /\ l \in Octet /\ m = 255 - l /\ n = 255 - h
  BY DEF FcsResult, Word, Octet
<1>2. FcsWrite(f, m) = Xor(h, Entry(Xor(l, m)))
  BY DEF FcsWrite, Entry
<1>3. FcsWrite(FcsWrite(f, m), n) = Xor(FcsWrite(f, m) \div 256, Entry(Xor(FcsWrite(f, m) % 256, n)))
  BY DEF FcsWrite, Entry
<1> HIDE DEF r, h, l, m, n
<1>4. m \in Octet /\ n \in Octet /\ h \in Word /\ l \in Word /\ m \in Word /\ n \in Word
      /\ m <= 255 /\ l <= 255 /\ h <= 255 /\ 255 \in Word /\ 120 \in Word /\ 120 \in Octet /\ 15 \in Octet
      /\ 0 \in Octet
  BY <1>1 DEF Octet, Word
<1>5. m = Xor(255, l) /\ n = Xor(255, h)
  BY <1>1, <1>4, RowsOfOnes DEF SubtractsByXor
<1>6. Xor(l, m) = 255
  <2>1. Xor(l, m) = Xor(l, Xor(l, 255))
    BY <1>4, <1>5, XorComm
  <2> QED
    BY <1>4, <2>1, XorAssoc, XorSelf, XorZero
<1>7. FcsWrite(f, m) = WordOf(15, Xor(h, 120))
  <2>1. 3960 = WordOf(15, 120) /\ h = WordOf(0, h)
    <3>1. \A x \in Octet : x = WordOf(0, x)
      BY DEF WordOf, Octet
    <3>2. 3960 = WordOf(15, 120)
      BY DEF WordOf
    <3> QED
      BY <1>1, <3>1, <3>2
  <2>2. Xor(0, 15) = 15
    BY <1>4, XorZero, ByteWord
  <2>3. Xor(h, 120) \in Octet
    BY <1>1, <1>4, XorByte
  <2>4. Xor(WordOf(0, h), WordOf(15, 120)) = WordOf(15, Xor(h, 120))
    BY <1>1, <1>4, <2>2, <2>3, XorBytes
  <2> QED
    BY <1>2, <1>6, <2>1, <2>4, EntryBits
<1>8. FcsWrite(f, m) \div 256 = 15 /\ FcsWrite(f, m) % 256 = Xor(h, 120)
  <2>1. Xor(h, 120) \in Octet
    BY <1>1, <1>4, XorByte
  <2>2. \A x \in Octet : WordOf(15, x) \div 256 = 15 /\ WordOf(15, x) % 256 = x
    BY DEF WordOf, Octet
  <2> QED
    BY <1>7, <2>1, <2>2
<1>9. Xor(Xor(h, 120), n) = 135
  <2>1. Xor(Xor(h, 120), Xor(h, 255)) = Xor(Xor(h, h), Xor(120, 255))
    BY <1>4, XorExchange
  <2>2. Xor(120, 255) = 135
    BY DEF Xor, Differ, Bit
  <2>3. 135 \in Word /\ n = Xor(h, 255)
    BY <1>4, <1>5, XorComm DEF Word
  <2> QED
    BY <1>4, <2>1, <2>2, <2>3, XorSelf, XorZero
<1>10. FcsWrite(FcsWrite(f, m), n) = 61624
  <2>1. Xor(15, 61623) = 61624
    BY DEF Xor, Differ, Bit
  <2> QED
    BY <1>3, <1>8, <1>9, <2>1, EntryBits
<1> QED
  BY <1>4, <1>10 DEF r, m, n, GoodFcs

-----------------------------------------------------------------------------
(* The loops of ppp_frame, of ppp_deframe and of the CRC                   *)

(* What the loops of ppp_frame and ppp_deframe keep. *)
FrameState == [out : Seq(Octet), fcs : Word]
UnstuffState == [esc : BOOLEAN, flag : BOOLEAN, out : Seq(Octet), fcs : Word]
UnstuffInit == [esc |-> FALSE, flag |-> FALSE, out |-> <<>>, fcs |-> FcsStart]
FrameInit == [out |-> <<>>, fcs |-> FcsStart]

LEMMA ByteConstants ==
  /\ PPP_MASK_CHAR \in Octet /\ PPP_ESC_CHAR \in Octet /\ PPP_FLAG_CHAR \in Octet /\ FcsStart \in Word
  /\ PPP_ESC_CHAR # PPP_FLAG_CHAR
  BY DEF PPP_MASK_CHAR, PPP_ESC_CHAR, PPP_FLAG_CHAR, FcsStart, Octet, Word

LEMMA EscapedType == \A c \in Octet : Escaped(c) \in Seq(Octet)
  BY ByteConstants, XorByte DEF Escaped

LEMMA FrameByteType == \A st \in FrameState, c \in Octet : FrameByte(st, c) \in FrameState
<1> TAKE st \in FrameState, c \in Octet
<1>1. st.out \in Seq(Octet) /\ st.fcs \in Word
  BY DEF FrameState
<1>2. st.out \o Escaped(c) \in Seq(Octet) /\ FcsWrite(st.fcs, c) \in Word
  BY <1>1, EscapedType, FcsWriteType
<1> QED
  BY <1>2 DEF FrameState, FrameByte

LEMMA UnstuffByte ==
  ASSUME NEW st \in UnstuffState, NEW c \in Octet
  PROVE  /\ Unstuff(st, c) \in UnstuffState
         /\ st.flag => Unstuff(st, c) = st
         /\ ~st.flag /\ c = PPP_ESC_CHAR => Unstuff(st, c) = [st EXCEPT !.esc = TRUE]
         /\ ~st.flag /\ c = PPP_FLAG_CHAR => Unstuff(st, c) = [st EXCEPT !.flag = TRUE]
         /\ ~st.flag /\ ~Special(c) =>
              LET d == IF st.esc THEN Xor(c, PPP_MASK_CHAR) ELSE c
              IN  /\ d \in Octet
                  /\ Unstuff(st, c) = [esc |-> FALSE, flag |-> FALSE, out |-> Append(st.out, d),
                                       fcs |-> FcsWrite(st.fcs, d)]
<1> DEFINE d == IF st.esc THEN Xor(c, PPP_MASK_CHAR) ELSE c
<1>1. st.esc \in BOOLEAN /\ st.flag \in BOOLEAN /\ st.out \in Seq(Octet) /\ st.fcs \in Word
  BY DEF UnstuffState
<1>2. d \in Octet
  BY <1>1, ByteConstants, XorByte
<1> HIDE DEF d
<1>3. Append(st.out, d) \in Seq(Octet) /\ FcsWrite(st.fcs, d) \in Word
  BY <1>1, <1>2, FcsWriteType
<1>4. CASE st.flag
  <2>1. Unstuff(st, c) = st
    BY <1>4 DEF Unstuff
  <2> QED
    BY <1>4, <2>1
<1>5. CASE ~st.flag /\ c = PPP_ESC_CHAR
  BY <1>5, ByteConstants DEF Unstuff, UnstuffState, Special
<1>6. CASE ~st.flag /\ c = PPP_FLAG_CHAR
  BY <1>6, ByteConstants DEF Unstuff, UnstuffState, Special
<1>7. CASE ~st.flag /\ ~Special(c)
  <2>1. Unstuff(st, c) = [st EXCEPT !.esc = FALSE, !.out = Append(@, d), !.fcs = FcsWrite(@, d)]
    BY <1>7 DEF Unstuff, Special, d
  <2>2. Unstuff(st, c) = [esc |-> FALSE, flag |-> FALSE, out |-> Append(st.out, d),
                          fcs |-> FcsWrite(st.fcs, d)]
    BY <1>7, <2>1 DEF UnstuffState
  <2>3. c # PPP_ESC_CHAR /\ c # PPP_FLAG_CHAR
    BY <1>7 DEF Special
  <2> QED
    BY <1>2, <1>3, <1>7, <2>2, <2>3 DEF UnstuffState, d
<1> QED
  BY <1>1, <1>4, <1>5, <1>6, <1>7 DEF Special

LEMMA UnstuffType == \A st \in UnstuffState, c \in Octet : Unstuff(st, c) \in UnstuffState
  BY UnstuffByte

LEMMA CrcType == \A r \in Word, b \in Octet : Crc8(Xor(r, b)) \in Word
  BY ByteWord, XorType, Crc8Type

LEMMA FramedFacts ==
  ASSUME NEW in \in Seq(Octet)
  PROVE  /\ \A k \in 0 .. Len(in) : FramedUpTo(in)[k] \in FrameState
         /\ FramedUpTo(in)[0] = FrameInit
         /\ \A k \in 1 .. Len(in) : FramedUpTo(in)[k] = FrameByte(FramedUpTo(in)[k - 1], in[k])
<1> DEFINE N == Len(in)
           step == [n \in 1 .. N |-> [x \in FrameState |-> FrameByte(x, in[n])]]
           Def(g) == [k \in 0 .. N |-> IF k = 0 THEN FrameInit ELSE FrameByte(g[k - 1], in[k])]
           upTo == CHOOSE g : g = Def(g)
<1>1. N \in Nat /\ \A n \in 1 .. N : in[n] \in Octet
  OBVIOUS
<1>2. FrameInit \in FrameState
  BY ByteConstants DEF FrameInit, FrameState
<1>3. step \in [1 .. N -> [FrameState -> FrameState]]
  <2>1. \A n \in 1 .. N, x \in FrameState : FrameByte(x, in[n]) \in FrameState
    BY <1>1, FrameByteType
  <2> HIDE DEF N
  <2> QED
    BY <2>1
<1>4. PICK g : IteratesUpTo(g, N, FrameState, FrameInit, step)
  <2> HIDE DEF step, N, Def, upTo
  <2> QED
    BY <1>1, <1>2, <1>3, BoundedIteration
<1>5. g \in [0 .. N -> FrameState] /\ g = Def(g)
  <2>1. ASSUME NEW k \in 0 .. N PROVE g[k] = Def(g)[k]
    <3>1. CASE k = 0
      BY <1>4, <3>1 DEF IteratesUpTo
    <3>2. CASE k # 0
      <4>1. k \in 1 .. N /\ k - 1 \in 0 .. N
        BY <1>1, <3>2
      <4>2. g[k - 1] \in FrameState /\ g[k] = step[k][g[k - 1]]
        <5> HIDE DEF N, step
        <5> QED
          BY <1>4, <4>1 DEF IteratesUpTo
      <4>3. step[k][g[k - 1]] = FrameByte(g[k - 1], in[k])
        <5> HIDE DEF N
        <5> QED
          BY <4>1, <4>2
      <4> QED
        BY <3>2, <4>2, <4>3
    <3> QED
      BY <3>1, <3>2
  <2>2. g \in [0 .. N -> FrameState] /\ g = [k \in 0 .. N |-> g[k]]
    BY <1>4 DEF IteratesUpTo
  <2> HIDE DEF step, upTo
  <2> QED
    BY <2>1, <2>2
<1>6. upTo = Def(upTo)
  <2> HIDE DEF Def
  <2> QED
    BY <1>5
<1>7. FramedUpTo(in) = upTo
  BY DEF FramedUpTo, FrameInit
<1> HIDE DEF upTo
<1>8. upTo[0] = FrameInit /\ \A k \in 1 .. N : upTo[k] = FrameByte(upTo[k - 1], in[k])
  <2>1. \A k \in 1 .. N : k \in 0 .. N /\ k # 0
    BY <1>1
  <2>2. 0 \in 0 .. N
    BY <1>1
  <2>3. \A k \in 0 .. N : upTo[k] = Def(upTo)[k]
    <3> HIDE DEF Def
    <3> QED
      BY <1>6
  <2> HIDE DEF N
  <2> QED
    BY <2>1, <2>2, <2>3
<1>9. \A k \in 0 .. N : upTo[k] \in FrameState
  <2> DEFINE S == {k \in 0 .. N : upTo[k] \in FrameState}
  <2>1. 0 \in S
    BY <1>1, <1>2, <1>8
  <2>2. \A n \in 0 .. (N - 1) : n \in S => n + 1 \in S
    <3>1. SUFFICES ASSUME NEW n \in 0 .. (N - 1), upTo[n] \in FrameState PROVE n + 1 \in S
      OBVIOUS
    <3>2. n + 1 \in 1 .. N /\ n + 1 \in 0 .. N /\ (n + 1) - 1 = n
      BY <1>1
    <3> HIDE DEF N
    <3>3. upTo[n + 1] = FrameByte(upTo[n], in[n + 1]) /\ in[n + 1] \in Octet
      BY <1>1, <1>8, <3>2
    <3> QED
      BY <3>1, <3>2, <3>3, FrameByteType
  <2> HIDE DEF S, N
  <2>3. 0 .. N \subseteq S
    BY <1>1, <2>1, <2>2, BoundedInduction
  <2> QED
    BY <2>3 DEF S
<1> QED
  BY <1>7, <1>8, <1>9

LEMMA CrcFacts ==
  ASSUME NEW in \in Seq(Octet)
  PROVE  /\ \A k \in 0 .. Len(in) : CrcUpTo(in)[k] \in Word
         /\ CrcUpTo(in)[0] = 65535
         /\ \A k \in 1 .. Len(in) : CrcUpTo(in)[k] = Crc8(Xor(CrcUpTo(in)[k - 1], in[k]))
<1> DEFINE N == Len(in)
           step == [n \in 1 .. N |-> [x \in Word |-> Crc8(Xor(x, in[n]))]]
           Def(g) == [k \in 0 .. N |-> IF k = 0 THEN 65535 ELSE Crc8(Xor(g[k - 1], in[k]))]
           upTo == CHOOSE g : g = Def(g)
<1>1. N \in Nat /\ \A n \in 1 .. N : in[n] \in Octet
  OBVIOUS
<1>2. 65535 \in Word
  BY DEF Word
<1>3. step \in [1 .. N -> [Word -> Word]]
  <2>1. \A n \in 1 .. N, x \in Word : Crc8(Xor(x, in[n])) \in Word
    BY <1>1, CrcType
  <2> HIDE DEF N
  <2> QED
    BY <2>1
<1>4. PICK g : IteratesUpTo(g, N, Word, 65535, step)
  <2> HIDE DEF step, N, Def, upTo
  <2> QED
    BY <1>1, <1>2, <1>3, BoundedIteration
<1>5. g \in [0 .. N -> Word] /\ g = Def(g)
  <2>1. ASSUME NEW k \in 0 .. N PROVE g[k] = Def(g)[k]
    <3>1. CASE k = 0
      BY <1>4, <3>1 DEF IteratesUpTo
    <3>2. CASE k # 0
      <4>1. k \in 1 .. N /\ k - 1 \in 0 .. N
        BY <1>1, <3>2
      <4>2. g[k - 1] \in Word /\ g[k] = step[k][g[k - 1]]
        <5> HIDE DEF N, step
        <5> QED
          BY <1>4, <4>1 DEF IteratesUpTo
      <4>3. step[k][g[k - 1]] = Crc8(Xor(g[k - 1], in[k]))
        <5> HIDE DEF N
        <5> QED
          BY <4>1, <4>2
      <4> QED
        BY <3>2, <4>2, <4>3
    <3> QED
      BY <3>1, <3>2
  <2>2. g \in [0 .. N -> Word] /\ g = [k \in 0 .. N |-> g[k]]
    BY <1>4 DEF IteratesUpTo
  <2> HIDE DEF step, upTo
  <2> QED
    BY <2>1, <2>2
<1>6. upTo = Def(upTo)
  <2> HIDE DEF Def
  <2> QED
    BY <1>5
<1>7. CrcUpTo(in) = upTo
  BY DEF CrcUpTo
<1> HIDE DEF upTo
<1>8. upTo[0] = 65535 /\ \A k \in 1 .. N : upTo[k] = Crc8(Xor(upTo[k - 1], in[k]))
  <2>1. \A k \in 1 .. N : k \in 0 .. N /\ k # 0
    BY <1>1
  <2>2. 0 \in 0 .. N
    BY <1>1
  <2>3. \A k \in 0 .. N : upTo[k] = Def(upTo)[k]
    <3> HIDE DEF Def
    <3> QED
      BY <1>6
  <2> HIDE DEF N
  <2> QED
    BY <2>1, <2>2, <2>3
<1>9. \A k \in 0 .. N : upTo[k] \in Word
  <2> DEFINE S == {k \in 0 .. N : upTo[k] \in Word}
  <2>1. 0 \in S
    BY <1>1, <1>2, <1>8
  <2>2. \A n \in 0 .. (N - 1) : n \in S => n + 1 \in S
    <3>1. SUFFICES ASSUME NEW n \in 0 .. (N - 1), upTo[n] \in Word PROVE n + 1 \in S
      OBVIOUS
    <3>2. n + 1 \in 1 .. N /\ n + 1 \in 0 .. N /\ (n + 1) - 1 = n
      BY <1>1
    <3> HIDE DEF N
    <3>3. upTo[n + 1] = Crc8(Xor(upTo[n], in[n + 1])) /\ in[n + 1] \in Octet
      BY <1>1, <1>8, <3>2
    <3> QED
      BY <3>1, <3>2, <3>3, CrcType
  <2> HIDE DEF S, N
  <2>3. 0 .. N \subseteq S
    BY <1>1, <2>1, <2>2, BoundedInduction
  <2> QED
    BY <2>3 DEF S
<1> QED
  BY <1>7, <1>8, <1>9

LEMMA UnstuffedFacts ==
  ASSUME NEW in \in Seq(Octet)
  PROVE  /\ \A k \in 0 .. Len(in) : UnstuffedUpTo(in)[k] \in UnstuffState
         /\ UnstuffedUpTo(in)[0] = UnstuffInit
         /\ \A k \in 1 .. Len(in) : UnstuffedUpTo(in)[k] = Unstuff(UnstuffedUpTo(in)[k - 1], in[k])
<1> DEFINE N == Len(in)
           step == [n \in 1 .. N |-> [x \in UnstuffState |-> Unstuff(x, in[n])]]
           Def(g) == [k \in 0 .. N |-> IF k = 0 THEN UnstuffInit ELSE Unstuff(g[k - 1], in[k])]
           upTo == CHOOSE g : g = Def(g)
<1>1. N \in Nat /\ \A n \in 1 .. N : in[n] \in Octet
  OBVIOUS
<1>2. UnstuffInit \in UnstuffState
  BY ByteConstants DEF UnstuffInit, UnstuffState
<1>3. step \in [1 .. N -> [UnstuffState -> UnstuffState]]
  <2>1. \A n \in 1 .. N, x \in UnstuffState : Unstuff(x, in[n]) \in UnstuffState
    BY <1>1, UnstuffType
  <2> HIDE DEF N
  <2> QED
    BY <2>1
<1>4. PICK g : IteratesUpTo(g, N, UnstuffState, UnstuffInit, step)
  <2> HIDE DEF step, N, Def, upTo
  <2> QED
    BY <1>1, <1>2, <1>3, BoundedIteration
<1>5. g \in [0 .. N -> UnstuffState] /\ g = Def(g)
  <2>1. ASSUME NEW k \in 0 .. N PROVE g[k] = Def(g)[k]
    <3>1. CASE k = 0
      BY <1>4, <3>1 DEF IteratesUpTo
    <3>2. CASE k # 0
      <4>1. k \in 1 .. N /\ k - 1 \in 0 .. N
        BY <1>1, <3>2
      <4>2. g[k - 1] \in UnstuffState /\ g[k] = step[k][g[k - 1]]
        <5> HIDE DEF N, step
        <5> QED
          BY <1>4, <4>1 DEF IteratesUpTo
      <4>3. step[k][g[k - 1]] = Unstuff(g[k - 1], in[k])
        <5> HIDE DEF N
        <5> QED
          BY <4>1, <4>2
      <4> QED
        BY <3>2, <4>2, <4>3
    <3> QED
      BY <3>1, <3>2
  <2>2. g \in [0 .. N -> UnstuffState] /\ g = [k \in 0 .. N |-> g[k]]
    BY <1>4 DEF IteratesUpTo
  <2> HIDE DEF step, upTo
  <2> QED
    BY <2>1, <2>2
<1>6. upTo = Def(upTo)
  <2> HIDE DEF Def
  <2> QED
    BY <1>5
<1>7. UnstuffedUpTo(in) = upTo
  BY DEF UnstuffedUpTo, UnstuffInit
<1> HIDE DEF upTo
<1>8. upTo[0] = UnstuffInit /\ \A k \in 1 .. N : upTo[k] = Unstuff(upTo[k - 1], in[k])
  <2>1. \A k \in 1 .. N : k \in 0 .. N /\ k # 0
    BY <1>1
  <2>2. 0 \in 0 .. N
    BY <1>1
  <2>3. \A k \in 0 .. N : upTo[k] = Def(upTo)[k]
    <3> HIDE DEF Def
    <3> QED
      BY <1>6
  <2> HIDE DEF N
  <2> QED
    BY <2>1, <2>2, <2>3
<1>9. \A k \in 0 .. N : upTo[k] \in UnstuffState
  <2> DEFINE S == {k \in 0 .. N : upTo[k] \in UnstuffState}
  <2>1. 0 \in S
    BY <1>1, <1>2, <1>8
  <2>2. \A n \in 0 .. (N - 1) : n \in S => n + 1 \in S
    <3>1. SUFFICES ASSUME NEW n \in 0 .. (N - 1), upTo[n] \in UnstuffState PROVE n + 1 \in S
      OBVIOUS
    <3>2. n + 1 \in 1 .. N /\ n + 1 \in 0 .. N /\ (n + 1) - 1 = n
      BY <1>1
    <3> HIDE DEF N
    <3>3. upTo[n + 1] = Unstuff(upTo[n], in[n + 1]) /\ in[n + 1] \in Octet
      BY <1>1, <1>8, <3>2
    <3> QED
      BY <3>1, <3>2, <3>3, UnstuffType
  <2> HIDE DEF S, N
  <2>3. 0 .. N \subseteq S
    BY <1>1, <2>1, <2>2, BoundedInduction
  <2> QED
    BY <2>3 DEF S
<1> QED
  BY <1>7, <1>8, <1>9

-----------------------------------------------------------------------------
(* What the loops compute                                                  *)

LEMMA ResultTypes ==
  ASSUME NEW in \in Seq(Octet)
  PROVE  Framed(in) \in FrameState /\ Unstuffed(in) \in UnstuffState
<1>1. Len(in) \in 0 .. Len(in)
  BY LenProperties
<1> QED
  BY <1>1, FramedFacts, UnstuffedFacts DEF Framed, Unstuffed

(* For every payload the FCS that the table-driven Fcs of ppp_frame.cpp has *)
(* after its bytes is the CRC-16/X.25 of RFC 1662, computed bit by bit.     *)
THEOREM FcsOfEveryPayload ==
  ASSUME NEW in \in Seq(Octet)
  PROVE  Framed(in).fcs = Crc(in)
<1> DEFINE N == Len(in)
           S == {k \in 0 .. N : FramedUpTo(in)[k].fcs = CrcUpTo(in)[k]}
<1>1. N \in Nat /\ \A n \in 1 .. N : in[n] \in Octet
  OBVIOUS
<1>2. 0 \in S
  BY <1>1, FramedFacts, CrcFacts DEF FrameInit, FcsStart
<1>3. ASSUME NEW n \in 0 .. (N - 1), n \in S PROVE n + 1 \in S
  <2>1. n + 1 \in 1 .. N /\ n + 1 \in 0 .. N /\ (n + 1) - 1 = n /\ n \in 0 .. N
    BY <1>1
  <2>2. FramedUpTo(in)[n].fcs = CrcUpTo(in)[n] /\ in[n + 1] \in Octet
    BY <1>1, <1>3, <2>1
  <2>3. FramedUpTo(in)[n + 1] = FrameByte(FramedUpTo(in)[n], in[n + 1])
        /\ CrcUpTo(in)[n + 1] = Crc8(Xor(CrcUpTo(in)[n], in[n + 1]))
    BY <2>1, FramedFacts, CrcFacts
  <2>4. CrcUpTo(in)[n] \in Word
    BY <2>1, CrcFacts
  <2>5. FramedUpTo(in)[n + 1].fcs = FcsWrite(FramedUpTo(in)[n].fcs, in[n + 1])
    BY <2>3 DEF FrameByte
  <2> QED
    BY <2>1, <2>2, <2>3, <2>4, <2>5, FcsWriteIsCrc
<1> HIDE DEF S, N
<1>4. 0 .. N \subseteq S
  BY <1>1, <1>2, <1>3, BoundedInduction
<1>5. N \in S
  BY <1>1, <1>4
<1> QED
  BY <1>5 DEF S, N, Framed, Crc

(* Sequences that begin alike are unstuffed alike. *)
LEMMA UnstuffedPrefix ==
  ASSUME NEW s \in Seq(Octet), NEW t \in Seq(Octet), NEW n \in Nat, n <= Len(s), n <= Len(t),
         \A i \in 1 .. n : s[i] = t[i]
  PROVE  UnstuffedUpTo(s)[n] = UnstuffedUpTo(t)[n]
<1> DEFINE S == {k \in 0 .. n : UnstuffedUpTo(s)[k] = UnstuffedUpTo(t)[k]}
<1>1. Len(s) \in Nat /\ Len(t) \in Nat
  OBVIOUS
<1>2. 0 \in S
  BY UnstuffedFacts
<1>3. ASSUME NEW k \in 0 .. (n - 1), k \in S PROVE k + 1 \in S
  <2>1. k + 1 \in 1 .. n /\ k + 1 \in 0 .. n /\ k + 1 \in 1 .. Len(s) /\ k + 1 \in 1 .. Len(t) /\ (k + 1) - 1 = k
    BY <1>1
  <2>2. UnstuffedUpTo(s)[k + 1] = Unstuff(UnstuffedUpTo(s)[k], s[k + 1])
        /\ UnstuffedUpTo(t)[k + 1] = Unstuff(UnstuffedUpTo(t)[k], t[k + 1])
    BY <2>1, UnstuffedFacts
  <2>3. UnstuffedUpTo(s)[k] = UnstuffedUpTo(t)[k] /\ s[k + 1] = t[k + 1]
    BY <1>3, <2>1
  <2> QED
    BY <2>1, <2>2, <2>3
<1> HIDE DEF S
<1>4. 0 .. n \subseteq S
  BY <1>2, <1>3, BoundedInduction
<1>5. n \in S
  BY <1>4
<1> QED
  BY <1>5 DEF S

LEMMA UnstuffedAppend ==
  ASSUME NEW s \in Seq(Octet), NEW c \in Octet
  PROVE  Unstuffed(Append(s, c)) = Unstuff(Unstuffed(s), c)
<1> DEFINE t == Append(s, c)
           n == Len(s)
<1>1. t \in Seq(Octet) /\ Len(t) = n + 1 /\ t[n + 1] = c /\ n \in Nat /\ \A i \in 1 .. n : s[i] = t[i]
  OBVIOUS
<1> HIDE DEF t, n
<1>2. UnstuffedUpTo(s)[n] = UnstuffedUpTo(t)[n]
  <2>1. n <= Len(s) /\ n <= Len(t)
    BY <1>1 DEF n
  <2> QED
    BY <1>1, <2>1, UnstuffedPrefix
<1>3. n + 1 \in 1 .. Len(t) /\ (n + 1) - 1 = n
  BY <1>1
<1>4. UnstuffedUpTo(t)[n + 1] = Unstuff(UnstuffedUpTo(t)[n], c)
  BY <1>1, <1>3, UnstuffedFacts
<1> QED
  BY <1>1, <1>2, <1>4 DEF Unstuffed, t, n

LEMMA UnstuffedEmpty == Unstuffed(<<>>) = UnstuffInit
<1>1. <<>> \in Seq(Octet) /\ Len(<<>>) = 0
  OBVIOUS
<1> QED
  BY <1>1, UnstuffedFacts DEF Unstuffed

-----------------------------------------------------------------------------
(* Escaping and unescaping                                                 *)

LEMMA ConcatPair ==
  ASSUME NEW S, NEW s \in Seq(S), NEW a \in S, NEW b \in S
  PROVE  s \o <<a, b>> = Append(Append(s, a), b)
<1> DEFINE w == <<a, b>>
           r == Append(s, a)
           t == Append(r, b)
<1>1. w \in Seq(S) /\ Len(w) = 2 /\ w[1] = a /\ w[2] = b /\ Len(s) \in Nat
  OBVIOUS
<1>2. r \in Seq(S) /\ Len(r) = Len(s) + 1 /\ (\A i \in 1 .. Len(s) : r[i] = s[i]) /\ r[Len(s) + 1] = a
  BY AppendProperties
<1> HIDE DEF w, r
<1>3. t \in Seq(S) /\ Len(t) = Len(r) + 1 /\ (\A i \in 1 .. Len(r) : t[i] = r[i]) /\ t[Len(r) + 1] = b
  BY <1>2, AppendProperties
<1>4. s \o w \in Seq(S) /\ Len(s \o w) = Len(s) + Len(w)
      /\ \A i \in 1 .. Len(s) + Len(w) : (s \o w)[i] = IF i <= Len(s) THEN s[i] ELSE w[i - Len(s)]
  BY <1>1, ConcatProperties
<1> HIDE DEF t
<1>5. ASSUME NEW i \in 1 .. Len(s) + 2 PROVE (s \o w)[i] = t[i]
  <2>1. CASE i \in 1 .. Len(s)
    BY <1>1, <1>2, <1>3, <1>4, <2>1
  <2>2. CASE i = Len(s) + 1
    <3>1. ~(i <= Len(s)) /\ i - Len(s) = 1 /\ i \in 1 .. Len(r) /\ i \in 1 .. Len(s) + Len(w)
      BY <1>1, <1>2, <2>2
    <3> QED
      BY <1>1, <1>2, <1>3, <1>4, <2>2, <3>1
  <2>3. CASE i = Len(s) + 2
    <3>1. ~(i <= Len(s)) /\ i - Len(s) = 2 /\ i = Len(r) + 1 /\ i \in 1 .. Len(s) + Len(w)
      BY <1>1, <1>2, <2>3
    <3> QED
      BY <1>1, <1>3, <1>4, <3>1
  <2>4. i \in 1 .. Len(s) \/ i = Len(s) + 1 \/ i = Len(s) + 2
    BY <1>1
  <2> QED
    BY <2>1, <2>2, <2>3, <2>4, Zenon
<1>6. s \o w = t
  BY <1>1, <1>2, <1>3, <1>4, <1>5, SeqEqual
<1> QED
  BY <1>6 DEF t, r, w

NoFlag(s) == \A n \in 1 .. Len(s) : s[n] # PPP_FLAG_CHAR

(* The two escaped characters are ordinary ones, and unescaping gives them back. *)
LEMMA EscapedCharacters ==
  ASSUME NEW c \in Octet, Special(c)
  PROVE  /\ Xor(c, PPP_MASK_CHAR) \in Octet /\ ~Special(Xor(c, PPP_MASK_CHAR))
         /\ Xor(Xor(c, PPP_MASK_CHAR), PPP_MASK_CHAR) = c
<1>1. Xor(125, 32) = 93 /\ Xor(126, 32) = 94
  BY DEF Xor, Differ, Bit
<1>2. ~Special(Xor(c, PPP_MASK_CHAR))
  BY <1>1 DEF Special, PPP_MASK_CHAR, PPP_ESC_CHAR, PPP_FLAG_CHAR
<1>3. c \in Word /\ PPP_MASK_CHAR \in Word
  BY ByteWord, ByteConstants
<1>4. Xor(Xor(c, PPP_MASK_CHAR), PPP_MASK_CHAR) = c
  BY <1>3, XorAssoc, XorSelf, XorZero
<1> QED
  BY <1>2, <1>4, XorByte, ByteConstants

LEMMA EscapedForm ==
  ASSUME NEW c \in Octet
  PROVE  /\ Special(c) => Escaped(c) = <<PPP_ESC_CHAR, Xor(c, PPP_MASK_CHAR)>>
         /\ ~Special(c) => Escaped(c) = <<c>>
  BY DEF Escaped, Special

(* What addEscaped writes holds no FLAG, and the loop of ppp_deframe undoes it. *)
LEMMA NoFlagAppended ==
  ASSUME NEW s \in Seq(Octet), NEW c \in Octet, NoFlag(s)
  PROVE  NoFlag(s \o Escaped(c)) /\ Len(s \o Escaped(c)) >= Len(s) + 1
<1>1. ASSUME NEW r \in Seq(Octet), NEW d \in Octet, NoFlag(r), d # PPP_FLAG_CHAR
      PROVE  NoFlag(Append(r, d)) /\ Append(r, d) \in Seq(Octet) /\ Len(Append(r, d)) = Len(r) + 1
  BY <1>1 DEF NoFlag
<1>2. CASE Special(c)
  <2> DEFINE e == Xor(c, PPP_MASK_CHAR)
             r == Append(s, PPP_ESC_CHAR)
  <2>1. e \in Octet /\ e # PPP_FLAG_CHAR
    BY <1>2, EscapedCharacters DEF Special
  <2> HIDE DEF e
  <2>2. NoFlag(r) /\ r \in Seq(Octet) /\ Len(r) = Len(s) + 1
    BY <1>1, ByteConstants
  <2>3. s \o <<PPP_ESC_CHAR, e>> = Append(r, e)
    BY <2>1, ByteConstants, ConcatPair
  <2> HIDE DEF r
  <2>4. NoFlag(Append(r, e)) /\ Len(Append(r, e)) = Len(s) + 2
    BY <1>1, <2>1, <2>2
  <2>5. Escaped(c) = <<PPP_ESC_CHAR, e>>
    BY <1>2, EscapedForm DEF e
  <2>6. s \o Escaped(c) = Append(r, e)
    BY <2>3, <2>5, Zenon
  <2> QED
    BY <2>4, <2>6, LenProperties
<1>3. CASE ~Special(c)
  <2>1. c # PPP_FLAG_CHAR
    BY <1>3 DEF Special
  <2>2. s \o <<c>> = Append(s, c)
    BY AppendIsConcat
  <2>3. NoFlag(Append(s, c)) /\ Len(Append(s, c)) = Len(s) + 1
    BY <1>1, <2>1
  <2>4. s \o Escaped(c) = Append(s, c)
    BY <1>3, <2>2, EscapedForm, Zenon
  <2> QED
    BY <2>3, <2>4, LenProperties
<1> QED
  BY <1>2, <1>3

LEMMA UnstuffedEscaped ==
  ASSUME NEW s \in Seq(Octet), NEW c \in Octet, ~Unstuffed(s).esc, ~Unstuffed(s).flag
  PROVE  Unstuffed(s \o Escaped(c)) =
           [esc |-> FALSE, flag |-> FALSE, out |-> Append(Unstuffed(s).out, c),
            fcs |-> FcsWrite(Unstuffed(s).fcs, c)]
<1> DEFINE u == Unstuffed(s)
<1>1. u \in UnstuffState /\ ~u.esc /\ ~u.flag
  BY ResultTypes
<1>2. CASE Special(c)
  <2> DEFINE e == Xor(c, PPP_MASK_CHAR)
             r == Append(s, PPP_ESC_CHAR)
             v == [u EXCEPT !.esc = TRUE]
  <2>1. e \in Octet /\ ~Special(e) /\ Xor(e, PPP_MASK_CHAR) = c
    BY <1>2, EscapedCharacters
  <2>2. Escaped(c) = <<PPP_ESC_CHAR, e>>
    BY <1>2, EscapedForm
  <2> HIDE DEF e
  <2>3. r \in Seq(Octet) /\ s \o <<PPP_ESC_CHAR, e>> = Append(r, e)
    BY <2>1, ByteConstants, ConcatPair
  <2>4. Unstuffed(r) = v
    <3>1. Unstuffed(r) = Unstuff(u, PPP_ESC_CHAR)
      BY ByteConstants, UnstuffedAppend
    <3> HIDE DEF r, u
    <3> QED
      BY <1>1, <3>1, ByteConstants, UnstuffByte
  <2>5. v \in UnstuffState /\ v.esc /\ ~v.flag /\ v.out = u.out /\ v.fcs = u.fcs
    <3> HIDE DEF u
    <3> QED
      BY <1>1 DEF UnstuffState
  <2>6. Unstuffed(Append(r, e)) = Unstuff(v, e)
    BY <2>1, <2>3, <2>4, UnstuffedAppend
  <2> HIDE DEF v, u, r
  <2>7. Unstuff(v, e) = [esc |-> FALSE, flag |-> FALSE, out |-> Append(v.out, c), fcs |-> FcsWrite(v.fcs, c)]
    BY <2>1, <2>5, UnstuffByte
  <2>8. Unstuffed(s \o Escaped(c)) =
          [esc |-> FALSE, flag |-> FALSE, out |-> Append(u.out, c), fcs |-> FcsWrite(u.fcs, c)]
    BY <2>2, <2>3, <2>5, <2>6, <2>7
  <2> QED
    BY <2>8 DEF u
<1>3. CASE ~Special(c)
  <2>1. s \o Escaped(c) = Append(s, c)
    BY <1>3, EscapedForm, AppendIsConcat
  <2>2. Unstuffed(s \o Escaped(c)) = Unstuff(u, c)
    BY <2>1, UnstuffedAppend
  <2> HIDE DEF u
  <2>3. Unstuff(u, c) = [esc |-> FALSE, flag |-> FALSE, out |-> Append(u.out, c), fcs |-> FcsWrite(u.fcs, c)]
    BY <1>1, <1>3, UnstuffByte
  <2> QED
    BY <2>2, <2>3 DEF u
<1> QED
  BY <1>2, <1>3

-----------------------------------------------------------------------------
(* ppp_deframe undoes ppp_frame, byte by byte                              *)

LEMMA AppendedPrefix ==
  ASSUME NEW s \in Seq(Octet), NEW in \in Seq(Octet), NEW k \in Nat, k < Len(in), Len(s) = k,
         \A i \in 1 .. k : s[i] = in[i]
  PROVE  /\ Append(s, in[k + 1]) \in Seq(Octet) /\ Len(Append(s, in[k + 1])) = k + 1
         /\ \A i \in 1 .. k + 1 : Append(s, in[k + 1])[i] = in[i]
<1> DEFINE c == in[k + 1]
           r == Append(s, c)
<1>1. Len(in) \in Nat /\ c \in Octet
  OBVIOUS
<1> HIDE DEF c
<1>2. r \in Seq(Octet) /\ Len(r) = k + 1 /\ (\A i \in 1 .. k : r[i] = s[i]) /\ r[k + 1] = c
  BY <1>1, AppendProperties
<1> HIDE DEF r
<1>3. ASSUME NEW i \in 1 .. k + 1 PROVE r[i] = in[i]
  <2>1. i \in 1 .. k \/ i = k + 1
    OBVIOUS
  <2>2. CASE i \in 1 .. k
    BY <1>2, <2>2
  <2>3. CASE i = k + 1
    BY <1>2, <2>3 DEF c
  <2> QED
    BY <2>1, <2>2, <2>3, Zenon
<1> QED
  BY <1>2, <1>3 DEF r, c

(* Unescaping what ppp_frame has written for k bytes gives these bytes, and both have computed *)
(* the same FCS. *)
Decodes(s, in, k, f) ==
  LET u == Unstuffed(s)
  IN  /\ s \in Seq(Octet) /\ NoFlag(s) /\ Len(s) >= k
      /\ ~u.esc /\ ~u.flag /\ u.fcs = f
      /\ u.out \in Seq(Octet) /\ Len(u.out) = k /\ \A i \in 1 .. k : u.out[i] = in[i]

LEMMA DecodesStep ==
  ASSUME NEW s, NEW in \in Seq(Octet), NEW k \in Nat, k < Len(in), NEW f,
         Decodes(s, in, k, f)
  PROVE  Decodes(s \o Escaped(in[k + 1]), in, k + 1, FcsWrite(f, in[k + 1]))
<1> DEFINE c == in[k + 1]
           u == Unstuffed(s)
           r == s \o Escaped(c)
           out == Append(u.out, c)
<1>1. c \in Octet
  OBVIOUS
<1>2. s \in Seq(Octet) /\ NoFlag(s) /\ Len(s) >= k /\ ~u.esc /\ ~u.flag /\ u.fcs = f
      /\ u.out \in Seq(Octet) /\ Len(u.out) = k /\ \A i \in 1 .. k : u.out[i] = in[i]
  BY DEF Decodes
<1>3. r \in Seq(Octet)
  BY <1>1, <1>2, EscapedType, ConcatProperties
<1>4. NoFlag(r) /\ Len(r) >= k + 1
  <2>1. NoFlag(r) /\ Len(r) >= Len(s) + 1 /\ Len(s) \in Nat /\ Len(r) \in Nat
    BY <1>1, <1>2, <1>3, NoFlagAppended, LenProperties
  <2> QED
    BY <1>2, <2>1
<1>5. Unstuffed(r) = [esc |-> FALSE, flag |-> FALSE, out |-> out, fcs |-> FcsWrite(f, c)]
  BY <1>1, <1>2, UnstuffedEscaped
<1>6. out \in Seq(Octet) /\ Len(out) = k + 1 /\ \A i \in 1 .. k + 1 : out[i] = in[i]
  BY <1>2, AppendedPrefix
<1> HIDE DEF c, u, r, out
<1>7. Decodes(r, in, k + 1, FcsWrite(f, c))
  BY <1>3, <1>4, <1>5, <1>6 DEF Decodes
<1> QED
  BY <1>7 DEF r, c

LEMMA FramedDecodes ==
  ASSUME NEW in \in Seq(Octet)
  PROVE  Decodes(Framed(in).out, in, Len(in), Framed(in).fcs)
<1> DEFINE N == Len(in)
           F(k) == FramedUpTo(in)[k]
           S == {k \in 0 .. N : Decodes(F(k).out, in, k, F(k).fcs)}
<1>1. N \in Nat
  OBVIOUS
<1>2. 0 \in S
  <2>1. F(0) = FrameInit
    BY FramedFacts
  <2>2. <<>> \in Seq(Octet) /\ Len(<<>>) = 0
    OBVIOUS
  <2>3. Decodes(<<>>, in, 0, FcsStart)
    <3> DEFINE e == <<>>
               u == Unstuffed(e)
    <3>1. u.esc = FALSE /\ u.flag = FALSE /\ u.out = e /\ u.fcs = FcsStart
      BY UnstuffedEmpty DEF UnstuffInit
    <3>2. e \in Seq(Octet) /\ Len(e) = 0
      BY <2>2
    <3> HIDE DEF e
    <3>3. NoFlag(e) /\ Len(u.out) = 0 /\ u.out \in Seq(Octet)
      BY <3>1, <3>2 DEF NoFlag
    <3> HIDE DEF u
    <3>4. \A i \in 1 .. 0 : u.out[i] = in[i]
      OBVIOUS
    <3>5. Decodes(e, in, 0, FcsStart)
      BY <3>1, <3>2, <3>3, <3>4 DEF Decodes, u
    <3> QED
      BY <3>5 DEF e
  <2> QED
    BY <1>1, <2>1, <2>3 DEF FrameInit
<1>3. ASSUME NEW n \in 0 .. (N - 1), n \in S PROVE n + 1 \in S
  <2>1. n \in Nat /\ n < N /\ n + 1 \in 1 .. N /\ n + 1 \in 0 .. N /\ (n + 1) - 1 = n
    BY <1>1
  <2>2. Decodes(F(n).out, in, n, F(n).fcs)
    BY <1>3
  <2>3. F(n + 1) = FrameByte(F(n), in[n + 1])
    BY <2>1, FramedFacts
  <2>4. F(n + 1).out = F(n).out \o Escaped(in[n + 1]) /\ F(n + 1).fcs = FcsWrite(F(n).fcs, in[n + 1])
    <3>1. \A st, c : FrameByte(st, c).out = st.out \o Escaped(c) /\ FrameByte(st, c).fcs = FcsWrite(st.fcs, c)
      BY DEF FrameByte
    <3> HIDE DEF F
    <3> QED
      BY <2>3, <3>1
  <2>5. Decodes(F(n + 1).out, in, n + 1, F(n + 1).fcs)
    BY <2>1, <2>2, <2>4, DecodesStep
  <2> QED
    BY <2>1, <2>5
<1> HIDE DEF S, N
<1>4. 0 .. N \subseteq S
  BY <1>1, <1>2, <1>3, BoundedInduction
<1>5. N \in S
  BY <1>1, <1>4
<1> QED
  BY <1>5 DEF S, N, Framed

-----------------------------------------------------------------------------
(* The whole frame                                                         *)

(* The whole frame: the payload, then its FCS, low byte first. *)
LEMMA StuffedDecodes ==
  ASSUME NEW in \in Seq(Octet)
  PROVE  /\ Stuffed(in) \in Seq(Octet) /\ NoFlag(Stuffed(in)) /\ Len(Stuffed(in)) >= Len(in) + 2
         /\ \E lo, hi \in Octet :
              Unstuffed(Stuffed(in)) =
                [esc |-> FALSE, flag |-> FALSE, out |-> Append(Append(in, lo), hi), fcs |-> GoodFcs]
<1> DEFINE s == Framed(in).out
           f == Framed(in).fcs
           lo == FcsResult(f) % 256
           hi == FcsResult(f) \div 256
           r == s \o Escaped(lo)
           t == r \o Escaped(hi)
           out == Append(in, lo)
<1>1. f \in Word
  BY ResultTypes DEF FrameState
<1>2. lo \in Octet /\ hi \in Octet /\ FcsWrite(FcsWrite(f, lo), hi) = GoodFcs
  BY <1>1, Residue
<1>3. Stuffed(in) = t
  BY DEF Stuffed
<1>4. s \in Seq(Octet) /\ NoFlag(s) /\ Len(s) >= Len(in) /\ ~Unstuffed(s).esc /\ ~Unstuffed(s).flag
      /\ Unstuffed(s).fcs = f /\ Unstuffed(s).out = in
  <2>1. Decodes(s, in, Len(in), f)
    BY FramedDecodes
  <2> HIDE DEF s, f
  <2>2. Unstuffed(s).out \in Seq(Octet) /\ Len(Unstuffed(s).out) = Len(in)
        /\ \A i \in 1 .. Len(in) : Unstuffed(s).out[i] = in[i]
    BY <2>1 DEF Decodes
  <2>3. Unstuffed(s).out = in
    BY <2>2, SeqEqual
  <2> QED
    BY <2>1, <2>3 DEF Decodes
<1> HIDE DEF s, f, lo, hi
<1>5. r \in Seq(Octet) /\ NoFlag(r) /\ Len(r) >= Len(in) + 1
  <2>1. r \in Seq(Octet) /\ NoFlag(r) /\ Len(r) >= Len(s) + 1
    BY <1>2, <1>4, EscapedType, ConcatProperties, NoFlagAppended
  <2>2. Len(s) \in Nat /\ Len(r) \in Nat /\ Len(in) \in Nat
    BY <1>4, <2>1, LenProperties
  <2> QED
    BY <1>4, <2>1, <2>2
<1>6. Unstuffed(r) = [esc |-> FALSE, flag |-> FALSE, out |-> out, fcs |-> FcsWrite(f, lo)]
  BY <1>2, <1>4, UnstuffedEscaped
<1> HIDE DEF r
<1>7. t \in Seq(Octet) /\ NoFlag(t) /\ Len(t) >= Len(in) + 2
  <2>1. t \in Seq(Octet) /\ NoFlag(t) /\ Len(t) >= Len(r) + 1
    BY <1>2, <1>5, EscapedType, ConcatProperties, NoFlagAppended
  <2>2. Len(t) \in Nat /\ Len(r) \in Nat /\ Len(in) \in Nat
    BY <1>5, <2>1, LenProperties
  <2> QED
    BY <1>5, <2>1, <2>2
<1>8. Unstuffed(t) = [esc |-> FALSE, flag |-> FALSE, out |-> Append(out, hi), fcs |-> GoodFcs]
  <2> HIDE DEF out
  <2>1. ~Unstuffed(r).esc /\ ~Unstuffed(r).flag /\ Unstuffed(r).out = out /\ Unstuffed(r).fcs = FcsWrite(f, lo)
    BY <1>6
  <2> QED
    BY <1>2, <1>5, <2>1, UnstuffedEscaped
<1> HIDE DEF t
<1> QED
  BY <1>2, <1>3, <1>7, <1>8

LEMMA DroppedFcs ==
  ASSUME NEW in \in Seq(Octet), NEW lo \in Octet, NEW hi \in Octet
  PROVE  /\ Len(Append(Append(in, lo), hi)) = Len(in) + 2
         /\ SubSeq(Append(Append(in, lo), hi), 1, Len(in)) = in
<1> DEFINE r == Append(in, lo)
           t == Append(r, hi)
           n == Len(in)
<1>1. n \in Nat /\ r \in Seq(Octet) /\ Len(r) = n + 1 /\ \A i \in 1 .. n : r[i] = in[i]
  BY AppendProperties, LenProperties
<1> HIDE DEF r
<1>2. t \in Seq(Octet) /\ Len(t) = n + 2 /\ \A i \in 1 .. n : t[i] = in[i]
  BY <1>1, AppendProperties
<1> HIDE DEF t
<1>3. SubSeq(t, 1, n) = in
  <2>1. SubSeq(t, 1, n) \in Seq(Octet) /\ Len(SubSeq(t, 1, n)) = n /\ \A i \in 1 .. n : SubSeq(t, 1, n)[i] = t[i]
    BY <1>1, <1>2
  <2> QED
    BY <1>2, <2>1, SeqEqual DEF n
<1> QED
  BY <1>2, <1>3 DEF t, r, n

(* Every payload but the empty one comes back: ppp_deframe accepts what     *)
(* ppp_frame has written between its FLAGs, whatever bytes had to be        *)
(* escaped, those of the FCS included, and returns the payload.             *)
THEOREM EveryPayloadComesBack ==
  ASSUME NEW in \in Seq(Octet), in # <<>>
  PROVE  ppp_deframe(Stuffed(in)) = [ok |-> TRUE, out |-> in]
<1> DEFINE s == Stuffed(in)
           st == Unstuffed(s)
<1>1. PICK lo, hi \in Octet :
        st = [esc |-> FALSE, flag |-> FALSE, out |-> Append(Append(in, lo), hi), fcs |-> GoodFcs]
  BY StuffedDecodes
<1>2. ~(Len(s) < 3)
  <2>1. s \in Seq(Octet) /\ Len(s) >= Len(in) + 2
    BY StuffedDecodes
  <2> HIDE DEF s
  <2>2. Len(s) \in Nat /\ Len(in) \in Nat /\ Len(in) # 0
    BY <2>1, LenProperties, EmptySeq
  <2> QED
    BY <2>1, <2>2
<1> DEFINE n == Len(st.out)
<1>3. ppp_deframe(s) = IF Len(s) < 3 \/ st.flag
                       THEN [ok |-> FALSE, out |-> <<>>]
                       ELSE [ok |-> ~st.esc /\ FcsResult(st.fcs) = 3911, out |-> SubSeq(st.out, 1, n - 2)]
  BY DEF ppp_deframe
<1>4. ~st.flag /\ ~st.esc /\ st.fcs = GoodFcs
  BY <1>1
<1>5. FcsResult(GoodFcs) = 3911
  BY DEF FcsResult, GoodFcs
<1>6. SubSeq(st.out, 1, n - 2) = in
  <2> DEFINE t == Append(Append(in, lo), hi)
  <2>1. st.out = t
    BY <1>1
  <2>2. Len(t) = Len(in) + 2 /\ SubSeq(t, 1, Len(in)) = in /\ Len(in) \in Nat
    BY DroppedFcs, LenProperties
  <2> HIDE DEF t, st
  <2>3. n - 2 = Len(in)
    BY <2>1, <2>2
  <2> QED
    BY <2>1, <2>2, <2>3
<1> DEFINE ok == ~st.esc /\ FcsResult(st.fcs) = 3911
<1>7. ok = TRUE
  BY <1>4, <1>5
<1>8. ppp_deframe(s) = [ok |-> ok, out |-> SubSeq(st.out, 1, n - 2)]
  <2> HIDE DEF ok, st, s, n
  <2> QED
    BY <1>2, <1>3, <1>4 DEF ok
<1> HIDE DEF s, st, n, ok
<1>9. ppp_deframe(s) = [ok |-> TRUE, out |-> in]
  BY <1>6, <1>7, <1>8
<1> QED
  BY <1>9 DEF s

-----------------------------------------------------------------------------
(* One byte of the frame replaced                                          *)

(* A loop over bytes none of which is FLAG never leaves early. *)
LEMMA NoFlagSeen ==
  ASSUME NEW s \in Seq(Octet), NoFlag(s)
  PROVE  \A k \in 0 .. Len(s) : ~UnstuffedUpTo(s)[k].flag
<1> DEFINE N == Len(s)
           S == {k \in 0 .. N : ~UnstuffedUpTo(s)[k].flag}
<1>1. N \in Nat
  OBVIOUS
<1>2. 0 \in S
  BY <1>1, UnstuffedFacts DEF UnstuffInit
<1>3. ASSUME NEW n \in 0 .. (N - 1), n \in S PROVE n + 1 \in S
  <2>1. n + 1 \in 1 .. N /\ n + 1 \in 0 .. N /\ (n + 1) - 1 = n /\ n \in 0 .. N
    BY <1>1
  <2> DEFINE u == UnstuffedUpTo(s)[n]
             c == s[n + 1]
  <2>2. u \in UnstuffState /\ ~u.flag /\ UnstuffedUpTo(s)[n + 1] = Unstuff(u, c)
    BY <1>3, <2>1, UnstuffedFacts
  <2>3. c \in Octet /\ c # PPP_FLAG_CHAR
    BY <2>1 DEF NoFlag
  <2> HIDE DEF u, c
  <2>4. ~Unstuff(u, c).flag
    <3>1. CASE c = PPP_ESC_CHAR
      BY <2>2, <2>3, <3>1, UnstuffByte DEF UnstuffState
    <3>2. CASE c # PPP_ESC_CHAR
      BY <2>2, <2>3, <3>2, UnstuffByte DEF Special
    <3> QED
      BY <3>1, <3>2
  <2> QED
    BY <2>1, <2>2, <2>4
<1> HIDE DEF S, N
<1>4. 0 .. N \subseteq S
  BY <1>1, <1>2, <1>3, BoundedInduction
<1> QED
  BY <1>4 DEF S, N

(* Two sequences that differ at most from n to m. *)
ApartWithin(s, t, n, m) ==
  /\ s \in Seq(Octet) /\ t \in Seq(Octet) /\ Len(t) = Len(s) /\ NoFlag(s)
  /\ n \in 1 .. Len(s) /\ m \in n .. Len(s)
  /\ \A i \in 1 .. Len(s) : i < n \/ m < i => t[i] = s[i]

LEMMA SameBefore ==
  ASSUME NEW s, NEW t, NEW n, NEW m, ApartWithin(s, t, n, m)
  PROVE  /\ UnstuffedUpTo(s)[n - 1] \in UnstuffState /\ ~UnstuffedUpTo(s)[n - 1].flag
         /\ UnstuffedUpTo(s)[n] = Unstuff(UnstuffedUpTo(s)[n - 1], s[n])
         /\ UnstuffedUpTo(t)[n] = Unstuff(UnstuffedUpTo(s)[n - 1], t[n])
         /\ s[n] \in Octet /\ t[n] \in Octet
<1>1. s \in Seq(Octet) /\ t \in Seq(Octet) /\ Len(t) = Len(s) /\ n \in 1 .. Len(s) /\ NoFlag(s)
      /\ m \in n .. Len(s) /\ \A i \in 1 .. Len(s) : i < n => t[i] = s[i]
  BY DEF ApartWithin
<1>2. Len(s) \in Nat
  BY <1>1
<1>3. n - 1 \in Nat /\ n - 1 <= Len(s) /\ n - 1 <= Len(t) /\ n - 1 \in 0 .. Len(s)
      /\ \A i \in 1 .. n - 1 : t[i] = s[i]
  BY <1>1, <1>2
<1>4. UnstuffedUpTo(t)[n - 1] = UnstuffedUpTo(s)[n - 1]
  BY <1>1, <1>3, UnstuffedPrefix
<1>5. UnstuffedUpTo(s)[n] = Unstuff(UnstuffedUpTo(s)[n - 1], s[n])
      /\ UnstuffedUpTo(t)[n] = Unstuff(UnstuffedUpTo(t)[n - 1], t[n])
      /\ UnstuffedUpTo(s)[n - 1] \in UnstuffState
  BY <1>1, <1>3, UnstuffedFacts
<1>6. ~UnstuffedUpTo(s)[n - 1].flag
  BY <1>1, <1>3, NoFlagSeen
<1>7. s[n] \in Octet /\ t[n] \in Octet
  BY <1>1
<1> QED
  BY <1>4, <1>5, <1>6, <1>7

LEMMA StepAfter ==
  ASSUME NEW s, NEW t, NEW n, NEW m, ApartWithin(s, t, n, m), NEW k \in m .. (Len(s) - 1)
  PROVE  /\ k + 1 \in m .. Len(s) /\ k \in m .. Len(s) /\ s[k + 1] \in Octet /\ s[k + 1] # PPP_FLAG_CHAR
         /\ UnstuffedUpTo(s)[k] \in UnstuffState /\ ~UnstuffedUpTo(s)[k].flag
         /\ UnstuffedUpTo(t)[k] \in UnstuffState
         /\ UnstuffedUpTo(s)[k + 1] = Unstuff(UnstuffedUpTo(s)[k], s[k + 1])
         /\ UnstuffedUpTo(t)[k + 1] = Unstuff(UnstuffedUpTo(t)[k], s[k + 1])
<1>1. s \in Seq(Octet) /\ t \in Seq(Octet) /\ Len(t) = Len(s) /\ n \in 1 .. Len(s) /\ NoFlag(s)
      /\ m \in n .. Len(s) /\ \A i \in 1 .. Len(s) : m < i => t[i] = s[i]
  BY DEF ApartWithin
<1>2. Len(s) \in Nat
  BY <1>1
<1>3. k + 1 \in m .. Len(s) /\ k \in m .. Len(s) /\ k \in 0 .. Len(s) /\ k + 1 \in 1 .. Len(s)
      /\ m < k + 1 /\ (k + 1) - 1 = k
  BY <1>1, <1>2
<1>4. s[k + 1] \in Octet /\ s[k + 1] # PPP_FLAG_CHAR /\ t[k + 1] = s[k + 1]
  BY <1>1, <1>3 DEF NoFlag
<1>5. UnstuffedUpTo(s)[k + 1] = Unstuff(UnstuffedUpTo(s)[k], s[k + 1])
      /\ UnstuffedUpTo(t)[k + 1] = Unstuff(UnstuffedUpTo(t)[k], t[k + 1])
      /\ UnstuffedUpTo(s)[k] \in UnstuffState /\ UnstuffedUpTo(t)[k] \in UnstuffState
  BY <1>1, <1>3, UnstuffedFacts
<1>6. ~UnstuffedUpTo(s)[k].flag
  BY <1>1, <1>3, NoFlagSeen
<1> QED
  BY <1>3, <1>4, <1>5, <1>6

-----------------------------------------------------------------------------
(* What the replaced byte leads to                                         *)

LEMMA InductionFrom ==
  ASSUME NEW Good, NEW N \in Nat, NEW n \in 1 .. N, n \in Good,
         \A k \in n .. (N - 1) : k \in Good => k + 1 \in Good
  PROVE  N \in Good
<1> DEFINE S == {k \in 0 .. N : k >= n => k \in Good}
<1>1. 0 \in S
  OBVIOUS
<1>2. ASSUME NEW k \in 0 .. (N - 1), k \in S PROVE k + 1 \in S
  <2>1. CASE k + 1 < n
    BY <2>1
  <2>2. CASE k + 1 = n
    BY <2>2
  <2>3. CASE k + 1 > n
    BY <1>2, <2>3
  <2> QED
    BY <2>1, <2>2, <2>3
<1> HIDE DEF S
<1>3. 0 .. N \subseteq S
  BY <1>1, <1>2, BoundedInduction
<1> QED
  BY <1>3 DEF S

(* An ordinary byte in the place of another ordinary byte: from there on the two loops have *)
(* different FCSs. *)
Diverged(u, v) == u.esc = v.esc /\ u.fcs # v.fcs /\ ~u.flag /\ ~v.flag

LEMMA DivergesAt ==
  ASSUME NEW w \in UnstuffState, ~w.flag, NEW a \in Octet, NEW b \in Octet, a # b,
         ~Special(a), ~Special(b)
  PROVE  Diverged(Unstuff(w, a), Unstuff(w, b))
<1> DEFINE d(c) == IF w.esc THEN Xor(c, PPP_MASK_CHAR) ELSE c
           p == d(a)
           q == d(b)
<1>1. p \in Octet /\ q \in Octet
      /\ Unstuff(w, a) = [esc |-> FALSE, flag |-> FALSE, out |-> Append(w.out, p), fcs |-> FcsWrite(w.fcs, p)]
      /\ Unstuff(w, b) = [esc |-> FALSE, flag |-> FALSE, out |-> Append(w.out, q), fcs |-> FcsWrite(w.fcs, q)]
  BY UnstuffByte
<1>2. p # q
  <2>1. a \in Word /\ b \in Word /\ PPP_MASK_CHAR \in Word
    BY ByteWord, ByteConstants
  <2>2. Xor(a, PPP_MASK_CHAR) # Xor(b, PPP_MASK_CHAR)
    BY <2>1, XorCancel, XorComm
  <2> QED
    BY <2>2
<1> HIDE DEF p, q
<1>3. w.fcs \in Word
  BY DEF UnstuffState
<1>4. FcsWrite(w.fcs, p) # FcsWrite(w.fcs, q)
  BY <1>1, <1>2, <1>3, FcsWriteSeparatesBytes
<1> QED
  BY <1>1, <1>4 DEF Diverged

LEMMA StaysDiverged ==
  ASSUME NEW u \in UnstuffState, NEW v \in UnstuffState, Diverged(u, v),
         NEW c \in Octet, c # PPP_FLAG_CHAR
  PROVE  Diverged(Unstuff(u, c), Unstuff(v, c))
<1>1. u.esc \in BOOLEAN /\ v.esc \in BOOLEAN /\ u.fcs \in Word /\ v.fcs \in Word
      /\ u.esc = v.esc /\ u.fcs # v.fcs /\ ~u.flag /\ ~v.flag
  BY DEF UnstuffState, Diverged
<1>2. CASE c = PPP_ESC_CHAR
  <2>1. Unstuff(u, c) = [u EXCEPT !.esc = TRUE] /\ Unstuff(v, c) = [v EXCEPT !.esc = TRUE]
    BY <1>1, <1>2, UnstuffByte
  <2> QED
    BY <1>1, <2>1 DEF Diverged, UnstuffState
<1>3. CASE c # PPP_ESC_CHAR
  <2>1. ~Special(c)
    BY <1>3 DEF Special
  <2> DEFINE d == IF u.esc THEN Xor(c, PPP_MASK_CHAR) ELSE c
  <2>2. d \in Octet
        /\ Unstuff(u, c) = [esc |-> FALSE, flag |-> FALSE, out |-> Append(u.out, d), fcs |-> FcsWrite(u.fcs, d)]
    BY <1>1, <2>1, UnstuffByte
  <2>3. Unstuff(v, c) = [esc |-> FALSE, flag |-> FALSE, out |-> Append(v.out, d), fcs |-> FcsWrite(v.fcs, d)]
    BY <1>1, <2>1, UnstuffByte
  <2> HIDE DEF d
  <2>4. FcsWrite(u.fcs, d) # FcsWrite(v.fcs, d)
    BY <1>1, <2>2, FcsWriteSeparatesStates
  <2> QED
    BY <2>2, <2>3, <2>4 DEF Diverged
<1> QED
  BY <1>2, <1>3

LEMMA EndsDiverged ==
  ASSUME NEW s, NEW t, NEW n, NEW m, ApartWithin(s, t, n, m),
         Diverged(UnstuffedUpTo(s)[m], UnstuffedUpTo(t)[m])
  PROVE  Diverged(Unstuffed(s), Unstuffed(t))
<1> DEFINE N == Len(s)
           Good == {k \in m .. N : Diverged(UnstuffedUpTo(s)[k], UnstuffedUpTo(t)[k])}
<1>1. N \in Nat /\ m \in 1 .. N /\ Len(t) = N
  BY LenProperties DEF ApartWithin
<1>2. m \in Good
  BY <1>1
<1>3. ASSUME NEW k \in m .. (N - 1), k \in Good PROVE k + 1 \in Good
  <2>1. Diverged(UnstuffedUpTo(s)[k + 1], UnstuffedUpTo(t)[k + 1])
    BY <1>3, StepAfter, StaysDiverged
  <2>2. k + 1 \in m .. N
    BY StepAfter
  <2> QED
    BY <2>1, <2>2
<1> HIDE DEF Good, N
<1>4. N \in Good
  BY <1>1, <1>2, <1>3, InductionFrom
<1> QED
  BY <1>1, <1>4 DEF Good, N, Unstuffed

(* Whatever one byte is replaced by, at most one byte less is decoded, or a FLAG was seen. *)
NotShorter(u, v) == v.flag \/ Len(v.out) + 1 >= Len(u.out)

LEMMA Lengths ==
  ASSUME NEW w \in UnstuffState, NEW c \in Octet
  PROVE  /\ Len(w.out) \in Nat /\ Len(Unstuff(w, c).out) \in Nat
         /\ Len(Unstuff(w, c).out) \in {Len(w.out), Len(w.out) + 1}
         /\ ~w.flag /\ ~Special(c) => Len(Unstuff(w, c).out) = Len(w.out) + 1
         /\ Special(c) => Len(Unstuff(w, c).out) = Len(w.out)
         /\ w.flag => Unstuff(w, c).flag
<1> DEFINE x == Unstuff(w, c)
<1>1. w.flag \in BOOLEAN /\ w.esc \in BOOLEAN /\ w.out \in Seq(Octet) /\ Len(w.out) \in Nat
  BY LenProperties DEF UnstuffState
<1>2. CASE w.flag
  <2>1. x = w
    BY <1>2, UnstuffByte
  <2> QED
    BY <1>1, <1>2, <2>1
<1>3. CASE ~w.flag /\ Special(c)
  <2>1. x = [w EXCEPT !.esc = TRUE] \/ x = [w EXCEPT !.flag = TRUE]
    BY <1>3, UnstuffByte DEF Special
  <2>2. x.out = w.out
    BY <2>1 DEF UnstuffState
  <2> QED
    BY <1>1, <1>3, <2>2
<1>4. CASE ~w.flag /\ ~Special(c)
  <2> DEFINE d == IF w.esc THEN Xor(c, PPP_MASK_CHAR) ELSE c
  <2>1. d \in Octet /\ x = [esc |-> FALSE, flag |-> FALSE, out |-> Append(w.out, d), fcs |-> FcsWrite(w.fcs, d)]
    BY <1>4, UnstuffByte
  <2> HIDE DEF d, x
  <2>2. x.out = Append(w.out, d)
    BY <2>1
  <2>3. Len(x.out) = Len(w.out) + 1
    BY <1>1, <2>1, <2>2, AppendProperties
  <2> QED
    BY <1>1, <1>4, <2>3 DEF x
<1> QED
  BY <1>1, <1>2, <1>3, <1>4

LEMMA StaysNotShorter ==
  ASSUME NEW u \in UnstuffState, NEW v \in UnstuffState, ~u.flag, NotShorter(u, v),
         NEW c \in Octet, c # PPP_FLAG_CHAR
  PROVE  NotShorter(Unstuff(u, c), Unstuff(v, c))
<1>1. CASE v.flag
  BY <1>1, Lengths DEF NotShorter
<1>2. CASE ~v.flag /\ Special(c)
  BY <1>2, Lengths DEF NotShorter
<1>3. CASE ~v.flag /\ ~Special(c)
  BY <1>3, Lengths DEF NotShorter
<1> QED
  BY <1>1, <1>2, <1>3

LEMMA EndsNotShorter ==
  ASSUME NEW s, NEW t, NEW n, ApartWithin(s, t, n, n)
  PROVE  NotShorter(Unstuffed(s), Unstuffed(t))
<1> DEFINE N == Len(s)
           Good == {k \in n .. N : NotShorter(UnstuffedUpTo(s)[k], UnstuffedUpTo(t)[k])}
<1>1. N \in Nat /\ n \in 1 .. N /\ Len(t) = N
  BY LenProperties DEF ApartWithin
<1>2. n \in Good
  <2> DEFINE w == UnstuffedUpTo(s)[n - 1]
  <2>1. /\ w \in UnstuffState /\ s[n] \in Octet /\ t[n] \in Octet
        /\ UnstuffedUpTo(s)[n] = Unstuff(w, s[n]) /\ UnstuffedUpTo(t)[n] = Unstuff(w, t[n])
    BY SameBefore
  <2> HIDE DEF w
  <2>2. NotShorter(Unstuff(w, s[n]), Unstuff(w, t[n]))
    BY <2>1, Lengths DEF NotShorter
  <2> QED
    BY <1>1, <2>1, <2>2
<1>3. ASSUME NEW k \in n .. (N - 1), k \in Good PROVE k + 1 \in Good
  <2>1. NotShorter(UnstuffedUpTo(s)[k + 1], UnstuffedUpTo(t)[k + 1])
    BY <1>3, StepAfter, StaysNotShorter
  <2>2. k + 1 \in n .. N
    BY StepAfter
  <2> QED
    BY <2>1, <2>2
<1> HIDE DEF Good, N
<1>4. N \in Good
  BY <1>1, <1>2, <1>3, InductionFrom
<1> QED
  BY <1>1, <1>4 DEF Good, N, Unstuffed

-----------------------------------------------------------------------------
(* The theorems                                                            *)

LEMMA EmptyStuffed == Len(Stuffed(<<>>)) = 2
<1> DEFINE e == <<>>
           lo == FcsResult(FcsStart) % 256
           hi == FcsResult(FcsStart) \div 256
           u == <<lo>>
           v == <<hi>>
<1>1. e \in Seq(Octet) /\ Len(e) = 0
  OBVIOUS
<1>2. lo = 0 /\ hi = 0
  BY DEF FcsResult, FcsStart
<1>3. 0 \in Octet /\ ~Special(0)
  BY DEF Octet, Special, PPP_ESC_CHAR, PPP_FLAG_CHAR
<1>4. Escaped(lo) = u /\ Escaped(hi) = v
  BY <1>2, <1>3, EscapedForm
<1>5. Framed(e).out = e /\ Framed(e).fcs = FcsStart
  <2>1. Framed(e) = FrameInit
    BY <1>1, FramedFacts DEF Framed
  <2> QED
    BY <2>1 DEF FrameInit
<1>6. Stuffed(e) = (e \o u) \o v
  <2>1. Stuffed(e) = (Framed(e).out \o Escaped(FcsResult(Framed(e).fcs) % 256))
                       \o Escaped(FcsResult(Framed(e).fcs) \div 256)
    BY DEF Stuffed
  <2> HIDE DEF e, u, v
  <2> QED
    BY <1>4, <1>5, <2>1
<1>7. u \in Seq(Octet) /\ v \in Seq(Octet) /\ Len(u) = 1 /\ Len(v) = 1
  BY <1>2, <1>3
<1> HIDE DEF e, u, v
<1>8. e \o u \in Seq(Octet) /\ Len(e \o u) = 1
  BY <1>1, <1>7, ConcatProperties
<1>9. Len((e \o u) \o v) = 2
  BY <1>7, <1>8, ConcatProperties
<1> QED
  BY <1>6, <1>9 DEF e

(* The frame of a payload and the same frame with one byte replaced. *)
LEMMA ReplacedByte ==
  ASSUME NEW in \in Seq(Octet), NEW n \in 1 .. Len(Stuffed(in)), NEW c \in Octet
  PROVE  LET t == [Stuffed(in) EXCEPT ![n] = c]
         IN  ApartWithin(Stuffed(in), t, n, n) /\ t[n] = c
<1> DEFINE s == Stuffed(in)
           t == [s EXCEPT ![n] = c]
<1>1. s \in Seq(Octet) /\ NoFlag(s) /\ n \in 1 .. Len(s)
  BY StuffedDecodes
<1> HIDE DEF s
<1>2. t \in Seq(Octet) /\ Len(t) = Len(s) /\ t[n] = c /\ \A i \in 1 .. Len(s) : i # n => t[i] = s[i]
  BY <1>1
<1> QED
  BY <1>1, <1>2 DEF ApartWithin, s

(* Only one FCS is accepted, and the frame of the payload ends with it. *)
LEMMA DivergedRejected ==
  ASSUME NEW in \in Seq(Octet), NEW t, NEW n, NEW m, ApartWithin(Stuffed(in), t, n, m),
         Diverged(UnstuffedUpTo(Stuffed(in))[m], UnstuffedUpTo(t)[m])
  PROVE  ~ppp_deframe(t).ok
<1> DEFINE s == Stuffed(in)
           v == Unstuffed(t)
<1>1. Unstuffed(s).fcs = GoodFcs
  BY StuffedDecodes
<1>2. Diverged(Unstuffed(s), v)
  BY EndsDiverged
<1> HIDE DEF s
<1>3. v.fcs # GoodFcs
  BY <1>1, <1>2 DEF Diverged
<1>4. v.fcs \in Word
  BY ResultTypes DEF ApartWithin, UnstuffState
<1> HIDE DEF v
<1>5. FcsResult(v.fcs) # 3911
  BY <1>3, <1>4 DEF FcsResult, GoodFcs, Word
<1>6. ppp_deframe(t) =
        IF Len(t) < 3 \/ v.flag
        THEN [ok |-> FALSE, out |-> <<>>]
        ELSE [ok |-> ~v.esc /\ FcsResult(v.fcs) = 3911, out |-> SubSeq(v.out, 1, Len(v.out) - 2)]
  BY DEF ppp_deframe, v
<1>7. CASE Len(t) < 3 \/ v.flag
  BY <1>6, <1>7
<1>8. CASE ~(Len(t) < 3 \/ v.flag)
  <2> DEFINE ok == ~v.esc /\ FcsResult(v.fcs) = 3911
  <2>1. ok = FALSE
    BY <1>5
  <2>2. ppp_deframe(t) = [ok |-> ok, out |-> SubSeq(v.out, 1, Len(v.out) - 2)]
    <3> HIDE DEF ok
    <3> QED
      BY <1>6, <1>8 DEF ok
  <2> HIDE DEF ok
  <2> QED
    BY <2>1, <2>2
<1> QED
  BY <1>7, <1>8

(* ppp_deframe rejects every frame in which one byte arrived as another,    *)
(* when neither is ESC or FLAG: the byte is decoded to another one, so the  *)
(* FCS is wrong from there on to the end.                                   *)
THEOREM WrongByteRejected ==
  ASSUME NEW in \in Seq(Octet), NEW n \in 1 .. Len(Stuffed(in)), NEW c \in Octet,
         c # Stuffed(in)[n], ~Special(Stuffed(in)[n]), ~Special(c)
  PROVE  ~ppp_deframe([Stuffed(in) EXCEPT ![n] = c]).ok
<1> DEFINE s == Stuffed(in)
           t == [s EXCEPT ![n] = c]
           w == UnstuffedUpTo(s)[n - 1]
<1>1. ApartWithin(s, t, n, n) /\ t[n] = c
  BY ReplacedByte
<1>2. s[n] # c /\ ~Special(s[n]) /\ ~Special(c)
  OBVIOUS
<1> HIDE DEF s, t
<1>3. /\ w \in UnstuffState /\ ~w.flag /\ s[n] \in Octet
      /\ UnstuffedUpTo(s)[n] = Unstuff(w, s[n]) /\ UnstuffedUpTo(t)[n] = Unstuff(w, c)
  BY <1>1, SameBefore
<1> HIDE DEF w
<1>4. Diverged(UnstuffedUpTo(s)[n], UnstuffedUpTo(t)[n])
  BY <1>2, <1>3, DivergesAt
<1>5. ~ppp_deframe(t).ok
  BY <1>1, <1>4, DivergedRejected DEF s
<1> QED
  BY <1>5 DEF s, t

(* Two ordinary bytes in the place of two others: the second does not undo what the first did. *)
LEMMA PairDiverges ==
  ASSUME NEW w \in UnstuffState, ~w.flag,
         NEW a \in Octet, NEW b \in Octet, NEW c \in Octet, NEW d \in Octet, a # c \/ b # d,
         ~Special(a), ~Special(b), ~Special(c), ~Special(d)
  PROVE  Diverged(Unstuff(Unstuff(w, a), b), Unstuff(Unstuff(w, c), d))
<1> DEFINE f(x) == IF w.esc THEN Xor(x, PPP_MASK_CHAR) ELSE x
           p == f(a)
           q == f(c)
           u == Unstuff(w, a)
           v == Unstuff(w, c)
<1>1. /\ p \in Octet /\ q \in Octet
      /\ u \in UnstuffState /\ v \in UnstuffState
      /\ u = [esc |-> FALSE, flag |-> FALSE, out |-> Append(w.out, p), fcs |-> FcsWrite(w.fcs, p)]
      /\ v = [esc |-> FALSE, flag |-> FALSE, out |-> Append(w.out, q), fcs |-> FcsWrite(w.fcs, q)]
  BY UnstuffByte
<1>2. p = q => a = c
  <2>1. a \in Word /\ c \in Word /\ PPP_MASK_CHAR \in Word
    BY ByteWord, ByteConstants
  <2>2. Xor(a, PPP_MASK_CHAR) = Xor(c, PPP_MASK_CHAR) => a = c
    BY <2>1, XorCancel, XorComm
  <2> QED
    BY <2>2
<1> HIDE DEF p, q, u, v
<1>3. ~u.esc /\ ~u.flag /\ ~v.esc /\ ~v.flag /\ u.fcs = FcsWrite(w.fcs, p) /\ v.fcs = FcsWrite(w.fcs, q)
  BY <1>1
<1>4. /\ Unstuff(u, b) = [esc |-> FALSE, flag |-> FALSE, out |-> Append(u.out, b), fcs |-> FcsWrite(u.fcs, b)]
      /\ Unstuff(v, d) = [esc |-> FALSE, flag |-> FALSE, out |-> Append(v.out, d), fcs |-> FcsWrite(v.fcs, d)]
  BY <1>1, <1>3, UnstuffByte
<1>5. w.fcs \in Word
  BY DEF UnstuffState
<1>6. FcsWrite(u.fcs, b) # FcsWrite(v.fcs, d)
  BY <1>1, <1>2, <1>3, <1>5, FcsWriteSeparatesPairs
<1>7. Diverged(Unstuff(u, b), Unstuff(v, d))
  BY <1>4, <1>6 DEF Diverged
<1> QED
  BY <1>7 DEF u, v

(* ppp_deframe rejects every frame in which two neighbouring bytes arrived  *)
(* as two others (a burst of at most 16 bits), when none of the four is ESC *)
(* or FLAG: no second error makes the FCS right again.                      *)
THEOREM WrongPairRejected ==
  ASSUME NEW in \in Seq(Octet), NEW n \in 1 .. Len(Stuffed(in)) - 1,
         NEW t \in Seq(Octet), Len(t) = Len(Stuffed(in)), t # Stuffed(in),
         \A i \in 1 .. Len(t) : i \notin {n, n + 1} => t[i] = Stuffed(in)[i],
         \A i \in {n, n + 1} : ~Special(t[i]) /\ ~Special(Stuffed(in)[i])
  PROVE  ~ppp_deframe(t).ok
<1> DEFINE s == Stuffed(in)
           w == UnstuffedUpTo(s)[n - 1]
<1>1. s \in Seq(Octet) /\ NoFlag(s) /\ Len(s) \in Nat /\ n \in 1 .. Len(s) - 1
  BY StuffedDecodes, LenProperties
<1>2. /\ Len(t) = Len(s) /\ t # s
      /\ \A i \in 1 .. Len(t) : i \notin {n, n + 1} => t[i] = s[i]
      /\ ~Special(s[n]) /\ ~Special(s[n + 1]) /\ ~Special(t[n]) /\ ~Special(t[n + 1])
  OBVIOUS
<1> HIDE DEF s
<1>3. n \in 1 .. Len(s) /\ n + 1 \in n .. Len(s) /\ n + 1 \in 1 .. Len(s) /\ (n + 1) - 1 = n
      /\ s[n] \in Octet /\ s[n + 1] \in Octet /\ t[n] \in Octet /\ t[n + 1] \in Octet
  BY <1>1, <1>2
<1>4. t[n] # s[n] \/ t[n + 1] # s[n + 1]
  <2>1. PICK i \in 1 .. Len(s) : t[i] # s[i]
    BY <1>1, <1>2, SeqEqual
  <2> QED
    BY <1>2, <2>1
<1>5. ApartWithin(s, t, n, n + 1)
  BY <1>1, <1>2, <1>3 DEF ApartWithin
<1>6. /\ w \in UnstuffState /\ ~w.flag
      /\ UnstuffedUpTo(s)[n] = Unstuff(w, s[n]) /\ UnstuffedUpTo(t)[n] = Unstuff(w, t[n])
  BY <1>5, SameBefore
<1>7. /\ UnstuffedUpTo(s)[n + 1] = Unstuff(UnstuffedUpTo(s)[n], s[n + 1])
      /\ UnstuffedUpTo(t)[n + 1] = Unstuff(UnstuffedUpTo(t)[n], t[n + 1])
  BY <1>1, <1>2, <1>3, UnstuffedFacts
<1> HIDE DEF w
<1>8. Diverged(UnstuffedUpTo(s)[n + 1], UnstuffedUpTo(t)[n + 1])
  BY <1>2, <1>3, <1>4, <1>6, <1>7, PairDiverges
<1> QED
  BY <1>5, <1>8, DivergedRejected DEF s

(* Whatever one byte of a frame is replaced by, ppp_deframe has decoded two *)
(* bytes or more when it comes to the two pop_back() that remove the FCS,   *)
(* unless it has returned before (too short, a FLAG).                       *)
THEOREM TwoBytesLeft ==
  ASSUME NEW in \in Seq(Octet), NEW n \in 1 .. Len(Stuffed(in)), NEW c \in Octet
  PROVE  LET t == [Stuffed(in) EXCEPT ![n] = c]
         IN  Len(t) < 3 \/ Unstuffed(t).flag \/ Len(Unstuffed(t).out) >= 2
<1> DEFINE s == Stuffed(in)
           t == [s EXCEPT ![n] = c]
           u == Unstuffed(s)
           v == Unstuffed(t)
<1>1. ApartWithin(s, t, n, n)
  BY ReplacedByte
<1>2. Len(u.out) = Len(in) + 2
  <2>1. PICK lo, hi \in Octet :
          u = [esc |-> FALSE, flag |-> FALSE, out |-> Append(Append(in, lo), hi), fcs |-> GoodFcs]
    BY StuffedDecodes
  <2>2. u.out = Append(Append(in, lo), hi)
    BY <2>1
  <2> HIDE DEF u
  <2> QED
    BY <2>2, DroppedFcs
<1>3. in = <<>> => Len(s) = 2
  BY EmptyStuffed
<1> HIDE DEF s, t
<1>4. NotShorter(u, v)
  BY <1>1, EndsNotShorter
<1>5. Len(t) = Len(s) /\ t \in Seq(Octet)
  BY <1>1 DEF ApartWithin
<1>6. Len(v.out) \in Nat
  BY <1>5, ResultTypes, LenProperties DEF UnstuffState
<1>7. Len(in) \in Nat /\ (in # <<>> => Len(in) # 0)
  BY LenProperties, EmptySeq
<1> HIDE DEF u, v
<1>8. v.flag \/ Len(v.out) + 1 >= Len(in) + 2
  BY <1>2, <1>4 DEF NotShorter
<1>9. CASE in = <<>>
  BY <1>3, <1>5, <1>9 DEF t, s
<1>10. CASE in # <<>>
  <2>1. v.flag \/ Len(v.out) >= 2
    BY <1>6, <1>7, <1>8, <1>10
  <2> QED
    BY <2>1 DEF v, t, s
<1> QED
  BY <1>9, <1>10

LEMMA InvertedBit ==
  ASSUME NEW b \in Octet, NEW bit \in {1, 2, 4, 8, 16, 32, 64, 128}
  PROVE  Xor(b, bit) \in Octet /\ Xor(b, bit) # b
<1>1. bit \in Octet /\ bit # 0
  BY DEF Octet
<1>2. b \in Word /\ bit \in Word /\ 0 \in Word
  BY <1>1, ByteWord, ZeroWord
<1>3. Xor(b, 0) = b
  BY <1>2, XorZero
<1>4. Xor(b, bit) # b
  BY <1>1, <1>2, <1>3, XorCancel
<1> QED
  BY <1>1, <1>4, XorByte

DataType == data \in Seq(Octet)

(* The payload is a sequence of bytes: what the other theorems need.        *)
THEOREM DataIsBytes == DataSpec => []DataType
<1>1. DataInit => DataType
  BY DEF DataInit, DataType
<1>2. DataType /\ [Extend]_data => DataType'
  <2> SUFFICES ASSUME DataType, [Extend]_data PROVE DataType'
    OBVIOUS
  <2>1. ASSUME NEW b \in IF data = <<>> THEN First ELSE Alphabet PROVE b \in Octet
    BY AlphabetAssumption DEF Octet
  <2>2. CASE Extend
    <3>1. PICK b \in Octet : data' = Append(data, b)
      BY <2>1, <2>2 DEF Extend
    <3> QED
      BY <3>1, AppendProperties DEF DataType
  <2>3. CASE UNCHANGED data
    BY <2>3 DEF DataType
  <2> QED
    BY <2>2, <2>3
<1> QED
  BY <1>1, <1>2, PTL DEF DataSpec

(* The FCS of ppp_frame is the CRC of the standard for every payload the    *)
(* specification builds, from any alphabet and of any length.               *)
THEOREM TableIsCrc == DataSpec => []FcsIsCrc
<1>1. DataType => FcsIsCrc
  BY FcsOfEveryPayload DEF DataType, FcsIsCrc
<1> QED
  BY <1>1, DataIsBytes, PTL

(* The bytes between the FLAGs hold no FLAG, and ppp_deframe undoes         *)
(* ppp_frame, for every payload, from any alphabet and of any length.       *)
THEOREM RoundTripAlways == DataSpec => []RoundTrip
<1>1. DataType => RoundTrip
  BY StuffedDecodes, EveryPayloadComesBack DEF DataType, RoundTrip, NoFlag
<1> QED
  BY <1>1, DataIsBytes, PTL

(* No frame with one inverted bit is accepted, unless an escape character   *)
(* or a FLAG came or went, and the pop_back() of ppp_deframe are safe.      *)
THEOREM BitErrorsDetected == DataSpec => []BitErrorDetected
<1>1. DataType => BitErrorDetected
  <2> SUFFICES ASSUME DataType,
                      NEW n \in 1 .. Len(Stuffed(data)), NEW bit \in {1, 2, 4, 8, 16, 32, 64, 128}
               PROVE  LET bs == Stuffed(data)
                          c  == Xor(bs[n], bit)
                          in == [bs EXCEPT ![n] = c]
                          st == Unstuffed(in)
                      IN  /\ Special(bs[n]) \/ Special(c) \/ ~ppp_deframe(in).ok
                          /\ Len(in) < 3 \/ st.flag \/ Len(st.out) >= 2
    BY DEF BitErrorDetected
  <2> DEFINE b == Stuffed(data)[n]
             c == Xor(b, bit)
  <2>1. data \in Seq(Octet)
    BY DEF DataType
  <2>2. b \in Octet
    BY <2>1, StuffedDecodes
  <2> HIDE DEF b
  <2>3. c \in Octet /\ c # b
    BY <2>2, InvertedBit
  <2> HIDE DEF c
  <2>4. Special(b) \/ Special(c) \/ ~ppp_deframe([Stuffed(data) EXCEPT ![n] = c]).ok
    BY <2>1, <2>3, WrongByteRejected DEF b
  <2>5. \/ Len([Stuffed(data) EXCEPT ![n] = c]) < 3
        \/ Unstuffed([Stuffed(data) EXCEPT ![n] = c]).flag
        \/ Len(Unstuffed([Stuffed(data) EXCEPT ![n] = c]).out) >= 2
    BY <2>1, <2>3, TwoBytesLeft
  <2> QED
    BY <2>4, <2>5 DEF b, c
<1> QED
  BY <1>1, DataIsBytes, PTL
=============================================================================
