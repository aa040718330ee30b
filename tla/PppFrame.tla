------------------------------ MODULE PppFrame ------------------------------
(***************************************************************************)
(* The frame format (common/ppp_frame.cpp): byte stuffing, the 16-bit      *)
(* frame check sequence by table, ppp_frame and ppp_deframe as functions   *)
(* on sequences of bytes.                                                  *)
(***************************************************************************)
EXTENDS Naturals, Sequences

CONSTANTS
  First,    \* the bytes data may start with
  Alphabet, \* the bytes it may go on with
  MaxLen    \* bound: bytes of data

VARIABLE data \* the payload of a frame

PPP_MASK_CHAR == 32
PPP_ESC_CHAR == 125
PPP_FLAG_CHAR == 126

ASSUME AlphabetAssumption ==
  First \subseteq 0 .. 255 /\ Alphabet \subseteq 0 .. 255 /\ MaxLen \in Nat

(* C's ^ on words of 16 bits. *)
Bit(n, w) == (n \div w) % 2
Differ(a, b, w) == (Bit(a, w) + Bit(b, w)) % 2
Xor(a, b) ==
  LET x(w) == Differ(a, b, w)
  IN  x(1) + 2 * x(2) + 4 * x(4) + 8 * x(8) + 16 * x(16) + 32 * x(32) + 64 * x(64)
        + 128 * x(128) + 256 * x(256) + 512 * x(512) + 1024 * x(1024) + 2048 * x(2048)
        + 4096 * x(4096) + 8192 * x(8192) + 16384 * x(16384) + 32768 * x(32768)

fcsTable == <<
    0, 4489, 8978, 12955, 17956, 22445, 25910, 29887, 35912, 40385, 44890, 48851,
    51820, 56293, 59774, 63735, 4225, 264, 13203, 8730, 22181, 18220, 30135, 25662,
    40137, 36160, 49115, 44626, 56045, 52068, 63999, 59510, 8450, 12427, 528, 5017,
    26406, 30383, 17460, 21949, 44362, 48323, 36440, 40913, 60270, 64231, 51324, 55797,
    12675, 8202, 4753, 792, 30631, 26158, 21685, 17724, 48587, 44098, 40665, 36688,
    64495, 60006, 55549, 51572, 16900, 21389, 24854, 28831, 1056, 5545, 10034, 14011,
    52812, 57285, 60766, 64727, 34920, 39393, 43898, 47859, 21125, 17164, 29079, 24606,
    5281, 1320, 14259, 9786, 57037, 53060, 64991, 60502, 39145, 35168, 48123, 43634,
    25350, 29327, 16404, 20893, 9506, 13483, 1584, 6073, 61262, 65223, 52316, 56789,
    43370, 47331, 35448, 39921, 29575, 25102, 20629, 16668, 13731, 9258, 5809, 1848,
    65487, 60998, 56541, 52564, 47595, 43106, 39673, 35696, 33800, 38273, 42778, 46739,
    49708, 54181, 57662, 61623, 2112, 6601, 11090, 15067, 20068, 24557, 28022, 31999,
    38025, 34048, 47003, 42514, 53933, 49956, 61887, 57398, 6337, 2376, 15315, 10842,
    24293, 20332, 32247, 27774, 42250, 46211, 34328, 38801, 58158, 62119, 49212, 53685,
    10562, 14539, 2640, 7129, 28518, 32495, 19572, 24061, 46475, 41986, 38553, 34576,
    62383, 57894, 53437, 49460, 14787, 10314, 6865, 2904, 32743, 28270, 23797, 19836,
    50700, 55173, 58654, 62615, 32808, 37281, 41786, 45747, 19012, 23501, 26966, 30943,
    3168, 7657, 12146, 16123, 54925, 50948, 62879, 58390, 37033, 33056, 46011, 41522,
    23237, 19276, 31191, 26718, 7393, 3432, 16371, 11898, 59150, 63111, 50204, 54677,
    41258, 45219, 33336, 37809, 27462, 31439, 18516, 23005, 11618, 15595, 3696, 8185,
    63375, 58886, 54429, 50452, 45483, 40994, 37561, 33584, 31687, 27214, 22741, 18780,
    15843, 11370, 7921, 3960>>

(* Mutant of FcsWrite: the table is indexed with the byte alone. *)
FcsWriteNoFeedback(fcs, b) == Xor(fcs \div 256, fcsTable[b + 1])

(* class Fcs: the constructor, write, result *)
FcsStart == 65535
FcsWrite(fcs, b) == Xor(fcs \div 256, fcsTable[Xor(fcs % 256, b) + 1])
FcsResult(fcs) == 65535 - fcs

(* Mutant of Escaped: the escape character itself is not escaped. *)
EscapedFlagOnly(c) ==
  IF c = PPP_FLAG_CHAR THEN <<PPP_ESC_CHAR, Xor(c, PPP_MASK_CHAR)>> ELSE <<c>>

(* addEscaped *)
Escaped(c) ==
  IF c \in {PPP_ESC_CHAR, PPP_FLAG_CHAR}
  THEN <<PPP_ESC_CHAR, Xor(c, PPP_MASK_CHAR)>>
  ELSE <<c>>

(* The loop of ppp_frame, one byte: what is written and the FCS. *)
FrameByte(st, c) == [out |-> st.out \o Escaped(c), fcs |-> FcsWrite(st.fcs, c)]

FramedUpTo(in) ==
  LET upTo[n \in 0 .. Len(in)] ==
        IF n = 0 THEN [out |-> <<>>, fcs |-> FcsStart] ELSE FrameByte(upTo[n - 1], in[n])
  IN  upTo

Framed(in) == FramedUpTo(in)[Len(in)]

(* The bytes between the two FLAGs ppp_frame writes: stuffed payload and   *)
(* FCS, low byte first.                                                    *)
Stuffed(in) ==
  LET fcs == FcsResult(Framed(in).fcs)
  IN  Framed(in).out \o Escaped(fcs % 256) \o Escaped(fcs \div 256)

ppp_frame(in) == <<PPP_FLAG_CHAR>> \o Stuffed(in) \o <<PPP_FLAG_CHAR>>

(* The loop of ppp_deframe, one character. *)
Unstuff(st, c) ==
  IF st.flag THEN st
  ELSE IF c = PPP_ESC_CHAR THEN [st EXCEPT !.esc = TRUE]
  ELSE IF c = PPP_FLAG_CHAR THEN [st EXCEPT !.flag = TRUE]
  ELSE LET d == IF st.esc THEN Xor(c, PPP_MASK_CHAR) ELSE c
       IN  [st EXCEPT !.esc = FALSE, !.out = Append(@, d), !.fcs = FcsWrite(@, d)]

UnstuffedUpTo(in) ==
  LET upTo[n \in 0 .. Len(in)] ==
        IF n = 0 THEN [esc |-> FALSE, flag |-> FALSE, out |-> <<>>, fcs |-> FcsStart]
        ELSE Unstuff(upTo[n - 1], in[n])
  IN  upTo

Unstuffed(in) == UnstuffedUpTo(in)[Len(in)]

(* Mutant of ppp_deframe: the FCS is not looked at. *)
ppp_deframe_unchecked(in) ==
  LET st == Unstuffed(in)
  IN  [ok |-> Len(in) >= 3 /\ ~st.flag /\ ~st.esc,
       out |-> SubSeq(st.out, 1, Len(st.out) - 2)]

(* ppp_deframe: the result, and out without the two FCS bytes.  Popping an *)
(* empty vector is undefined; here it leaves it empty.                     *)
ppp_deframe(in) ==
  LET st == Unstuffed(in)
      n == Len(st.out)
  IN  IF Len(in) < 3 \/ st.flag
      THEN [ok |-> FALSE, out |-> <<>>]
      ELSE [ok |-> ~st.esc /\ FcsResult(st.fcs) = 3911, \* 0x0F47
            out |-> SubSeq(st.out, 1, n - 2)]

-----------------------------------------------------------------------------
DataInit == data = <<>>
Extend ==
  /\ Len(data) < MaxLen
  /\ \E b \in IF data = <<>> THEN First ELSE Alphabet : data' = Append(data, b)
DataSpec == DataInit /\ [][Extend]_data

-----------------------------------------------------------------------------
(* The reference: CRC-16/X.25 bit by bit, with the reflected polynomial     *)
(* 0x8408, as RFC 1662 defines the FCS.                                     *)
CrcBit(r) == IF r % 2 = 1 THEN Xor(r \div 2, 33800) ELSE r \div 2
Crc8(r) == CrcBit(CrcBit(CrcBit(CrcBit(CrcBit(CrcBit(CrcBit(CrcBit(r))))))))

CrcUpTo(in) ==
  LET upTo[n \in 0 .. Len(in)] ==
        IF n = 0 THEN 65535 ELSE Crc8(Xor(upTo[n - 1], in[n]))
  IN  upTo

Crc(in) == CrcUpTo(in)[Len(in)]

(* The table-driven Fcs of ppp_frame.cpp is the CRC of the standard: each   *)
(* of the 256 table entries and the way write combines them.                *)
FcsIsCrc == Framed(data).fcs = Crc(data)

(* What ppp_frame writes between its FLAGs contains no FLAG, and            *)
(* ppp_deframe gives the payload back, whatever special bytes payload and   *)
(* FCS contain.  The empty payload is the exception: two bytes are too few  *)
(* for ppp_deframe.                                                         *)
RoundTrip ==
  LET bs == Stuffed(data)
  IN  /\ \A n \in 1 .. Len(bs) : bs[n] # PPP_FLAG_CHAR
      /\ data # <<>> => ppp_deframe(bs) = [ok |-> TRUE, out |-> data]

Special(c) == c \in {PPP_ESC_CHAR, PPP_FLAG_CHAR}

(* ppp_deframe accepts no frame in which one bit of a byte was inverted on  *)
(* the line, unless the inversion adds or removes an escape character; in   *)
(* any case it comes to its two pop_back() with two bytes or more in out.   *)
BitErrorDetected ==
  LET bs == Stuffed(data)
  IN  \A n \in 1 .. Len(bs), bit \in {1, 2, 4, 8, 16, 32, 64, 128} :
        LET c  == Xor(bs[n], bit)
            in == [bs EXCEPT ![n] = c]
            st == Unstuffed(in)
        IN  /\ Special(bs[n]) \/ Special(c) \/ ~ppp_deframe(in).ok
            /\ Len(in) < 3 \/ st.flag \/ Len(st.out) >= 2
=============================================================================
