-------------------------- MODULE MessagePathProofs --------------------------
(***************************************************************************)
(* Proofs about the way of a message through the serializer and onto the   *)
(* line, for any threads, messages, capacity and splitting of the writes.  *)
(***************************************************************************)
EXTENDS RxPath, Recursion, SequenceTheorems, TLAPS

-----------------------------------------------------------------------------
(* The array's start and break are cells. *)
LEMMA Delimiters == Open \in Cell /\ Close \in Cell
  BY DEF Open, Close, Cell, Kinds

(* A member is at least one cell. *)
LEMMA MemberCells ==
  ASSUME NEW m \in Seq(Field), NEW n \in 1 .. Len(m)
  PROVE  m[n].cells \in Seq(Cell) /\ Len(m[n].cells) > 0
<1>1. m[n] \in Field
  OBVIOUS
<1>2. m[n].cells \in Seq(Cell) /\ m[n].cells # <<>>
  BY <1>1 DEF Field
<1> QED
  BY <1>2

(* The encoding of a message, member by member. *)
LEMMA OpenedCells ==
  ASSUME NEW m \in Seq(Field)
  PROVE  /\ Opened(m) \in [0 .. Len(m) -> Seq(Cell)]
         /\ Opened(m)[0] = <<Open>>
         /\ \A k \in 1 .. Len(m) : Opened(m)[k] = Opened(m)[k - 1] \o m[k].cells
<1> DEFINE V == Seq(Cell)
           N == Len(m)
           step == [n \in 1 .. N |-> [s \in V |-> s \o m[n].cells]]
           Def(g) == [k \in 0 .. N |-> IF k = 0 THEN <<Open>> ELSE g[k - 1] \o m[k].cells]
           cells == CHOOSE g : g = Def(g)
<1>1. N \in Nat /\ \A n \in 1 .. N : m[n].cells \in V
  BY MemberCells
<1>2. <<Open>> \in V
  BY Delimiters
<1>3. step \in [1 .. N -> [V -> V]]
  BY <1>1
<1>4. PICK g : IteratesUpTo(g, N, V, <<Open>>, step)
  <2> HIDE DEF step, V, N, Def, cells
  <2>1. N \in Nat
    BY <1>1
  <2> QED
    BY <1>2, <1>3, <2>1, BoundedIteration
<1>5. g = Def(g)
  <2>1. ASSUME NEW k \in 0 .. N PROVE g[k] = Def(g)[k]
    <3>1. CASE k = 0
      BY <1>4, <3>1 DEF IteratesUpTo
    <3>2. CASE k # 0
      <4>1. k \in 1 .. N /\ k - 1 \in 0 .. N
        BY <1>1, <3>2
      <4>2. g[k - 1] \in V /\ g[k] = step[k][g[k - 1]]
        <5> HIDE DEF V, N, step
        <5> QED
          BY <1>4, <4>1 DEF IteratesUpTo
      <4>3. step[k][g[k - 1]] = g[k - 1] \o m[k].cells
        BY <4>1, <4>2
      <4> QED
        BY <3>2, <4>2, <4>3
    <3> QED
      BY <3>1, <3>2
  <2>2. g = [k \in 0 .. N |-> g[k]]
    BY <1>4 DEF IteratesUpTo
  <2> HIDE DEF V, step, cells
  <2> QED
    BY <2>1, <2>2
<1>6. cells = Def(cells)
  <2> HIDE DEF Def
  <2> QED
    BY <1>5
<1>7. Opened(m) = cells
  BY DEF Opened
<1> HIDE DEF cells
<1>8. cells[0] = <<Open>> /\ \A k \in 1 .. N : cells[k] = cells[k - 1] \o m[k].cells
  <2>1. 0 \in 0 .. N /\ \A k \in 1 .. N : k \in 0 .. N /\ k # 0
    BY <1>1
  <2>2. \A k \in 0 .. N : cells[k] = IF k = 0 THEN <<Open>> ELSE cells[k - 1] \o m[k].cells
    BY <1>6, Zenon
  <2> HIDE DEF N
  <2> QED
    BY <2>1, <2>2, Zenon
<1>9. \A k \in 0 .. N : cells[k] \in V
  <2> DEFINE S == {k \in 0 .. N : cells[k] \in V}
  <2>1. 0 \in S
    <3>1. 0 \in 0 .. N
      BY <1>1
    <3>2. cells[0] \in V
      BY <1>2, <1>8, Zenon
    <3> QED
      BY <3>1, <3>2, Zenon
  <2>2. ASSUME NEW n \in 0 .. (N - 1), n \in S PROVE n + 1 \in S
    <3>1. n + 1 \in 1 .. N /\ n + 1 \in 0 .. N /\ (n + 1) - 1 = n
      BY <1>1
    <3>2. cells[n + 1] = cells[n] \o m[n + 1].cells
      BY <1>8, <3>1
    <3>3. cells[n] \in V /\ m[n + 1].cells \in V
      BY <1>1, <2>2, <3>1, Zenon
    <3>4. cells[n + 1] \in V
      BY <3>2, <3>3
    <3> QED
      BY <3>1, <3>4, Zenon
  <2>3. 0 .. N \subseteq S
    <3> HIDE DEF S, N
    <3> QED
      BY <1>1, <2>1, <2>2, BoundedInduction
  <2> QED
    BY <2>3
<1>10. cells \in [0 .. N -> V]
  BY <1>6, <1>9
<1> QED
  BY <1>7, <1>8, <1>10

(* The encoding of a message: its members, opened and closed. *)
LEMMA EncodingCells ==
  ASSUME NEW m \in Seq(Field)
  PROVE  /\ Encoding(m) \in Seq(Cell) /\ Encoding(m) = Opened(m)[Len(m)] \o <<Close>>
         /\ Len(Encoding(m)) = Len(Opened(m)[Len(m)]) + 1
<1>1. Opened(m)[Len(m)] \in Seq(Cell)
  <2>1. Len(m) \in 0 .. Len(m)
    OBVIOUS
  <2> QED
    BY <2>1, OpenedCells
<1>2. PICK s \in Seq(Cell) : s = Opened(m)[Len(m)]
  BY <1>1
<1>3. /\ Append(s, Close) \in Seq(Cell) /\ Append(s, Close) = s \o <<Close>>
      /\ Len(Append(s, Close)) = Len(s) + 1
  BY Delimiters
<1> QED
  BY <1>2, <1>3 DEF Encoding

(* What was serialized so far is the beginning of the encoding. *)
LEMMA OpenedWithin ==
  ASSUME NEW m \in Seq(Field), NEW i \in 0 .. Len(m)
  PROVE  /\ Opened(m)[i] \in Seq(Cell) /\ Len(Opened(m)[i]) < Len(Encoding(m))
         /\ \A n \in 1 .. Len(Opened(m)[i]) : Encoding(m)[n] = Opened(m)[i][n]
<1> DEFINE P(s) == /\ s \in Seq(Cell) /\ Len(Opened(m)[i]) <= Len(s)
                   /\ \A n \in 1 .. Len(Opened(m)[i]) : s[n] = Opened(m)[i][n]
           S == {j \in 0 .. (Len(m) - i) : P(Opened(m)[i + j])}
<1>1. Len(m) \in Nat /\ i \in Nat /\ i <= Len(m)
  OBVIOUS
<1>2. Opened(m)[i] \in Seq(Cell) /\ Len(Opened(m)[i]) \in Nat
  <2>1. Opened(m)[i] \in Seq(Cell)
    BY OpenedCells
  <2> QED
    BY <2>1
<1>3. 0 \in S
  <2>1. 0 \in 0 .. (Len(m) - i) /\ i + 0 = i
    BY <1>1
  <2> QED
    BY <1>2, <2>1
<1>4. ASSUME NEW j \in 0 .. ((Len(m) - i) - 1), j \in S PROVE j + 1 \in S
  <2>1. /\ j + 1 \in 0 .. (Len(m) - i) /\ i + (j + 1) \in 1 .. Len(m)
        /\ (i + (j + 1)) - 1 = i + j
    BY <1>1
  <2>2. Opened(m)[i + (j + 1)] = Opened(m)[i + j] \o m[i + (j + 1)].cells
    BY <2>1, OpenedCells
  <2>3. m[i + (j + 1)].cells \in Seq(Cell)
    BY <2>1, MemberCells
  <2>4. P(Opened(m)[i + j])
    BY <1>4
  <2> HIDE DEF P
  <2>5. ASSUME NEW s \in Seq(Cell), NEW t \in Seq(Cell), P(s) PROVE P(s \o t)
    <3>1. /\ s \o t \in Seq(Cell) /\ Len(s) <= Len(s \o t)
          /\ \A n \in 1 .. Len(s) : (s \o t)[n] = s[n]
      OBVIOUS
    <3>2. Len(s) \in Nat /\ Len(s \o t) \in Nat
      BY <3>1
    <3> QED
      BY <1>2, <2>5, <3>1, <3>2 DEF P
  <2>6. Opened(m)[i + j] \in Seq(Cell)
    BY <2>4 DEF P
  <2>7. P(Opened(m)[i + j] \o m[i + (j + 1)].cells)
    BY <2>3, <2>4, <2>5, <2>6
  <2> QED
    BY <2>1, <2>2, <2>7
<1>5. P(Opened(m)[Len(m)])
  <2>1. Len(m) - i \in Nat /\ Len(m) - i \in 0 .. (Len(m) - i) /\ i + (Len(m) - i) = Len(m)
    BY <1>1
  <2>2. 0 .. (Len(m) - i) \subseteq S
    <3> HIDE DEF S
    <3> QED
      BY <1>3, <1>4, <2>1, BoundedInduction
  <2> HIDE DEF P
  <2> QED
    BY <2>1, <2>2
<1>6. PICK s \in Seq(Cell) : s = Opened(m)[Len(m)]
  BY <1>5
<1>7. PICK c \in Seq(Cell) : c = <<Close>> /\ Len(c) = 1
  <2>1. <<Close>> \in Seq(Cell) /\ Len(<<Close>>) = 1
    BY Delimiters
  <2> QED
    BY <2>1, Zenon
<1>8. Encoding(m) = s \o c
  BY <1>6, <1>7, EncodingCells
<1>9. Len(s \o c) = Len(s) + 1 /\ \A n \in 1 .. Len(s) : (s \o c)[n] = s[n]
  BY <1>7
<1>10. Len(s) \in Nat
  OBVIOUS
<1> QED
  BY <1>2, <1>5, <1>6, <1>8, <1>9, <1>10

(* The encoding only grows: what is too long stays too long. *)
LEMMA TooLongStays ==
  ASSUME NEW m \in Seq(Field), NEW k \in 0 .. Len(m), Len(Opened(m)[k]) > Capacity
  PROVE  Len(Encoding(m)) > Capacity
<1>1. PICK s \in Seq(Cell) : s = Opened(m)[k] /\ Len(s) < Len(Encoding(m))
  BY OpenedWithin
<1>2. PICK e \in Seq(Cell) : e = Encoding(m)
  BY EncodingCells
<1>3. Len(s) \in Nat /\ Len(e) \in Nat /\ Capacity \in Nat
  BY CapacityAssumption
<1> QED
  BY <1>1, <1>2, <1>3

(* Slices and joins of cells. *)
LEMMA PartOf ==
  ASSUME NEW s \in Seq(Cell), NEW a \in Nat \ {0}, NEW b \in 0 .. Len(s)
  PROVE  /\ SubSeq(s, a, b) \in Seq(Cell)
         /\ Len(SubSeq(s, a, b)) = IF a <= b THEN b - a + 1 ELSE 0
  OBVIOUS

(* Joining sequences of cells. *)
LEMMA Joined ==
  ASSUME NEW a \in Seq(Cell), NEW b \in Seq(Cell)
  PROVE  /\ a \o b \in Seq(Cell) /\ Len(a \o b) = Len(a) + Len(b)
         /\ SubSeq(a \o b, 1, Len(a)) = a
  OBVIOUS

(* The length of a buffer after part of it was written over. *)
LEMMA OverwrittenLength ==
  ASSUME NEW old \in Nat, NEW c \in 0 .. old, NEW n \in Nat, NEW cap \in Nat,
         old <= cap, c + n <= cap, NEW rest, NEW new,
         rest = IF c + n <= old THEN old - (c + n) ELSE 0, new = c + n + rest
  PROVE  old <= new /\ new <= cap /\ c + n \in 0 .. new
  OBVIOUS

(* What tinycbor's append does to the buffer. *)
Overwrites(new, b, c, s) == new = SubSeq(b, 1, c) \o s \o SubSeq(b, c + Len(s) + 1, Len(b))

(* What a buffer holds after part of it was written over: the cells before,
   the cells written, and what lay behind them. *)
LEMMA Overwritten ==
  ASSUME NEW b \in Seq(Cell), NEW c \in 0 .. Len(b), NEW s \in Seq(Cell),
         NEW new, Overwrites(new, b, c, s), Len(b) <= Capacity, c + Len(s) <= Capacity
  PROVE  /\ new \in Seq(Cell) /\ Len(b) <= Len(new) /\ Len(new) <= Capacity
         /\ c + Len(s) \in 0 .. Len(new)
         /\ SubSeq(new, 1, c + Len(s)) = SubSeq(b, 1, c) \o s
<1>1. PICK front \in Seq(Cell) : front = SubSeq(b, 1, c) /\ Len(front) = c
  <2>1. SubSeq(b, 1, c) \in Seq(Cell) /\ Len(SubSeq(b, 1, c)) = c
    BY PartOf
  <2> QED
    BY <2>1, Zenon
<1>2. PICK back \in Seq(Cell) :
        /\ back = SubSeq(b, c + Len(s) + 1, Len(b))
        /\ Len(back) = IF c + Len(s) <= Len(b) THEN Len(b) - (c + Len(s)) ELSE 0
  <2> DEFINE from == c + Len(s) + 1
  <2>1. /\ from \in Nat \ {0} /\ Len(b) \in 0 .. Len(b)
        /\ Len(b) - from + 1 = Len(b) - (c + Len(s))
        /\ from <= Len(b) \/ ~(c + Len(s) <= Len(b)) \/ Len(b) - (c + Len(s)) = 0
        /\ from <= Len(b) => c + Len(s) <= Len(b)
    OBVIOUS
  <2>2. /\ SubSeq(b, from, Len(b)) \in Seq(Cell)
        /\ Len(SubSeq(b, from, Len(b))) = IF from <= Len(b) THEN Len(b) - from + 1 ELSE 0
    <3> HIDE DEF from
    <3> QED
      BY <2>1, PartOf
  <2>3. Len(SubSeq(b, from, Len(b))) =
          IF c + Len(s) <= Len(b) THEN Len(b) - (c + Len(s)) ELSE 0
    <3> HIDE DEF from
    <3> QED
      BY <2>1, <2>2
  <2> QED
    BY <2>2, <2>3, Zenon
<1>3. /\ new = (front \o s) \o back /\ front \o s \in Seq(Cell)
      /\ Len(front \o s) = c + Len(s)
  <2>1. new = (front \o s) \o back
    BY <1>1, <1>2, Zenon DEF Overwrites
  <2>2. front \o s \in Seq(Cell) /\ Len(front \o s) = Len(front) + Len(s)
    BY Joined
  <2> QED
    BY <1>1, <2>1, <2>2
<1>4. PICK u \in Seq(Cell) : u = front \o s
  BY <1>3
<1>5. /\ new \in Seq(Cell) /\ Len(new) = c + Len(s) + Len(back) /\ new = u \o back
      /\ Len(u) = c + Len(s)
  <2>1. Len(u) = c + Len(s) /\ new = u \o back
    BY <1>3, <1>4, Zenon
  <2>2. u \o back \in Seq(Cell) /\ Len(u \o back) = Len(u) + Len(back)
    BY Joined
  <2> QED
    BY <2>1, <2>2, Zenon
<1>6. SubSeq(u \o back, 1, Len(u)) = u
  BY Joined
<1>7. Len(s) \in Nat /\ Len(b) \in Nat /\ Capacity \in Nat
  BY CapacityAssumption
<1>8. Len(b) <= Len(new) /\ Len(new) <= Capacity /\ c + Len(s) \in 0 .. Len(new)
  <2>1. Len(back) = IF c + Len(s) <= Len(b) THEN Len(b) - (c + Len(s)) ELSE 0
    BY <1>2
  <2>2. Len(new) = c + Len(s) + Len(back)
    BY <1>5
  <2> QED
    BY <1>7, <2>1, <2>2, OverwrittenLength
<1>9. SubSeq(new, 1, c + Len(s)) = front \o s
  BY <1>4, <1>5, <1>6
<1> QED
  BY <1>1, <1>5, <1>8, <1>9

-----------------------------------------------------------------------------
(* The serializer's state is typed, and stays so. *)
LEMMA EncoderTypes ==
  ASSUME TypeOK, NEW s \in Seq(Cell), Append_to_buffer(s)
  PROVE  /\ buffer' \in Seq(Cell) /\ Len(buffer') <= Capacity /\ Len(buffer) <= Len(buffer')
         /\ cursor' \in 0 .. Len(buffer') /\ oom' \in BOOLEAN
         /\ Fits(s) => /\ cursor' = cursor + Len(s) /\ cursor' <= Capacity /\ ~oom /\ ~oom'
                       /\ SubSeq(buffer', 1, cursor') = SubSeq(buffer, 1, cursor) \o s
         /\ ~Fits(s) => /\ buffer' = buffer /\ cursor' = cursor /\ oom'
                        /\ oom \/ cursor + Len(s) > Capacity
<1>1. /\ buffer \in Seq(Cell) /\ Len(buffer) <= Capacity /\ Len(buffer) \in Nat
      /\ cursor \in 0 .. Len(buffer) /\ oom \in BOOLEAN /\ Capacity \in Nat /\ Len(s) \in Nat
  BY CapacityAssumption DEF TypeOK
<1>2. CASE Fits(s)
  <2>1. /\ Overwrites(buffer', buffer, cursor, s)
        /\ cursor' = cursor + Len(s) /\ oom' = oom /\ ~oom /\ cursor + Len(s) <= Capacity
    BY <1>2 DEF Append_to_buffer, Fits, Overwrites
  <2>2. /\ buffer' \in Seq(Cell) /\ Len(buffer) <= Len(buffer') /\ Len(buffer') <= Capacity
        /\ cursor + Len(s) \in 0 .. Len(buffer')
        /\ SubSeq(buffer', 1, cursor + Len(s)) = SubSeq(buffer, 1, cursor) \o s
    BY <1>1, <2>1, Overwritten
  <2>3. oom' \in BOOLEAN /\ ~oom' /\ ~oom
    BY <1>1, <2>1
  <2> QED
    BY <1>2, <2>1, <2>2, <2>3
<1>3. CASE ~Fits(s)
  <2>1. buffer' = buffer /\ cursor' = cursor /\ oom' = TRUE
    BY <1>3 DEF Append_to_buffer
  <2>2. oom \/ cursor + Len(s) > Capacity
    BY <1>1, <1>3 DEF Fits
  <2> QED
    BY <1>1, <1>3, <2>1, <2>2
<1> QED
  BY <1>2, <1>3

(* Where a thread is, and the member it serializes next. *)
LEMMA ThreadTypes ==
  ASSUME TypeOK, NEW t \in Threads
  PROVE  /\ pc[t] \in Labels /\ msg[t] \in Seq(Field) /\ out[t] \in Seq(Cell)
         /\ field[t] \in 1 .. Len(msg[t]) + 1 /\ Len(msg[t]) \in Nat
  BY DEF TypeOK

(* The types hold at first. *)
LEMMA PathInitType == Init => TypeOK
<1> SUFFICES ASSUME Init PROVE TypeOK
  OBVIOUS
<1>1. <<>> \in Seq(Cell) /\ <<>> \in Seq(Field) /\ <<>> \in Seq(Seq(Field)) /\ Len(<<>>) = 0
  OBVIOUS
<1>2. /\ running \in BOOLEAN /\ oom \in BOOLEAN /\ buffer \in Seq(Cell) /\ Len(buffer) <= Capacity
      /\ cursor \in 0 .. Len(buffer) /\ size \in 0 .. Len(buffer)
  <2>1. running = TRUE /\ oom = FALSE /\ buffer = <<>> /\ cursor = 0 /\ size = 0
    BY DEF Init
  <2>2. Len(buffer) = 0 /\ buffer \in Seq(Cell)
    BY <1>1, <2>1, Zenon
  <2>3. cursor = 0 /\ size = 0
    BY <2>1
  <2>4. Len(buffer) <= Capacity /\ cursor \in 0 .. Len(buffer) /\ size \in 0 .. Len(buffer)
    BY <2>2, <2>3, CapacityAssumption
  <2>5. running \in BOOLEAN /\ oom \in BOOLEAN
    BY <2>1
  <2> QED
    BY <2>2, <2>4, <2>5
<1>3. pc \in [Threads -> Labels] /\ msg \in [Threads -> Seq(Field)] /\ field \in [Threads -> Nat]
  BY <1>1 DEF Init, Labels
<1>4. ASSUME NEW t \in Threads PROVE field[t] \in 1 .. Len(msg[t]) + 1
  <2>1. field[t] = 1 /\ msg[t] = <<>>
    BY DEF Init
  <2>2. Len(msg[t]) = 0
    BY <1>1, <2>1, Zenon
  <2> QED
    BY <2>1, <2>2
<1>5. out \in [Threads -> Seq(Cell)] /\ queue \in Seq(Cell) /\ wire \in Seq(Cell)
  BY <1>1 DEF Init
<1>6. begun \in Seq(Seq(Field)) /\ Len(begun) <= MaxMessages
  BY <1>1, MaxMessagesAssumption DEF Init
<1> QED
  BY <1>2, <1>3, <1>4, <1>5, <1>6 DEF TypeOK

(* What a step on the serializer leaves alone. *)
LineTypes ==
  out \in [Threads -> Seq(Cell)] /\ queue \in Seq(Cell) /\ wire \in Seq(Cell)

(* begin() starts at the buffer again. *)
LEMMA BeginType ==
  ASSUME TypeOK, NEW t \in Threads, NEW m \in Messages[t], Begin(t, m)
  PROVE  TypeOK'
<1>1. m \in Seq(Field) /\ Len(m) \in Nat
  BY MessagesAssumption
<1>2. PICK rest \in Seq(Cell) :
        rest = SubSeq(buffer, 2, Len(buffer)) /\ Len(rest) = IF Len(buffer) = 0 THEN 0 ELSE Len(buffer) - 1
  <2>1. buffer \in Seq(Cell) /\ Len(buffer) \in Nat /\ Len(buffer) \in 0 .. Len(buffer)
    BY DEF TypeOK
  <2>2. /\ SubSeq(buffer, 2, Len(buffer)) \in Seq(Cell)
        /\ Len(SubSeq(buffer, 2, Len(buffer))) =
             IF 2 <= Len(buffer) THEN Len(buffer) - 2 + 1 ELSE 0
    BY <2>1, PartOf
  <2>3. PICK rest \in Seq(Cell) : rest = SubSeq(buffer, 2, Len(buffer))
    BY <2>2
  <2>4. Len(rest) = IF Len(buffer) = 0 THEN 0 ELSE Len(buffer) - 1
    BY <2>1, <2>2, <2>3
  <2> QED
    BY <2>3, <2>4, Zenon
<1>3. buffer' = <<Open>> \o rest /\ buffer' \in Seq(Cell) /\ Len(buffer') = 1 + Len(rest)
  BY <1>2, Delimiters DEF Begin
<1>4. /\ Len(buffer') <= Capacity /\ cursor' \in 0 .. Len(buffer') /\ size' \in 0 .. Len(buffer')
      /\ oom' \in BOOLEAN /\ running' \in BOOLEAN
  <2>1. /\ Len(buffer) \in Nat /\ Len(buffer) <= Capacity /\ size \in 0 .. Len(buffer)
        /\ size' = size /\ cursor' = 1
    BY DEF TypeOK, Begin
  <2>2. oom' \in BOOLEAN /\ running' \in BOOLEAN
    BY DEF TypeOK, Begin
  <2>3. /\ Len(buffer') <= Capacity /\ cursor' \in 0 .. Len(buffer') /\ size' \in 0 .. Len(buffer')
    BY <1>2, <1>3, <2>1, CapacityAssumption
  <2> QED
    BY <2>2, <2>3
<1>5. pc' \in [Threads -> Labels]
  BY DEF TypeOK, Begin, Goto, Labels
<1>6. msg' \in [Threads -> Seq(Field)] /\ field' \in [Threads -> Nat]
  BY <1>1 DEF TypeOK, Begin
<1>7. ASSUME NEW s \in Threads PROVE field'[s] \in 1 .. Len(msg'[s]) + 1
  <2>1. msg'[s] = (IF s = t THEN m ELSE msg[s]) /\ field'[s] = (IF s = t THEN 1 ELSE field[s])
    BY DEF TypeOK, Begin
  <2>2. field[s] \in 1 .. Len(msg[s]) + 1
    BY DEF TypeOK
  <2> QED
    BY <1>1, <2>1, <2>2
<1>8. begun' \in Seq(Seq(Field)) /\ Len(begun') <= MaxMessages
  <2>1. begun \in Seq(Seq(Field)) /\ begun' = Append(begun, m) /\ Len(begun) < MaxMessages
    BY DEF TypeOK, Begin
  <2> QED
    BY <1>1, <2>1, MaxMessagesAssumption
<1>9. LineTypes'
  BY DEF TypeOK, Begin, LineTypes
<1> QED
  BY <1>3, <1>4, <1>5, <1>6, <1>7, <1>8, <1>9 DEF TypeOK, LineTypes

(* A member is written behind the cursor, or not at all. *)
LEMMA MemberType ==
  ASSUME TypeOK, NEW t \in Threads, Member(t)
  PROVE  TypeOK'
<1> DEFINE f == msg[t][field[t]]
<1>1. field[t] \in 1 .. Len(msg[t]) /\ msg[t] \in Seq(Field) /\ Len(msg[t]) \in Nat
  BY ThreadTypes DEF Member
<1>2. f.cells \in Seq(Cell)
  BY <1>1, MemberCells
<1>3. /\ Append_to_buffer(f.cells) /\ running' = (Fits(f.cells) \/ ~f.asserted)
      /\ field' = [field EXCEPT ![t] = field[t] + 1]
      /\ UNCHANGED <<size, pc, msg, out, queue, wire, begun>>
  BY DEF Member
<1> HIDE DEF f
<1>4. /\ buffer' \in Seq(Cell) /\ Len(buffer') <= Capacity /\ Len(buffer) <= Len(buffer')
      /\ cursor' \in 0 .. Len(buffer') /\ oom' \in BOOLEAN
  BY <1>2, <1>3, EncoderTypes
<1>5. size' \in 0 .. Len(buffer')
  <2>1. size \in 0 .. Len(buffer) /\ Len(buffer) \in Nat /\ Len(buffer') \in Nat /\ size' = size
    BY <1>3, <1>4 DEF TypeOK
  <2> QED
    BY <1>4, <2>1
<1>6. running' \in BOOLEAN
  BY <1>3
<1>7. field' \in [Threads -> Nat]
  BY <1>1, <1>3 DEF TypeOK
<1>8. ASSUME NEW s \in Threads PROVE field'[s] \in 1 .. Len(msg'[s]) + 1
  <2>1. field'[s] = (IF s = t THEN field[t] + 1 ELSE field[s]) /\ msg'[s] = msg[s]
    BY <1>3 DEF TypeOK
  <2>2. field[s] \in 1 .. Len(msg[s]) + 1
    BY DEF TypeOK
  <2> QED
    BY <1>1, <2>1, <2>2
<1>9. /\ pc' \in [Threads -> Labels] /\ msg' \in [Threads -> Seq(Field)] /\ LineTypes'
      /\ begun' \in Seq(Seq(Field)) /\ Len(begun') <= MaxMessages
  BY <1>3 DEF TypeOK, LineTypes
<1> QED
  BY <1>4, <1>5, <1>6, <1>7, <1>8, <1>9 DEF TypeOK, LineTypes

(* The break is written behind the cursor, or not at all. *)
LEMMA EndType ==
  ASSUME TypeOK, NEW t \in Threads, End(t)
  PROVE  TypeOK'
<1>1. /\ Append_to_buffer(<<Close>>) /\ running' = Fits(<<Close>>)
      /\ size' = IF Fits(<<Close>>) THEN cursor + 1 ELSE size
      /\ pc' = [pc EXCEPT ![t] = "encoded"]
      /\ UNCHANGED <<msg, field, out, queue, wire, begun>>
  BY DEF End, Goto
<1>2. <<Close>> \in Seq(Cell) /\ Len(<<Close>>) = 1
  BY Delimiters
<1>3. PICK s \in Seq(Cell) : s = <<Close>> /\ Len(s) = 1
  BY <1>2
<1>4. /\ buffer' \in Seq(Cell) /\ Len(buffer') <= Capacity /\ Len(buffer) <= Len(buffer')
      /\ cursor' \in 0 .. Len(buffer') /\ oom' \in BOOLEAN
      /\ Fits(s) => cursor' = cursor + Len(s)
  BY <1>1, <1>3, EncoderTypes
<1>5. size' \in 0 .. Len(buffer')
  <2>1. size \in 0 .. Len(buffer) /\ Len(buffer) \in Nat /\ Len(buffer') \in Nat
    BY <1>4 DEF TypeOK
  <2>2. CASE Fits(<<Close>>)
    <3>1. size' = cursor'
      BY <1>1, <1>3, <1>4, <2>2
    <3> QED
      BY <1>4, <3>1
  <2>3. CASE ~Fits(<<Close>>)
    <3>1. size' = size
      BY <1>1, <2>3
    <3> QED
      BY <1>4, <2>1, <3>1
  <2> QED
    BY <2>2, <2>3
<1>6. running' \in BOOLEAN
  BY <1>1 DEF Fits
<1>7. pc' \in [Threads -> Labels]
  BY <1>1 DEF TypeOK, Labels
<1>8. /\ field' \in [Threads -> Nat] /\ msg' \in [Threads -> Seq(Field)] /\ LineTypes'
      /\ begun' \in Seq(Seq(Field)) /\ Len(begun') <= MaxMessages
      /\ \A u \in Threads : field'[u] \in 1 .. Len(msg'[u]) + 1
  BY <1>1 DEF TypeOK, LineTypes
<1> QED
  BY <1>4, <1>5, <1>6, <1>7, <1>8 DEF TypeOK, LineTypes

(* The serializer's part of the types, which the steps of txd leave alone. *)
EncoderOK ==
  /\ running \in BOOLEAN /\ oom \in BOOLEAN
  /\ buffer \in Seq(Cell) /\ Len(buffer) <= Capacity
  /\ cursor \in 0 .. Len(buffer) /\ size \in 0 .. Len(buffer)
  /\ msg \in [Threads -> Seq(Field)] /\ field \in [Threads -> Nat]
  /\ \A t \in Threads : field[t] \in 1 .. Len(msg[t]) + 1
  /\ begun \in Seq(Seq(Field)) /\ Len(begun) <= MaxMessages

(* Steps that do not use the serializer. *)
LEMMA EncoderKept == TypeOK /\ UNCHANGED serializer => EncoderOK'
  BY DEF TypeOK, serializer, EncoderOK

(* toBytes() hands over a part of the buffer. *)
LEMMA ToBytesType ==
  ASSUME TypeOK, NEW t \in Threads, ToBytes(t)
  PROVE  TypeOK'
<1>1. SubSeq(buffer, 1, size) \in Seq(Cell)
  <2>1. buffer \in Seq(Cell) /\ size \in 0 .. Len(buffer)
    BY DEF TypeOK
  <2> QED
    BY <2>1, PartOf
<1>2. out' \in [Threads -> Seq(Cell)] /\ pc' \in [Threads -> Labels]
  BY <1>1 DEF TypeOK, ToBytes, Goto, Labels
<1>3. EncoderOK' /\ queue' \in Seq(Cell) /\ wire' \in Seq(Cell)
  <2>1. UNCHANGED serializer /\ UNCHANGED <<queue, wire>>
    BY DEF ToBytes, serializer
  <2> QED
    BY <2>1, EncoderKept DEF TypeOK
<1> QED
  BY <1>2, <1>3 DEF TypeOK, EncoderOK

(* write() takes some of what there is to write. *)
LEMMA WriteType ==
  ASSUME TypeOK, NEW t \in Threads, Write(t)
  PROVE  TypeOK'
<1>1. PICK n \in 0 .. Len(out[t]) :
        /\ queue' = queue \o SubSeq(out[t], 1, n)
        /\ out' = [out EXCEPT ![t] = SubSeq(out[t], n + 1, Len(out[t]))]
        /\ pc' = [pc EXCEPT ![t] = IF n = Len(out[t]) THEN "flush" ELSE "drain"]
  BY DEF Write, Goto
<1>2. out[t] \in Seq(Cell) /\ Len(out[t]) \in 0 .. Len(out[t]) /\ n + 1 \in Nat \ {0}
  BY ThreadTypes
<1>3. SubSeq(out[t], 1, n) \in Seq(Cell) /\ SubSeq(out[t], n + 1, Len(out[t])) \in Seq(Cell)
  BY <1>2, PartOf
<1>4. queue' \in Seq(Cell)
  <2>1. queue \in Seq(Cell)
    BY DEF TypeOK
  <2> QED
    BY <1>1, <1>3, <2>1, Joined
<1>5. out' \in [Threads -> Seq(Cell)] /\ pc' \in [Threads -> Labels]
  BY <1>1, <1>3 DEF TypeOK, Labels
<1>6. EncoderOK' /\ wire' \in Seq(Cell)
  BY EncoderKept DEF Write, TypeOK
<1> QED
  BY <1>4, <1>5, <1>6 DEF TypeOK, EncoderOK

(* Draining, failing and flushing. *)
LEMMA OtherPathTypes ==
  ASSUME TypeOK, NEW t \in Threads, Drain(t) \/ WriteFailed(t) \/ Flush(t)
  PROVE  TypeOK'
<1>1. EncoderOK'
  BY EncoderKept DEF Drain, WriteFailed, Flush
<1>2. pc' \in [Threads -> Labels]
  BY DEF TypeOK, Drain, WriteFailed, Flush, Goto, Labels
<1>3. <<>> \in Seq(Cell) /\ queue \in Seq(Cell) /\ wire \in Seq(Cell)
  BY DEF TypeOK
<1>4. out' \in [Threads -> Seq(Cell)]
  BY <1>3 DEF TypeOK, Drain, WriteFailed, Flush
<1>5. (queue' = <<>> \/ queue' = queue) /\ wire' = wire
  BY DEF Drain, WriteFailed, Flush
<1>6. queue' \in Seq(Cell) /\ wire' \in Seq(Cell)
  BY <1>3, <1>5, Zenon
<1> QED
  BY <1>1, <1>2, <1>4, <1>6 DEF TypeOK, EncoderOK

(* The line takes from the queue. *)
LEMMA TransmitType == TypeOK /\ Transmit => TypeOK'
<1> SUFFICES ASSUME TypeOK, Transmit PROVE TypeOK'
  OBVIOUS
<1>1. EncoderOK' /\ pc' \in [Threads -> Labels] /\ out' \in [Threads -> Seq(Cell)]
  BY EncoderKept DEF Transmit, TypeOK
<1>2. /\ queue \in Seq(Cell) /\ wire \in Seq(Cell) /\ queue # <<>>
      /\ wire' = Append(wire, Head(queue)) /\ queue' = Tail(queue)
  BY DEF Transmit, TypeOK
<1>3. Head(queue) \in Cell /\ Tail(queue) \in Seq(Cell)
  BY <1>2
<1>4. queue' \in Seq(Cell) /\ wire' \in Seq(Cell)
  BY <1>2, <1>3
<1> QED
  BY <1>1, <1>4 DEF TypeOK, EncoderOK

(* Every step keeps the types. *)
LEMMA PathTypeStep == TypeOK /\ [Next]_vars => TypeOK'
<1> SUFFICES ASSUME TypeOK, [Next]_vars PROVE TypeOK'
  OBVIOUS
<1>1. CASE UNCHANGED vars
  BY <1>1 DEF vars, TypeOK
<1>2. ASSUME NEW t \in Threads, Send(t) PROVE TypeOK'
  <2>1. ASSUME NEW m \in Messages[t], Begin(t, m) PROVE TypeOK'
    BY <2>1, BeginType
  <2>2. CASE Member(t) \/ End(t) \/ ToBytes(t) \/ Write(t)
    BY <2>2, MemberType, EndType, ToBytesType, WriteType
  <2>3. CASE Drain(t) \/ WriteFailed(t) \/ Flush(t)
    BY <2>3, OtherPathTypes
  <2> QED
    BY <1>2, <2>1, <2>2, <2>3 DEF Send
<1>3. CASE Transmit
  BY <1>3, TransmitType
<1> QED
  BY <1>1, <1>2, <1>3 DEF Next

(* Whatever the threads do to each other, the encoder and the size toBytes  *)
(* copies stay within the buffer.                                          *)
THEOREM PathTypes == Spec => []TypeOK
<1>1. Init => TypeOK
  BY PathInitType
<1>2. TypeOK /\ [Next]_vars => TypeOK'
  BY PathTypeStep
<1> QED
  BY <1>1, <1>2, PTL DEF Spec

-----------------------------------------------------------------------------
(* The serializer is used by one thread at a time, from begin() until       *)
(* toBytes() has copied the result: what a lock around the two would give,  *)
(* and what a process with one sending thread has.                         *)
Busy == {"member", "encoded"}
Exclusive == \A s, t \in Threads : pc[s] \in Busy /\ pc[t] \in Busy => s = t

(* What is in the buffer while a message is serialized: its members so far, *)
(* or, out of memory, proof that they are too long.                        *)
Encodes(t) ==
  /\ pc[t] = "member" => IF oom THEN Len(Opened(msg[t])[field[t] - 1]) > Capacity
                                ELSE SubSeq(buffer, 1, cursor) = Opened(msg[t])[field[t] - 1]
  /\ pc[t] = "encoded" => SubSeq(buffer, 1, size) = Encoding(msg[t])

EncInv ==
  /\ running => \A t \in Threads : Encodes(t)
  /\ AbortsOnlyTooLong

(* begin(): the array is open and empty. *)
LEMMA EncodesBegin ==
  ASSUME TypeOK, NEW t \in Threads, NEW m \in Messages[t], Begin(t, m)
  PROVE  Encodes(t)'
<1>1. m \in Seq(Field)
  BY MessagesAssumption
<1>2. /\ pc'[t] = "member" /\ msg'[t] = m /\ field'[t] = 1 /\ oom' = FALSE /\ cursor' = 1
      /\ buffer' = <<Open>> \o SubSeq(buffer, 2, Len(buffer))
  BY DEF TypeOK, Begin, Goto
<1>3. PICK a \in Seq(Cell), b \in Seq(Cell) : a = <<Open>> /\ b = SubSeq(buffer, 2, Len(buffer))
  <2>1. buffer \in Seq(Cell) /\ Len(buffer) \in 0 .. Len(buffer) /\ <<Open>> \in Seq(Cell)
    BY Delimiters DEF TypeOK
  <2>2. SubSeq(buffer, 2, Len(buffer)) \in Seq(Cell)
    BY <2>1, PartOf
  <2> QED
    BY <2>1, <2>2
<1>4. SubSeq(a \o b, 1, Len(a)) = a /\ Len(a) = 1
  BY <1>3, Joined
<1>5. SubSeq(buffer', 1, cursor') = <<Open>>
  BY <1>2, <1>3, <1>4
<1>6. Opened(m)[0] = <<Open>>
  BY <1>1, OpenedCells
<1>7. 1 - 1 = 0 /\ "member" # "encoded"
  OBVIOUS
<1> QED
  BY <1>2, <1>5, <1>6, <1>7 DEF Encodes

(* The cells of the next member. *)
LEMMA NextMember ==
  ASSUME TypeOK, NEW t \in Threads, field[t] \in 1 .. Len(msg[t])
  PROVE  /\ msg[t] \in Seq(Field) /\ field[t] - 1 \in 0 .. Len(msg[t])
         /\ field[t] \in 0 .. Len(msg[t])
         /\ msg[t][field[t]].cells \in Seq(Cell)
         /\ Opened(msg[t])[field[t] - 1] \in Seq(Cell)
         /\ Opened(msg[t])[field[t]] = Opened(msg[t])[field[t] - 1] \o msg[t][field[t]].cells
<1>1. msg[t] \in Seq(Field) /\ Len(msg[t]) \in Nat
  BY ThreadTypes
<1>2. field[t] - 1 \in 0 .. Len(msg[t]) /\ field[t] \in 0 .. Len(msg[t])
  BY <1>1
<1>3. msg[t][field[t]].cells \in Seq(Cell)
  BY <1>1, MemberCells
<1>4. Opened(msg[t])[field[t] - 1] \in Seq(Cell)
  BY <1>1, <1>2, OpenedCells
<1>5. Opened(msg[t])[field[t]] = Opened(msg[t])[field[t] - 1] \o msg[t][field[t]].cells
  BY <1>1, OpenedCells
<1> QED
  BY <1>1, <1>2, <1>3, <1>4, <1>5

(* Cells that do not fit make the encoding too long. *)
LEMMA NotFitting ==
  ASSUME TypeOK, NEW so \in Seq(Cell), NEW s \in Seq(Cell),
         IF oom THEN Len(so) > Capacity ELSE SubSeq(buffer, 1, cursor) = so,
         oom \/ cursor + Len(s) > Capacity
  PROVE  Len(so \o s) > Capacity
<1>1. Len(so \o s) = Len(so) + Len(s) /\ Len(so) \in Nat /\ Len(s) \in Nat /\ Capacity \in Nat
  BY Joined, CapacityAssumption
<1>2. CASE oom
  BY <1>1, <1>2
<1>3. CASE ~oom
  <2>1. SubSeq(buffer, 1, cursor) = so /\ cursor + Len(s) > Capacity
    BY <1>3
  <2>2. buffer \in Seq(Cell) /\ cursor \in 0 .. Len(buffer)
    BY DEF TypeOK
  <2>3. Len(SubSeq(buffer, 1, cursor)) = cursor
    BY <2>2, PartOf
  <2> QED
    BY <1>1, <2>1, <2>3
<1> QED
  BY <1>2, <1>3

(* A member is added to what was serialized, or the error is remembered. *)
LEMMA EncodesMember ==
  ASSUME TypeOK, NEW t \in Threads, Member(t), Encodes(t)
  PROVE  /\ running' => Encodes(t)'
         /\ ~running' => Len(Encoding(msg'[t])) > Capacity
<1> DEFINE f == msg[t][field[t]]
           so == Opened(msg[t])[field[t] - 1]
<1>1. /\ pc[t] = "member" /\ field[t] \in 1 .. Len(msg[t])
      /\ Append_to_buffer(f.cells) /\ running' = (Fits(f.cells) \/ ~f.asserted)
      /\ field'[t] = field[t] + 1 /\ pc' = pc /\ msg' = msg
  BY ThreadTypes DEF Member, TypeOK
<1>2. /\ msg[t] \in Seq(Field) /\ field[t] \in 0 .. Len(msg[t]) /\ f.cells \in Seq(Cell)
      /\ so \in Seq(Cell) /\ Opened(msg[t])[field[t]] = so \o f.cells
  BY <1>1, NextMember
<1>3. IF oom THEN Len(so) > Capacity ELSE SubSeq(buffer, 1, cursor) = so
  BY <1>1 DEF Encodes
<1>4. (field[t] + 1) - 1 = field[t]
  BY <1>1
<1> HIDE DEF f, so
<1>5. CASE Fits(f.cells)
  <2>1. ~oom /\ ~oom' /\ SubSeq(buffer', 1, cursor') = SubSeq(buffer, 1, cursor) \o f.cells
    BY <1>1, <1>2, <1>5, EncoderTypes
  <2>2. SubSeq(buffer', 1, cursor') = Opened(msg[t])[field[t]]
    BY <1>2, <1>3, <2>1
  <2>3. Encodes(t)'
    BY <1>1, <1>4, <2>1, <2>2 DEF Encodes
  <2>4. running'
    BY <1>1, <1>5
  <2> QED
    BY <2>3, <2>4
<1>6. CASE ~Fits(f.cells)
  <2>1. oom' /\ (oom \/ cursor + Len(f.cells) > Capacity)
    BY <1>1, <1>2, <1>6, EncoderTypes
  <2>2. Len(so \o f.cells) > Capacity
    BY <1>2, <1>3, <2>1, NotFitting
  <2>3. Len(Opened(msg[t])[field[t]]) > Capacity
    BY <1>2, <2>2
  <2>4. Encodes(t)'
    BY <1>1, <1>4, <2>1, <2>3 DEF Encodes
  <2>5. Len(Encoding(msg'[t])) > Capacity
    BY <1>1, <1>2, <2>3, TooLongStays
  <2> QED
    BY <2>4, <2>5
<1> QED
  BY <1>5, <1>6

(* The end: the whole message, or an assertion that ends the process. *)
LEMMA EncodesEnd ==
  ASSUME TypeOK, NEW t \in Threads, End(t), Encodes(t)
  PROVE  /\ running' => Encodes(t)'
         /\ ~running' => Len(Encoding(msg'[t])) > Capacity
<1> DEFINE so == Opened(msg[t])[Len(msg[t])]
<1>1. /\ pc[t] = "member" /\ field[t] - 1 = Len(msg[t]) /\ msg[t] \in Seq(Field)
      /\ Append_to_buffer(<<Close>>) /\ running' = Fits(<<Close>>)
      /\ size' = (IF Fits(<<Close>>) THEN cursor + 1 ELSE size)
      /\ pc'[t] = "encoded" /\ msg' = msg
  BY ThreadTypes, SMTT(30) DEF End, Goto, TypeOK
<1>2. /\ so \in Seq(Cell) /\ Encoding(msg[t]) = so \o <<Close>>
  <2>1. Len(msg[t]) \in 0 .. Len(msg[t])
    BY <1>1
  <2> QED
    BY <1>1, <2>1, OpenedCells, EncodingCells
<1>3. IF oom THEN Len(so) > Capacity ELSE SubSeq(buffer, 1, cursor) = so
  BY <1>1 DEF Encodes
<1>4. PICK s \in Seq(Cell) : s = <<Close>> /\ Len(s) = 1
  <2>1. <<Close>> \in Seq(Cell) /\ Len(<<Close>>) = 1
    BY Delimiters
  <2> QED
    BY <2>1, Zenon
<1> HIDE DEF so
<1>5. CASE Fits(<<Close>>)
  <2>1. ~oom /\ cursor' = cursor + 1 /\ SubSeq(buffer', 1, cursor') = SubSeq(buffer, 1, cursor) \o s
    BY <1>1, <1>4, <1>5, EncoderTypes
  <2>2. SubSeq(buffer', 1, size') = Encoding(msg[t])
    BY <1>1, <1>2, <1>3, <1>4, <1>5, <2>1
  <2>3. Encodes(t)'
    BY <1>1, <2>2 DEF Encodes
  <2>4. running'
    BY <1>1, <1>5
  <2> QED
    BY <2>3, <2>4
<1>6. CASE ~Fits(<<Close>>)
  <2>1. oom \/ cursor + Len(s) > Capacity
    BY <1>1, <1>4, <1>6, EncoderTypes
  <2>2. Len(so \o s) > Capacity
    BY <1>2, <1>3, <2>1, NotFitting
  <2>3. Len(Encoding(msg'[t])) > Capacity
    BY <1>1, <1>2, <1>4, <2>2
  <2>4. ~running'
    BY <1>1, <1>6
  <2> QED
    BY <2>3, <2>4
<1> QED
  BY <1>5, <1>6

(* Nothing is said of a thread that does not use the serializer. *)
LEMMA EncodesNothing == ASSUME NEW u \in Threads, pc[u] \notin Busy PROVE Encodes(u)
  BY DEF Encodes, Busy

(* Every step keeps the encoder in line with the message. *)
LEMMA EncStep == TypeOK /\ Exclusive /\ Exclusive' /\ EncInv /\ [Next]_vars => EncInv'
<1> SUFFICES ASSUME TypeOK, Exclusive, Exclusive', EncInv, [Next]_vars PROVE EncInv'
  OBVIOUS
<1>1. CASE UNCHANGED serializer /\ (\A u \in Threads : pc'[u] = pc[u] \/ pc'[u] \notin Busy)
  <2>1. running' = running /\ msg' = msg
    BY <1>1 DEF serializer
  <2>2. ASSUME running', NEW u \in Threads PROVE Encodes(u)'
    <3>1. CASE pc'[u] \notin Busy
      BY <3>1 DEF Encodes, Busy
    <3>2. CASE pc'[u] = pc[u]
      <4>1. Encodes(u)
        BY <2>1, <2>2 DEF EncInv
      <4> QED
        BY <1>1, <3>2, <4>1 DEF serializer, Encodes
    <3> QED
      BY <1>1, <3>1, <3>2
  <2>3. AbortsOnlyTooLong'
    BY <2>1 DEF EncInv, AbortsOnlyTooLong
  <2> QED
    BY <2>2, <2>3 DEF EncInv
<1>2. CASE UNCHANGED vars
  BY <1>1, <1>2 DEF vars, serializer
<1>3. CASE Transmit
  BY <1>1, <1>3 DEF Transmit, serializer
<1>4. ASSUME NEW t \in Threads, Send(t) PROVE EncInv'
  <2>1. CASE ToBytes(t) \/ Write(t) \/ Drain(t) \/ WriteFailed(t) \/ Flush(t)
    <3>1. UNCHANGED serializer
      BY <2>1 DEF ToBytes, Write, Drain, WriteFailed, Flush, serializer
    <3>2. ASSUME NEW u \in Threads PROVE pc'[u] = pc[u] \/ pc'[u] \notin Busy
      BY <2>1 DEF ToBytes, Write, Drain, WriteFailed, Flush, Goto, TypeOK, Busy
    <3> QED
      BY <1>1, <3>1, <3>2
  <2>2. ASSUME /\ running /\ pc'[t] \in Busy /\ \A u \in Threads : u # t => pc'[u] = pc[u]
               /\ running' => Encodes(t)'
               /\ ~running' => Len(Encoding(msg'[t])) > Capacity
        PROVE  EncInv'
    <3>1. ASSUME running', NEW u \in Threads PROVE Encodes(u)'
      <4>1. CASE u = t
        BY <2>2, <3>1, <4>1
      <4>2. CASE u # t
        <5>1. pc'[u] \notin Busy
          BY <2>2, <4>2 DEF Exclusive
        <5> QED
          BY <5>1 DEF Encodes, Busy
      <4> QED
        BY <4>1, <4>2
    <3>2. AbortsOnlyTooLong'
      BY <2>2 DEF AbortsOnlyTooLong
    <3> QED
      BY <3>1, <3>2 DEF EncInv
  <2>3. ASSUME NEW m \in Messages[t], Begin(t, m) PROVE EncInv'
    <3>1. /\ running /\ running' /\ pc'[t] \in Busy
          /\ \A u \in Threads : u # t => pc'[u] = pc[u]
      BY <2>3 DEF Begin, Goto, TypeOK, Busy
    <3>2. Encodes(t)'
      BY <2>3, EncodesBegin
    <3> QED
      BY <2>2, <3>1, <3>2
  <2>4. CASE Member(t)
    <3>1. running /\ pc[t] = "member" /\ pc' = pc
      BY <2>4 DEF Member
    <3>2. pc'[t] \in Busy /\ \A u \in Threads : u # t => pc'[u] = pc[u]
      BY <3>1 DEF Busy
    <3>3. Encodes(t)
      BY <3>1 DEF EncInv
    <3>4. (running' => Encodes(t)') /\ (~running' => Len(Encoding(msg'[t])) > Capacity)
      BY <2>4, <3>3, EncodesMember
    <3> QED
      BY <2>2, <3>1, <3>2, <3>4
  <2>5. CASE End(t)
    <3>1. running /\ pc'[t] \in Busy /\ \A u \in Threads : u # t => pc'[u] = pc[u]
      BY <2>5 DEF End, Goto, TypeOK, Busy
    <3>2. Encodes(t)
      BY <3>1 DEF EncInv
    <3>3. (running' => Encodes(t)') /\ (~running' => Len(Encoding(msg'[t])) > Capacity)
      BY <2>5, <3>2, EncodesEnd
    <3> QED
      BY <2>2, <3>1, <3>3
  <2> QED
    BY <1>4, <2>1, <2>3, <2>4, <2>5 DEF Send
<1> QED
  BY <1>2, <1>3, <1>4 DEF Next

(* Nobody uses the serializer at first. *)
LEMMA EncInit == Init => EncInv
<1> SUFFICES ASSUME Init PROVE EncInv
  OBVIOUS
<1>1. running /\ \A t \in Threads : pc[t] \notin Busy
  BY DEF Init, Busy
<1> QED
  BY <1>1, EncodesNothing DEF EncInv, AbortsOnlyTooLong

(* While one thread at a time uses the serializer, what toBytes returns is  *)
(* the message, whole, and an assertion ends the process only on a message  *)
(* that does not fit.                                                      *)
THEOREM MessagesEncoded == Spec /\ []Exclusive => [](FrameIsMessage /\ AbortsOnlyTooLong)
<1>1. Init => EncInv
  BY EncInit
<1>2. TypeOK /\ Exclusive /\ Exclusive' /\ EncInv /\ [Next]_vars => EncInv'
  BY EncStep
<1>3. EncInv => FrameIsMessage /\ AbortsOnlyTooLong
  BY DEF EncInv, FrameIsMessage, Encodes
<1> QED
  BY <1>1, <1>2, <1>3, PathTypes, PTL DEF Spec

-----------------------------------------------------------------------------
(* One thread at a time sends, from begin() until txd returns.              *)
OneSender == \A s, t \in Threads : pc[s] # "idle" /\ pc[t] # "idle" => s = t

(* Alone in a send is alone in the serializer. *)
LEMMA SenderExcludes == OneSender => Exclusive
  BY DEF OneSender, Exclusive, Busy

(* A piece of the line is the beginning of an encoding. *)
CutAt(w, lo, hi, e) ==
  lo <= hi /\ hi - lo <= Len(e) /\ \A n \in 1 .. (hi - lo) : w[lo + n] = e[n]

(* The line is cut into one piece for each message begun. *)
Cuts(w, c, b) ==
  /\ c \in [0 .. Len(b) -> 0 .. Len(w)] /\ c[0] = 0 /\ c[Len(b)] = Len(w)
  /\ \A i \in 1 .. Len(b) : CutAt(w, c[i - 1], c[i], Encoding(b[i]))

Shorter(x, y) == IF x < y THEN x ELSE y

(* Throwing away the end of the line. *)
LEMMA CutAtShorter ==
  ASSUME NEW w, NEW v, NEW e, NEW l \in Nat, NEW lo \in Nat, NEW hi \in Nat, Len(e) \in Nat,
         CutAt(w, lo, hi, e), \A n \in 1 .. l : v[n] = w[n]
  PROVE  CutAt(v, Shorter(lo, l), Shorter(hi, l), e)
<1>1. lo <= hi /\ hi - lo <= Len(e) /\ \A n \in 1 .. (hi - lo) : w[lo + n] = e[n]
  BY DEF CutAt
<1>2. CASE hi <= l
  <2>1. Shorter(lo, l) = lo /\ Shorter(hi, l) = hi
    BY <1>1, <1>2 DEF Shorter
  <2>2. ASSUME NEW n \in 1 .. (hi - lo) PROVE v[lo + n] = e[n]
    <3>1. lo + n \in 1 .. l
      BY <1>2
    <3> QED
      BY <1>1, <3>1
  <2> QED
    BY <1>1, <2>1, <2>2 DEF CutAt
<1>3. CASE hi > l /\ lo < l
  <2>1. Shorter(lo, l) = lo /\ Shorter(hi, l) = l
    BY <1>3 DEF Shorter
  <2>2. ASSUME NEW n \in 1 .. (l - lo) PROVE v[lo + n] = e[n]
    <3>1. lo + n \in 1 .. l /\ n \in 1 .. (hi - lo)
      BY <1>3
    <3> QED
      BY <1>1, <3>1
  <2>3. lo <= l /\ l - lo <= Len(e)
    BY <1>1, <1>3
  <2> QED
    BY <2>1, <2>2, <2>3 DEF CutAt
<1>4. CASE lo >= l
  <2>1. Shorter(lo, l) = l /\ Shorter(hi, l) = l
    BY <1>1, <1>4 DEF Shorter
  <2>2. l <= l /\ l - l <= Len(e) /\ 1 .. (l - l) = {}
    OBVIOUS
  <2> QED
    BY <2>1, <2>2 DEF CutAt
<1> QED
  BY <1>2, <1>3, <1>4

(* The encoding of one of several messages. *)
LEMMA EncodingLength ==
  ASSUME NEW b \in Seq(Seq(Field)), NEW i \in 1 .. Len(b)
  PROVE  Encoding(b[i]) \in Seq(Cell) /\ Len(Encoding(b[i])) \in Nat
<1>1. b[i] \in Seq(Field)
  OBVIOUS
<1>2. Encoding(b[i]) \in Seq(Cell)
  BY <1>1, EncodingCells
<1> QED
  BY <1>2

(* A line whose end was thrown away is still cut into pieces. *)
LEMMA CutsShorter ==
  ASSUME NEW w, NEW v, NEW c, NEW b \in Seq(Seq(Field)), Cuts(w, c, b),
         Len(w) \in Nat, Len(v) \in Nat, Len(v) <= Len(w), \A n \in 1 .. Len(v) : v[n] = w[n]
  PROVE  \E e : Cuts(v, e, b)
<1> DEFINE e == [i \in 0 .. Len(b) |-> Shorter(c[i], Len(v))]
<1>1. /\ c \in [0 .. Len(b) -> 0 .. Len(w)] /\ c[0] = 0 /\ c[Len(b)] = Len(w)
      /\ Len(b) \in Nat /\ 0 \in 0 .. Len(b) /\ Len(b) \in 0 .. Len(b)
  BY DEF Cuts
<1>2. e \in [0 .. Len(b) -> 0 .. Len(v)]
  <2>1. ASSUME NEW i \in 0 .. Len(b) PROVE Shorter(c[i], Len(v)) \in 0 .. Len(v)
    <3>1. c[i] \in 0 .. Len(w)
      BY <1>1
    <3> QED
      BY <3>1 DEF Shorter
  <2> QED
    BY <2>1
<1>3. e[0] = 0
  <2>1. e[0] = Shorter(0, Len(v))
    BY <1>1
  <2> QED
    BY <2>1 DEF Shorter
<1>4. e[Len(b)] = Len(v)
  <2>1. e[Len(b)] = Shorter(Len(w), Len(v))
    BY <1>1
  <2> QED
    BY <2>1 DEF Shorter
<1>5. ASSUME NEW i \in 1 .. Len(b) PROVE CutAt(v, e[i - 1], e[i], Encoding(b[i]))
  <2>1. i - 1 \in 0 .. Len(b) /\ i \in 0 .. Len(b)
    BY <1>1
  <2>2. e[i - 1] = Shorter(c[i - 1], Len(v)) /\ e[i] = Shorter(c[i], Len(v))
    BY <2>1
  <2>3. c[i - 1] \in Nat /\ c[i] \in Nat
    <3>1. c[i - 1] \in 0 .. Len(w) /\ c[i] \in 0 .. Len(w)
      BY <1>1, <2>1
    <3> QED
      BY <3>1
  <2>4. CutAt(w, c[i - 1], c[i], Encoding(b[i]))
    BY DEF Cuts
  <2>5. Len(Encoding(b[i])) \in Nat
    BY EncodingLength
  <2>6. CutAt(v, Shorter(c[i - 1], Len(v)), Shorter(c[i], Len(v)), Encoding(b[i]))
    BY <2>3, <2>4, <2>5, CutAtShorter
  <2> QED
    BY <2>2, <2>6
<1> HIDE DEF e
<1>6. Cuts(v, e, b)
  BY <1>2, <1>3, <1>4, <1>5 DEF Cuts
<1> QED
  BY <1>6

(* A message begun has put nothing on the line. *)
LEMMA CutsBegun ==
  ASSUME NEW w, NEW c, NEW b \in Seq(Seq(Field)), NEW m \in Seq(Field), Cuts(w, c, b),
         Len(w) \in Nat
  PROVE  \E e : Cuts(w, e, Append(b, m)) /\ e[Len(b)] = Len(w)
<1> DEFINE e == [i \in 0 .. (Len(b) + 1) |-> IF i <= Len(b) THEN c[i] ELSE Len(w)]
<1>1. /\ c \in [0 .. Len(b) -> 0 .. Len(w)] /\ c[0] = 0 /\ c[Len(b)] = Len(w)
      /\ Len(b) \in Nat /\ 0 \in 0 .. Len(b) /\ Len(b) \in 0 .. Len(b)
  BY DEF Cuts
<1>2. PICK a \in Seq(Seq(Field)) :
        /\ a = Append(b, m) /\ Len(a) = Len(b) + 1 /\ a[Len(b) + 1] = m
        /\ \A i \in 1 .. Len(b) : a[i] = b[i]
  <2>1. /\ Append(b, m) \in Seq(Seq(Field)) /\ Len(Append(b, m)) = Len(b) + 1
        /\ Append(b, m)[Len(b) + 1] = m
        /\ \A i \in 1 .. Len(b) : Append(b, m)[i] = b[i]
    OBVIOUS
  <2> QED
    BY <2>1, Zenon
<1>3. e \in [0 .. (Len(b) + 1) -> 0 .. Len(w)]
  BY <1>1
<1>4. /\ \A i \in 0 .. Len(b) : e[i] = c[i]
      /\ e[Len(b) + 1] = Len(w)
  BY <1>1
<1> HIDE DEF e
<1>5. ASSUME NEW i \in 1 .. Len(a) PROVE CutAt(w, e[i - 1], e[i], Encoding(a[i]))
  <2>1. CASE i <= Len(b)
    <3>1. i \in 1 .. Len(b) /\ i - 1 \in 0 .. Len(b) /\ i \in 0 .. Len(b)
      BY <1>1, <2>1
    <3>2. e[i - 1] = c[i - 1] /\ e[i] = c[i] /\ a[i] = b[i]
      BY <1>2, <1>4, <3>1
    <3> QED
      BY <3>1, <3>2 DEF Cuts
  <2>2. CASE i > Len(b)
    <3>1. i = Len(b) + 1 /\ i - 1 = Len(b)
      BY <1>1, <1>2, <2>2
    <3>2. e[i - 1] = Len(w) /\ e[i] = Len(w)
      BY <1>1, <1>4, <3>1
    <3>3. Len(Encoding(a[i])) \in Nat
      BY EncodingLength
    <3>4. Len(w) <= Len(w) /\ Len(w) - Len(w) <= Len(Encoding(a[i])) /\ 1 .. (Len(w) - Len(w)) = {}
      BY <3>3
    <3> QED
      BY <3>2, <3>4 DEF CutAt
  <2> QED
    BY <1>1, <2>1, <2>2
<1>6. Cuts(w, e, a)
  <2>1. e[0] = 0
    BY <1>1, <1>4
  <2> QED
    BY <1>2, <1>3, <1>4, <1>5, <2>1 DEF Cuts
<1>7. e[Len(b)] = Len(w)
  BY <1>1, <1>4
<1> QED
  BY <1>2, <1>6, <1>7

(* Bytes of the last message added to the line. *)
LEMMA CutsWritten ==
  ASSUME NEW w, NEW v, NEW c, NEW b \in Seq(Seq(Field)), Len(b) > 0, Cuts(w, c, b),
         Len(w) \in Nat, Len(v) \in Nat, Len(w) <= Len(v), \A n \in 1 .. Len(w) : v[n] = w[n],
         CutAt(v, c[Len(b) - 1], Len(v), Encoding(b[Len(b)]))
  PROVE  \E e : Cuts(v, e, b) /\ e[Len(b) - 1] = c[Len(b) - 1]
<1> DEFINE e == [i \in 0 .. Len(b) |-> IF i < Len(b) THEN c[i] ELSE Len(v)]
<1>1. /\ c \in [0 .. Len(b) -> 0 .. Len(w)] /\ c[0] = 0
      /\ Len(b) \in Nat /\ 0 \in 0 .. Len(b) /\ Len(b) \in 0 .. Len(b)
      /\ Len(b) - 1 \in 0 .. Len(b)
  BY DEF Cuts
<1>2. e \in [0 .. Len(b) -> 0 .. Len(v)]
  <2>1. ASSUME NEW i \in 0 .. Len(b)
        PROVE  (IF i < Len(b) THEN c[i] ELSE Len(v)) \in 0 .. Len(v)
    <3>1. c[i] \in 0 .. Len(w)
      BY <1>1
    <3> QED
      BY <3>1
  <2> QED
    BY <2>1
<1>3. e[Len(b)] = Len(v) /\ \A i \in 0 .. (Len(b) - 1) : e[i] = c[i]
  BY <1>1
<1> HIDE DEF e
<1>4. ASSUME NEW i \in 1 .. Len(b) PROVE CutAt(v, e[i - 1], e[i], Encoding(b[i]))
  <2>1. i - 1 \in 0 .. (Len(b) - 1) /\ i - 1 \in 0 .. Len(b) /\ i \in 0 .. Len(b)
    BY <1>1
  <2>2. CASE i = Len(b)
    BY <1>3, <2>1, <2>2
  <2>3. CASE i # Len(b)
    <3>1. i \in 0 .. (Len(b) - 1)
      BY <1>1, <2>3
    <3>2. CutAt(w, c[i - 1], c[i], Encoding(b[i]))
      BY DEF Cuts
    <3>3. c[i - 1] \in 0 .. Len(w) /\ c[i] \in 0 .. Len(w)
      BY <1>1, <2>1
    <3>4. CutAt(v, c[i - 1], c[i], Encoding(b[i]))
      <4>1. ASSUME NEW n \in 1 .. (c[i] - c[i - 1]) PROVE c[i - 1] + n \in 1 .. Len(w)
        BY <3>3, SMTT(30)
      <4>2. \A n \in 1 .. (c[i] - c[i - 1]) : v[c[i - 1] + n] = Encoding(b[i])[n]
        BY <3>2, <4>1 DEF CutAt
      <4> QED
        BY <3>2, <4>2 DEF CutAt
    <3> QED
      BY <1>3, <2>1, <3>1, <3>4
  <2> QED
    BY <2>2, <2>3
<1>5. Cuts(v, e, b)
  <2>1. e[0] = 0
    BY <1>1, <1>3
  <2> QED
    BY <1>2, <1>3, <1>4, <2>1 DEF Cuts
<1>6. e[Len(b) - 1] = c[Len(b) - 1]
  <2>1. Len(b) - 1 \in 0 .. (Len(b) - 1)
    BY <1>1
  <2> QED
    BY <1>3, <2>1
<1> QED
  BY <1>5, <1>6

(* What has been written, sent or not. *)
Line == wire \o queue

(* What a thread still has to write continues what is on the line.          *)
RestOf(o, d, e) == Len(o) + d = Len(e) /\ \A n \in 1 .. Len(o) : o[n] = e[d + n]

(* A sending thread sends the message begun last, of which nothing is on    *)
(* the line until txd is called.                                           *)
Sends(t, c) ==
  /\ pc[t] # "idle" => Len(begun) > 0 /\ msg[t] = begun[Len(begun)]
  /\ pc[t] \in Busy => c[Len(begun) - 1] = Len(Line)
  /\ pc[t] \in {"write", "drain"} =>
       RestOf(out[t], Len(Line) - c[Len(begun) - 1], Encoding(msg[t]))

WireInv == \E c : Cuts(Line, c, begun) /\ \A t \in Threads : Sends(t, c)

(* What has been written is cells. *)
LEMMA LineType == ASSUME TypeOK PROVE Line \in Seq(Cell) /\ Len(Line) \in Nat
<1>1. wire \in Seq(Cell) /\ queue \in Seq(Cell)
  BY DEF TypeOK
<1>2. wire \o queue \in Seq(Cell)
  BY <1>1
<1>3. Len(wire \o queue) \in Nat
  BY <1>2
<1> QED
  BY <1>2, <1>3 DEF Line

(* Nothing is said of an idle thread. *)
LEMMA SendsNothing == ASSUME NEW t \in Threads, NEW c, pc[t] = "idle" PROVE Sends(t, c)
  BY DEF Sends, Busy

(* Steps of a thread with the other threads idle. *)
LEMMA SendsAlone ==
  ASSUME NEW t \in Threads, NEW c, Cuts(Line', c, begun'), Sends(t, c)',
         \A u \in Threads : u # t => pc'[u] = "idle"
  PROVE  WireInv'
<1>1. ASSUME NEW u \in Threads PROVE Sends(u, c)'
  <2>1. CASE u = t
    BY <2>1
  <2>2. CASE u # t
    <3>1. pc'[u] = "idle"
      BY <2>2
    <3> QED
      BY <3>1 DEF Sends, Busy
  <2> QED
    BY <2>1, <2>2
<1> QED
  BY <1>1 DEF WireInv

(* A message begun adds an empty piece. *)
LEMMA WireBegin ==
  ASSUME TypeOK, WireInv, NEW t \in Threads, NEW m \in Messages[t], Begin(t, m),
         \A u \in Threads : u # t => pc'[u] = "idle"
  PROVE  WireInv'
<1>1. m \in Seq(Field) /\ begun \in Seq(Seq(Field)) /\ begun' = Append(begun, m) /\ Line' = Line
      /\ pc'[t] = "member" /\ msg'[t] = m
  BY MessagesAssumption DEF TypeOK, Begin, Line, Goto
<1>2. PICK c : Cuts(Line, c, begun)
  BY DEF WireInv
<1>3. PICK e : Cuts(Line, e, begun') /\ e[Len(begun)] = Len(Line)
  BY <1>1, <1>2, LineType, CutsBegun
<1>4. Len(begun') - 1 = Len(begun) /\ Len(begun') > 0 /\ begun'[Len(begun')] = m
  BY <1>1
<1>5. Sends(t, e)'
  BY <1>1, <1>3, <1>4 DEF Sends
<1> QED
  BY <1>1, <1>3, <1>5, SendsAlone

(* Steps that leave the line, and the messages, alone. *)
LEMMA WireSame ==
  ASSUME WireInv, NEW t \in Threads, Line' = Line, begun' = begun, msg' = msg,
         \A u \in Threads : u # t => pc'[u] = "idle",
         \A c : Cuts(Line, c, begun) /\ Sends(t, c) => Sends(t, c)'
  PROVE  WireInv'
<1>1. PICK c : Cuts(Line, c, begun) /\ Sends(t, c)
  BY DEF WireInv
<1>2. Sends(t, c)' /\ Cuts(Line', c, begun')
  BY <1>1
<1> QED
  BY <1>2, SendsAlone

(* Encoding puts nothing on the line. *)
LEMMA WireEncode ==
  ASSUME WireInv, NEW t \in Threads, Member(t) \/ End(t), TypeOK,
         \A u \in Threads : u # t => pc'[u] = "idle"
  PROVE  WireInv'
<1>1. /\ Line' = Line /\ begun' = begun /\ msg' = msg /\ pc[t] = "member"
      /\ pc'[t] \in Busy
  BY DEF Member, End, Goto, Line, TypeOK, Busy
<1>2. ASSUME NEW c, Sends(t, c) PROVE Sends(t, c)'
  BY <1>1, <1>2 DEF Sends, Busy
<1> QED
  BY <1>1, <1>2, WireSame

(* All of the encoding is still to be written. *)
LEMMA WireToBytes ==
  ASSUME WireInv, NEW t \in Threads, ToBytes(t), TypeOK, EncInv,
         \A u \in Threads : u # t => pc'[u] = "idle"
  PROVE  WireInv'
<1>1. /\ Line' = Line /\ begun' = begun /\ msg' = msg /\ pc[t] = "encoded" /\ running
      /\ pc'[t] = "write" /\ out'[t] = SubSeq(buffer, 1, size)
  BY DEF ToBytes, Goto, Line, TypeOK
<1>2. out'[t] = Encoding(msg[t])
  BY <1>1 DEF EncInv, Encodes
<1>3. Len(Encoding(msg[t])) \in Nat
  <2>1. Encoding(msg[t]) \in Seq(Cell)
    BY ThreadTypes, EncodingCells
  <2> QED
    BY <2>1
<1>4. ASSUME NEW c, Sends(t, c) PROVE Sends(t, c)'
  <2>1. c[Len(begun) - 1] = Len(Line) /\ Len(begun) > 0 /\ msg[t] = begun[Len(begun)]
    BY <1>1, <1>4 DEF Sends, Busy
  <2>2. Len(Line) - Len(Line) = 0
    BY LineType
  <2>3. RestOf(Encoding(msg[t]), 0, Encoding(msg[t]))
    BY <1>3 DEF RestOf
  <2> QED
    BY <1>1, <1>2, <2>1, <2>2, <2>3 DEF Sends, Busy
<1> QED
  BY <1>1, <1>4, WireSame

(* Draining goes on as before; a failed write leaves what is on the line. *)
LEMMA WireIdle ==
  ASSUME WireInv, NEW t \in Threads, Drain(t) \/ WriteFailed(t), TypeOK,
         \A u \in Threads : u # t => pc'[u] = "idle"
  PROVE  WireInv'
<1>1. Line' = Line /\ begun' = begun /\ msg' = msg
  BY DEF Drain, WriteFailed, Line, serializer
<1>2. ASSUME NEW c, Sends(t, c) PROVE Sends(t, c)'
  <2>1. CASE Drain(t)
    <3>1. pc[t] = "drain" /\ pc'[t] = "write" /\ out' = out
      BY <2>1 DEF Drain, Goto, TypeOK
    <3> QED
      BY <1>1, <1>2, <3>1 DEF Sends, Busy
  <2>2. CASE WriteFailed(t)
    <3>1. pc'[t] = "idle"
      BY <2>2 DEF WriteFailed, Goto, TypeOK
    <3> QED
      BY <3>1 DEF Sends, Busy
  <2> QED
    BY <2>1, <2>2
<1> QED
  BY <1>1, <1>2, WireSame

(* tcflush throws away the end of the line, and the send is over. *)
LEMMA WireFlush ==
  ASSUME WireInv, NEW t \in Threads, Flush(t), TypeOK, TypeOK',
         \A u \in Threads : u # t => pc'[u] = "idle"
  PROVE  WireInv'
<1>1. PICK c : Cuts(Line, c, begun)
  BY DEF WireInv
<1>2. pc'[t] = "idle" /\ begun' = begun /\ begun \in Seq(Seq(Field))
      /\ (queue' = <<>> \/ queue' = queue) /\ wire' = wire
  BY DEF Flush, Goto, TypeOK, serializer
<1>3. PICK a \in Seq(Cell), b \in Seq(Cell), d \in Seq(Cell) : a = wire /\ b = queue /\ d = queue'
  BY DEF TypeOK
<1>4. /\ Len(a \o d) <= Len(a \o b) /\ Len(a \o d) \in Nat /\ Len(a \o b) \in Nat
      /\ \A n \in 1 .. Len(a \o d) : (a \o d)[n] = (a \o b)[n]
  <2>1. CASE d = <<>>
    BY <2>1
  <2>2. CASE d = b
    <3>1. a \o d = a \o b /\ Len(a \o b) \in Nat
      BY <2>2
    <3> QED
      BY <3>1
  <2> QED
    BY <1>2, <1>3, <2>1, <2>2
<1>5. Line = a \o b /\ Line' = a \o d
  BY <1>2, <1>3 DEF Line
<1>6. PICK e : Cuts(Line', e, begun)
  BY <1>1, <1>2, <1>4, <1>5, CutsShorter
<1>7. Sends(t, e)'
  BY <1>2 DEF Sends, Busy
<1> QED
  BY <1>2, <1>6, <1>7, SendsAlone

(* v is w and the first n elements of o; r is what remains of o. *)
Grown(v, w, o, n) ==
  /\ Len(v) = Len(w) + n
  /\ \A k \in 1 .. Len(w) : v[k] = w[k]
  /\ \A k \in 1 .. n : v[Len(w) + k] = o[k]
Remains(r, o, n) ==
  /\ Len(r) = Len(o) - n
  /\ \A k \in 1 .. (Len(o) - n) : r[k] = o[n + k]

(* A sequence and the beginning of another. *)
LEMMA GrownByPart ==
  ASSUME NEW w \in Seq(Cell), NEW o \in Seq(Cell), NEW n \in 0 .. Len(o)
  PROVE  Grown(w \o SubSeq(o, 1, n), w, o, n)
<1>1. PICK a \in Seq(Cell) :
        a = SubSeq(o, 1, n) /\ Len(a) = n /\ \A k \in 1 .. n : a[k] = o[k]
  <2>1. SubSeq(o, 1, n) \in Seq(Cell) /\ Len(SubSeq(o, 1, n)) = n
    BY PartOf
  <2>2. \A k \in 1 .. n : SubSeq(o, 1, n)[k] = o[k]
    OBVIOUS
  <2> QED
    BY <2>1, <2>2, Zenon
<1>2. /\ Len(w \o a) = Len(w) + Len(a)
      /\ \A k \in 1 .. Len(w) : (w \o a)[k] = w[k]
      /\ \A k \in 1 .. Len(a) : (w \o a)[Len(w) + k] = a[k]
  OBVIOUS
<1>3. Grown(w \o a, w, o, n)
  BY <1>1, <1>2, Zenon DEF Grown
<1> QED
  BY <1>1, <1>3, Zenon

(* The rest of a sequence. *)
LEMMA RemainsOfPart ==
  ASSUME NEW o \in Seq(Cell), NEW n \in 0 .. Len(o)
  PROVE  Remains(SubSeq(o, n + 1, Len(o)), o, n)
<1>1. n + 1 \in Nat \ {0} /\ Len(o) \in 0 .. Len(o)
  OBVIOUS
<1>2. Len(SubSeq(o, n + 1, Len(o))) = IF n + 1 <= Len(o) THEN Len(o) - (n + 1) + 1 ELSE 0
  BY <1>1, PartOf
<1>3. Len(SubSeq(o, n + 1, Len(o))) = Len(o) - n
  BY <1>2
<1>4. \A k \in 1 .. (Len(o) - n) : SubSeq(o, n + 1, Len(o))[k] = o[n + k]
  OBVIOUS
<1> QED
  BY <1>3, <1>4, Zenon DEF Remains

(* A cut that goes on with the beginning of the rest. *)
LEMMA CutGoesOn ==
  ASSUME NEW w, NEW o, NEW e, NEW v, NEW r, NEW n \in Nat, NEW lo \in Nat,
         Len(w) \in Nat, Len(o) \in Nat, Len(e) \in Nat, lo <= Len(w), n <= Len(o),
         Grown(v, w, o, n), Remains(r, o, n),
         CutAt(w, lo, Len(w), e), RestOf(o, Len(w) - lo, e)
  PROVE  CutAt(v, lo, Len(v), e) /\ RestOf(r, Len(v) - lo, e)
<1>1. /\ Len(v) = Len(w) + n /\ Len(r) = Len(o) - n
      /\ Len(o) + (Len(w) - lo) = Len(e)
  BY DEF Grown, Remains, RestOf
<1>2. /\ \A k \in 1 .. Len(w) : v[k] = w[k]
      /\ \A k \in 1 .. n : v[Len(w) + k] = o[k]
      /\ \A k \in 1 .. (Len(o) - n) : r[k] = o[n + k]
      /\ \A k \in 1 .. Len(o) : o[k] = e[(Len(w) - lo) + k]
      /\ \A k \in 1 .. (Len(w) - lo) : w[lo + k] = e[k]
  BY DEF Grown, Remains, RestOf, CutAt
<1>3. CutAt(v, lo, Len(v), e)
  <2>1. lo <= Len(v) /\ Len(v) - lo <= Len(e) /\ Len(v) - lo = (Len(w) - lo) + n
    BY <1>1
  <2>2. ASSUME NEW k \in 1 .. (Len(v) - lo) PROVE v[lo + k] = e[k]
    <3>1. CASE k <= Len(w) - lo
      <4>1. k \in 1 .. (Len(w) - lo) /\ lo + k \in 1 .. Len(w)
        BY <2>1, <3>1
      <4>2. v[lo + k] = w[lo + k] /\ w[lo + k] = e[k]
        BY <1>2, <4>1, Zenon
      <4> QED
        BY <4>2
    <3>2. CASE k > Len(w) - lo
      <4> DEFINE j == k - (Len(w) - lo)
      <4>1. /\ j \in 1 .. n /\ j \in 1 .. Len(o)
            /\ Len(w) + j = lo + k /\ (Len(w) - lo) + j = k
        BY <2>1, <3>2
      <4> HIDE DEF j
      <4>2. v[Len(w) + j] = o[j] /\ o[j] = e[(Len(w) - lo) + j]
        BY <1>2, <4>1, Zenon
      <4> QED
        BY <4>1, <4>2, Zenon
    <3> QED
      BY <1>1, <3>1, <3>2
  <2> QED
    BY <2>1, <2>2, Zenon DEF CutAt
<1>4. RestOf(r, Len(v) - lo, e)
  <2>1. Len(r) + (Len(v) - lo) = Len(e)
    BY <1>1
  <2>2. ASSUME NEW k \in 1 .. Len(r) PROVE r[k] = e[(Len(v) - lo) + k]
    <3>1. /\ k \in 1 .. (Len(o) - n) /\ n + k \in 1 .. Len(o)
          /\ (Len(w) - lo) + (n + k) = (Len(v) - lo) + k
      BY <1>1
    <3>2. r[k] = o[n + k] /\ o[n + k] = e[(Len(w) - lo) + (n + k)]
      BY <1>2, <3>1, Zenon
    <3> QED
      BY <3>1, <3>2, Zenon
  <2> QED
    BY <2>1, <2>2, Zenon DEF RestOf
<1> QED
  BY <1>3, <1>4

(* write() adds the beginning of the rest to the last piece. *)
LEMMA WireWrite ==
  ASSUME WireInv, NEW t \in Threads, Write(t), TypeOK, TypeOK',
         \A u \in Threads : u # t => pc'[u] = "idle"
  PROVE  WireInv'
<1>1. PICK c : Cuts(Line, c, begun) /\ Sends(t, c)
  BY DEF WireInv
<1>2. PICK n \in 0 .. Len(out[t]) :
        /\ queue' = queue \o SubSeq(out[t], 1, n)
        /\ out'[t] = SubSeq(out[t], n + 1, Len(out[t]))
        /\ pc'[t] = IF n = Len(out[t]) THEN "flush" ELSE "drain"
  BY DEF Write, Goto, TypeOK
<1>3. pc[t] = "write" /\ wire' = wire /\ begun' = begun /\ msg' = msg
  BY DEF Write, serializer
<1>4. /\ Len(begun) > 0 /\ msg[t] = begun[Len(begun)] /\ begun \in Seq(Seq(Field))
      /\ RestOf(out[t], Len(Line) - c[Len(begun) - 1], Encoding(msg[t]))
  BY <1>1, <1>3 DEF Sends, TypeOK
<1>5. Line' = Line \o SubSeq(out[t], 1, n)
  <2>1. PICK a \in Seq(Cell), b \in Seq(Cell), d \in Seq(Cell) :
          a = wire /\ b = queue /\ d = SubSeq(out[t], 1, n)
    <3>1. SubSeq(out[t], 1, n) \in Seq(Cell)
      BY ThreadTypes, PartOf
    <3> QED
      BY <3>1 DEF TypeOK
  <2>2. a \o (b \o d) = (a \o b) \o d
    BY ConcatAssociative, SMTT(30)
  <2> QED
    BY <1>2, <1>3, <2>1, <2>2 DEF Line
<1>6. PICK lo \in 0 .. Len(Line) : lo = c[Len(begun) - 1] /\ CutAt(Line, lo, Len(Line), Encoding(msg[t]))
  <2>1. Len(begun) - 1 \in 0 .. Len(begun) /\ Len(begun) \in 1 .. Len(begun)
    BY <1>4
  <2>2. c[Len(begun) - 1] \in 0 .. Len(Line) /\ c[Len(begun)] = Len(Line)
    BY <1>1, <2>1 DEF Cuts
  <2>3. CutAt(Line, c[Len(begun) - 1], c[Len(begun)], Encoding(begun[Len(begun)]))
    BY <1>1, <2>1 DEF Cuts
  <2> QED
    BY <1>4, <2>2, <2>3
<1>7. /\ Line \in Seq(Cell) /\ out[t] \in Seq(Cell) /\ Encoding(msg[t]) \in Seq(Cell)
      /\ Len(Line) \in Nat
  BY LineType, ThreadTypes, EncodingCells
<1>8. PICK w, v, o, r, b :
        w = Line /\ v = Line' /\ o = out[t] /\ r = out'[t] /\ b = begun
  OBVIOUS
<1>9. /\ Grown(v, w, o, n) /\ Remains(r, o, n)
      /\ Len(w) \in Nat /\ Len(o) \in Nat /\ n \in Nat /\ n <= Len(o)
  <2>1. w \in Seq(Cell) /\ o \in Seq(Cell) /\ n \in 0 .. Len(o)
    BY <1>7, <1>8
  <2>2. v = w \o SubSeq(o, 1, n) /\ r = SubSeq(o, n + 1, Len(o))
    BY <1>2, <1>5, <1>8
  <2>3. Grown(v, w, o, n) /\ Remains(r, o, n)
    BY <2>1, <2>2, GrownByPart, RemainsOfPart
  <2>4. Len(w) \in Nat /\ Len(o) \in Nat
    BY <2>1
  <2>5. n \in Nat /\ n <= Len(o)
    BY <2>1, <2>4
  <2> QED
    BY <2>3, <2>4, <2>5
<1>10. CutAt(v, lo, Len(v), Encoding(msg[t])) /\ RestOf(r, Len(v) - lo, Encoding(msg[t]))
  <2>1. Len(Encoding(msg[t])) \in Nat /\ lo \in Nat /\ lo <= Len(w)
    BY <1>7, <1>8
  <2>2. CutAt(w, lo, Len(w), Encoding(msg[t])) /\ RestOf(o, Len(w) - lo, Encoding(msg[t]))
    BY <1>4, <1>6, <1>8
  <2> QED
    BY <1>9, <2>1, <2>2, CutGoesOn
<1>11. PICK e : Cuts(v, e, b) /\ e[Len(b) - 1] = lo
  <2>1. Len(v) \in Nat /\ Len(w) <= Len(v) /\ \A k \in 1 .. Len(w) : v[k] = w[k]
    BY <1>9 DEF Grown
  <2>2. /\ b \in Seq(Seq(Field)) /\ Len(b) > 0 /\ Cuts(w, c, b) /\ c[Len(b) - 1] = lo
        /\ Encoding(msg[t]) = Encoding(b[Len(b)])
    BY <1>1, <1>4, <1>6, <1>8
  <2>3. CutAt(v, c[Len(b) - 1], Len(v), Encoding(b[Len(b)]))
    BY <1>10, <2>2
  <2>4. \E e : Cuts(v, e, b) /\ e[Len(b) - 1] = c[Len(b) - 1]
    BY <1>9, <2>1, <2>2, <2>3, CutsWritten, SMTT(30)
  <2> QED
    BY <2>2, <2>4
<1>12. Sends(t, e)'
  <2>1. pc'[t] \notin Busy
    BY <1>2 DEF Busy
  <2>2. RestOf(out'[t], Len(Line') - e[Len(begun) - 1], Encoding(msg[t]))
    BY <1>8, <1>10, <1>11
  <2> QED
    BY <1>3, <1>4, <2>1, <2>2 DEF Sends
<1>13. Cuts(Line', e, begun')
  BY <1>3, <1>8, <1>11
<1> QED
  BY <1>12, <1>13, SendsAlone

(* Sending from the queue moves a cell within the line. *)
LEMMA WireTransmit ==
  ASSUME WireInv, Transmit, TypeOK
  PROVE  WireInv'
<1>1. PICK w \in Seq(Cell), q \in Seq(Cell) : w = wire /\ q = queue /\ q # <<>>
  BY DEF TypeOK, Transmit
<1>2. Append(w, Head(q)) \o Tail(q) = w \o q
  <2>1. q = <<Head(q)>> \o Tail(q) /\ <<Head(q)>> \in Seq(Cell) /\ Tail(q) \in Seq(Cell)
    BY <1>1
  <2>2. Append(w, Head(q)) = w \o <<Head(q)>>
    BY <1>1
  <2>3. (w \o <<Head(q)>>) \o Tail(q) = w \o (<<Head(q)>> \o Tail(q))
    BY <2>1, ConcatAssociative
  <2> QED
    BY <2>1, <2>2, <2>3
<1>3. Line' = Line
  BY <1>1, <1>2 DEF Transmit, Line
<1>4. pc' = pc /\ msg' = msg /\ begun' = begun /\ out' = out
  BY DEF Transmit, serializer
<1> QED
  BY <1>3, <1>4 DEF WireInv, Sends

(* Every step keeps the line cut into leading parts. *)
LEMMA WireStep ==
  TypeOK /\ TypeOK' /\ OneSender /\ OneSender' /\ EncInv /\ WireInv /\ [Next]_vars => WireInv'
<1> SUFFICES ASSUME TypeOK, TypeOK', OneSender, OneSender', EncInv, WireInv, [Next]_vars
             PROVE  WireInv'
  OBVIOUS
<1>1. CASE UNCHANGED vars
  BY <1>1 DEF vars, WireInv, Sends, Line
<1>2. CASE Transmit
  BY <1>2, WireTransmit
<1>3. ASSUME NEW t \in Threads, Send(t) PROVE WireInv'
  <2>1. \A u \in Threads : u # t => pc'[u] = pc[u]
    BY <1>3 DEF Send, Begin, Member, End, ToBytes, Write, Drain, WriteFailed, Flush, Goto, TypeOK
  <2>2. ASSUME NEW m \in Messages[t], Begin(t, m) PROVE WireInv'
    <3>1. pc'[t] # "idle"
      BY <2>2 DEF Begin, Goto, TypeOK
    <3>2. \A u \in Threads : u # t => pc'[u] = "idle"
      BY <3>1 DEF OneSender
    <3> QED
      BY <2>2, <3>2, WireBegin
  <2>3. ASSUME ~(\E m \in Messages[t] : Begin(t, m)) PROVE WireInv'
    <3>1. pc[t] # "idle"
      BY <1>3, <2>3 DEF Send, Member, End, ToBytes, Write, Drain, WriteFailed, Flush
    <3>2. \A u \in Threads : u # t => pc'[u] = "idle"
      BY <2>1, <3>1 DEF OneSender
    <3> QED
      BY <1>3, <2>3, <3>2, WireEncode, WireToBytes, WireWrite, WireIdle, WireFlush DEF Send
  <2> QED
    BY <2>2, <2>3
<1> QED
  BY <1>1, <1>2, <1>3 DEF Next

(* Nothing was begun, nothing is on the line. *)
LEMMA WireInit == Init => WireInv
<1> SUFFICES ASSUME Init PROVE WireInv
  OBVIOUS
<1> DEFINE c == [i \in 0 .. 0 |-> 0]
<1>1. Line = <<>> /\ begun = <<>> /\ Len(begun) = 0 /\ Len(Line) = 0
  BY DEF Init, Line
<1>2. c \in [0 .. 0 -> 0 .. 0] /\ c[0] = 0 /\ 1 .. 0 = {}
  OBVIOUS
<1> HIDE DEF c
<1>3. Cuts(Line, c, begun)
  BY <1>1, <1>2 DEF Cuts
<1>4. ASSUME NEW t \in Threads PROVE Sends(t, c)
  <2>1. pc[t] = "idle"
    BY DEF Init
  <2> QED
    BY <2>1, SendsNothing
<1> QED
  BY <1>3, <1>4 DEF WireInv

(* A piece of the line that CutAt describes is a cut of the encoding. *)
LEMMA PieceIsCut ==
  ASSUME NEW w \in Seq(Cell), NEW e \in Seq(Cell), NEW lo \in 0 .. Len(w), NEW hi \in 0 .. Len(w),
         CutAt(w, lo, hi, e)
  PROVE  IsCutOf(SubSeq(w, lo + 1, hi), e)
<1>1. lo <= hi /\ hi - lo <= Len(e) /\ \A n \in 1 .. (hi - lo) : w[lo + n] = e[n]
  BY DEF CutAt
<1>2. hi - lo \in 0 .. Len(e)
  BY <1>1
<1>3. SubSeq(w, lo + 1, hi) = SubSeq(e, 1, hi - lo)
  <2>1. SubSeq(w, lo + 1, hi) = [n \in 1 .. (hi - lo) |-> w[lo + n]]
    <3>1. (lo + 1) - 1 = lo /\ hi - (lo + 1) + 1 = hi - lo
      OBVIOUS
    <3>2. SubSeq(w, lo + 1, hi) = [n \in 1 .. (hi - (lo + 1) + 1) |-> w[(lo + 1) + n - 1]]
      OBVIOUS
    <3> QED
      BY <3>1, <3>2
  <2> QED
    BY <1>1, <1>2, <2>1
<1> QED
  BY <1>2, <1>3 DEF IsCutOf

(* What was sent is the beginning of what was written. *)
LEMMA LineGivesLeadingParts == ASSUME TypeOK, WireInv PROVE WireCarriesLeadingParts
<1>1. PICK c : Cuts(Line, c, begun)
  BY DEF WireInv
<1>2. PICK w, b : w = wire /\ b = begun /\ w \in Seq(Cell) /\ b \in Seq(Seq(Field))
  BY DEF TypeOK
<1>3. Len(w) \in Nat /\ Len(Line) \in Nat /\ Len(w) <= Len(Line) /\ \A n \in 1 .. Len(w) : Line[n] = w[n]
  <2>1. PICK q \in Seq(Cell) : q = queue
    BY DEF TypeOK
  <2>2. /\ Len(w) \in Nat /\ Len(w \o q) \in Nat /\ Len(w) <= Len(w \o q)
        /\ \A n \in 1 .. Len(w) : (w \o q)[n] = w[n]
    BY <1>2
  <2> QED
    BY <1>2, <2>1, <2>2 DEF Line
<1>4. PICK e : Cuts(w, e, b)
  <2>1. \A n \in 1 .. Len(w) : w[n] = Line[n]
    BY <1>3
  <2>2. Cuts(Line, c, b)
    BY <1>1, <1>2
  <2> QED
    BY <1>2, <1>3, <2>1, <2>2, CutsShorter
<1>5. /\ e \in [0 .. Len(b) -> 0 .. Len(w)] /\ e[0] = 0 /\ e[Len(b)] = Len(w) /\ Len(b) \in Nat
      /\ \A i \in 1 .. Len(b) : CutAt(w, e[i - 1], e[i], Encoding(b[i]))
  BY <1>2, <1>4 DEF Cuts
<1>6. CASE begun = <<>>
  <2>1. Len(b) = 0
    BY <1>2, <1>6
  <2>2. Len(w) = 0
    BY <1>5, <2>1
  <2>3. w = <<>>
    BY <1>2, <2>2
  <2> QED
    BY <1>2, <1>6, <2>3 DEF WireCarriesLeadingParts
<1>7. CASE begun # <<>>
  <2> DEFINE d == [i \in 1 .. Len(b) |-> e[i]]
  <2>1. Len(b) > 0 /\ Len(b) \in 1 .. Len(b) /\ DOMAIN b = 1 .. Len(b)
    BY <1>2, <1>5, <1>7
  <2>2. d \in [1 .. Len(b) -> 0 .. Len(w)] /\ \A i \in 1 .. Len(b) : d[i] = e[i]
    <3>1. ASSUME NEW i \in 1 .. Len(b) PROVE e[i] \in 0 .. Len(w)
      BY <1>5
    <3> QED
      BY <3>1
  <2> HIDE DEF d
  <2>3. d \in Pieces(w, Len(b))
    <3>1. ASSUME NEW i \in 1 .. Len(b) - 1 PROVE d[i] <= d[i + 1]
      <4>1. i \in 1 .. Len(b) /\ i + 1 \in 1 .. Len(b) /\ (i + 1) - 1 = i
        BY <1>5
      <4>2. CutAt(w, e[i], e[i + 1], Encoding(b[i + 1]))
        BY <1>5, <4>1
      <4>3. e[i] <= e[i + 1]
        BY <4>2 DEF CutAt
      <4> QED
        BY <2>2, <4>1, <4>3
    <3>2. d[Len(b)] = Len(w)
      BY <1>5, <2>1, <2>2
    <3> QED
      BY <2>2, <3>1, <3>2 DEF Pieces
  <2>4. ASSUME NEW i \in DOMAIN b PROVE IsCutOf(Piece(w, d, i), Encoding(b[i]))
    <3>1. /\ i \in 1 .. Len(b) /\ i \in 0 .. Len(b) /\ i - 1 \in 0 .. Len(b)
          /\ (i # 1 => i - 1 \in 1 .. Len(b))
      BY <1>5, <2>1
    <3>2. (IF i = 1 THEN 0 ELSE d[i - 1]) = e[i - 1] /\ d[i] = e[i]
      <4>1. CASE i = 1
        <5>1. i - 1 = 0
          BY <4>1
        <5> QED
          BY <1>5, <2>2, <3>1, <4>1, <5>1
      <4>2. CASE i # 1
        BY <2>2, <3>1, <4>2
      <4> QED
        BY <4>1, <4>2
    <3>3. Piece(w, d, i) = SubSeq(w, e[i - 1] + 1, e[i])
      BY <3>2 DEF Piece
    <3>4. Encoding(b[i]) \in Seq(Cell) /\ e[i - 1] \in 0 .. Len(w) /\ e[i] \in 0 .. Len(w)
      BY <1>2, <1>5, <3>1, EncodingLength
    <3>5. CutAt(w, e[i - 1], e[i], Encoding(b[i]))
      BY <1>5, <3>1
    <3> QED
      BY <1>2, <3>3, <3>4, <3>5, PieceIsCut
  <2> QED
    BY <1>2, <1>7, <2>3, <2>4 DEF WireCarriesLeadingParts
<1> QED
  BY <1>6, <1>7

(* The line carries, for each message begun and in that order, its         *)
(* encoding or a leading part of it, as long as one thread at a time is in *)
(* a send: what txd's retries (serial.cpp:177-196) may never repeat or     *)
(* skip, for every buffer, every length of message and every way write()   *)
(* takes the bytes.                                                        *)
THEOREM LineCarriesLeadingParts == Spec /\ []OneSender => []WireCarriesLeadingParts
<1>1. Init => EncInv /\ WireInv
  BY EncInit, WireInit
<1>2. TypeOK /\ TypeOK' /\ OneSender /\ OneSender' /\ EncInv /\ WireInv /\ [Next]_vars
        => EncInv' /\ WireInv'
  <2>1. OneSender => Exclusive
    BY SenderExcludes
  <2>2. OneSender' => Exclusive'
    BY DEF OneSender, Exclusive, Busy
  <2> QED
    BY <2>1, <2>2, EncStep, WireStep
<1>3. TypeOK /\ WireInv => WireCarriesLeadingParts
  BY LineGivesLeadingParts
<1>4. Spec => []TypeOK
  BY PathTypes
<1> QED
  BY <1>1, <1>2, <1>3, <1>4, PTL DEF Spec

-----------------------------------------------------------------------------
(* The receiving end.  What a reader has after each member. *)
Worth == ((Values \union Kinds) \union {"unset"}) \X Seq(Cell)
ReadState == [pos : Nat \ {0}, err : BOOLEAN, wild : BOOLEAN, values : Seq(Worth)]

(* A member is assigned a value and its payload, or nothing. *)
LEMMA TakenType ==
  ASSUME NEW bs \in Seq(Cell), NEW st \in ReadState, NEW kind
  PROVE  Taken(bs, st, kind) \in Worth
<1>1. Unset \in Worth
  <2>1. <<>> \in Seq(Cell)
    OBVIOUS
  <2> QED
    BY <2>1 DEF Unset, Worth
<1>2. ASSUME ItemAt(bs, st.pos, kind)
      PROVE  <<bs[st.pos].val, Payload(bs, st.pos)>> \in Worth
  <2>1. st.pos \in Nat \ {0} /\ st.pos <= Len(bs) /\ Len(bs) \in Nat
    BY <1>2 DEF ItemAt, StartAt, ReadState
  <2>2. bs[st.pos] \in Cell
    BY <2>1
  <2>3. bs[st.pos].val \in Values \union Kinds /\ bs[st.pos].n \in Nat
    BY <2>2 DEF Cell
  <2>4. st.pos + bs[st.pos].n <= Len(bs)
    BY <1>2 DEF ItemAt
  <2>5. PICK p \in Nat \ {0}, q \in 0 .. Len(bs) : p = st.pos + 1 /\ q = st.pos + bs[st.pos].n
    BY <2>1, <2>3, <2>4
  <2>6. SubSeq(bs, p, q) \in Seq(Cell)
    BY PartOf
  <2>7. Payload(bs, st.pos) \in Seq(Cell)
    BY <2>5, <2>6 DEF Payload
  <2> QED
    BY <2>3, <2>7 DEF Worth
<1> QED
  BY <1>1, <1>2 DEF Taken

(* A member moves the reader on. *)
LEMMA ReadMemberType ==
  ASSUME NEW bs \in Seq(Cell), NEW st \in ReadState, NEW kind
  PROVE  ReadMember(bs, st, kind) \in ReadState
<1>1. st.pos \in Nat \ {0} /\ st.values \in Seq(Worth) /\ Len(bs) \in Nat
  BY DEF ReadState
<1>2. Append(st.values, Taken(bs, st, kind)) \in Seq(Worth)
  BY <1>1, TakenType
<1>3. Advanced(bs, st.pos) \in Nat \ {0}
  <2>1. CASE st.pos > Len(bs) \/ bs[st.pos] = Close
    BY <1>1, <2>1 DEF Advanced
  <2>2. CASE ~(st.pos > Len(bs) \/ bs[st.pos] = Close)
    <3>1. st.pos \in 1 .. Len(bs)
      BY <1>1, <2>2
    <3>2. bs[st.pos] \in Cell
      BY <3>1
    <3>3. bs[st.pos].n \in Nat
      BY <3>2 DEF Cell
    <3> QED
      BY <1>1, <2>2, <3>3 DEF Advanced
  <2> QED
    BY <2>1, <2>2
<1>4. AdvanceFails(bs, st.pos) \in BOOLEAN
  BY DEF AdvanceFails
<1>5. (st.wild \/ CutText(bs, st, kind)) \in BOOLEAN
  OBVIOUS
<1> QED
  BY <1>2, <1>3, <1>4, <1>5 DEF ReadMember, ReadState

(* The reader at the start of the array. *)
LEMMA ReadBeginType ==
  ASSUME NEW bs \in Seq(Cell)
  PROVE  ReadBegin(bs) \in ReadState
<1>1. <<>> \in Seq(Worth)
  OBVIOUS
<1>2. (bs = <<>> \/ bs[1] # Open) \in BOOLEAN
  OBVIOUS
<1> QED
  BY <1>1, <1>2 DEF ReadBegin, ReadState

(* What the reader has after each member follows from what it had before. *)
LEMMA ReadingStates ==
  ASSUME NEW bs \in Seq(Cell), NEW kinds, Len(kinds) \in Nat
  PROVE  /\ Reading(bs, kinds)[0] = ReadBegin(bs)
         /\ \A k \in 1 .. Len(kinds) :
              Reading(bs, kinds)[k] = ReadMember(bs, Reading(bs, kinds)[k - 1], kinds[k])
<1> DEFINE N == Len(kinds)
           step == [n \in 1 .. N |-> [s \in ReadState |-> ReadMember(bs, s, kinds[n])]]
           Def(g) == [k \in 0 .. N |-> IF k = 0 THEN ReadBegin(bs)
                                                ELSE ReadMember(bs, g[k - 1], kinds[k])]
           r == CHOOSE g : g = Def(g)
<1>1. step \in [1 .. N -> [ReadState -> ReadState]]
  BY ReadMemberType
<1>2. PICK g : IteratesUpTo(g, N, ReadState, ReadBegin(bs), step)
  <2> HIDE DEF step, Def, r
  <2>1. N \in Nat
    OBVIOUS
  <2> HIDE DEF N
  <2> QED
    BY <1>1, <2>1, ReadBeginType, BoundedIteration
<1>3. g = Def(g)
  <2>1. ASSUME NEW k \in 0 .. N PROVE g[k] = Def(g)[k]
    <3>1. CASE k = 0
      BY <1>2, <3>1 DEF IteratesUpTo
    <3>2. CASE k # 0
      <4>1. k \in 1 .. N /\ k - 1 \in 0 .. N
        BY <3>2
      <4>2. g[k - 1] \in ReadState /\ g[k] = step[k][g[k - 1]]
        <5> HIDE DEF N, step
        <5> QED
          BY <1>2, <4>1 DEF IteratesUpTo
      <4>3. step[k][g[k - 1]] = ReadMember(bs, g[k - 1], kinds[k])
        BY <4>1, <4>2
      <4> QED
        BY <3>2, <4>2, <4>3
    <3> QED
      BY <3>1, <3>2
  <2>2. g = [k \in 0 .. N |-> g[k]]
    BY <1>2 DEF IteratesUpTo
  <2> HIDE DEF step, r
  <2> QED
    BY <2>1, <2>2
<1>4. r = Def(r)
  <2> HIDE DEF Def
  <2> QED
    BY <1>3
<1>5. Reading(bs, kinds) = r
  BY DEF Reading
<1> HIDE DEF r
<1>6. 0 \in 0 .. N /\ \A k \in 1 .. N : k \in 0 .. N /\ k # 0
  OBVIOUS
<1>7. \A k \in 0 .. N : r[k] = IF k = 0 THEN ReadBegin(bs) ELSE ReadMember(bs, r[k - 1], kinds[k])
  BY <1>4, Zenon
<1> HIDE DEF N
<1>8. r[0] = ReadBegin(bs) /\ \A k \in 1 .. N : r[k] = ReadMember(bs, r[k - 1], kinds[k])
  BY <1>6, <1>7, Zenon
<1> QED
  BY <1>5, <1>8 DEF N

(* Where a member lies in the encoding. *)
LEMMA MemberWithin ==
  ASSUME NEW m \in Seq(Field), NEW i \in 1 .. Len(m)
  PROVE  /\ Len(Opened(m)[i - 1]) \in Nat /\ Len(m[i].cells) \in Nat \ {0}
         /\ Len(Opened(m)[i]) = Len(Opened(m)[i - 1]) + Len(m[i].cells)
         /\ Len(Opened(m)[i]) < Len(Encoding(m))
         /\ \A k \in 1 .. Len(m[i].cells) :
              Encoding(m)[Len(Opened(m)[i - 1]) + k] = m[i].cells[k]
<1>1. i - 1 \in 0 .. Len(m) /\ i \in 0 .. Len(m)
  OBVIOUS
<1>2. PICK s \in Seq(Cell), t \in Seq(Cell) :
        /\ s = Opened(m)[i - 1] /\ t = m[i].cells /\ Len(t) > 0
        /\ Opened(m)[i] = s \o t
  BY <1>1, OpenedCells, MemberCells
<1>3. /\ Len(s \o t) < Len(Encoding(m))
      /\ \A n \in 1 .. Len(s \o t) : Encoding(m)[n] = (s \o t)[n]
  BY <1>1, <1>2, OpenedWithin
<1>4. /\ Len(s) \in Nat /\ Len(t) \in Nat \ {0} /\ Len(s \o t) = Len(s) + Len(t)
      /\ \A k \in 1 .. Len(t) : (s \o t)[Len(s) + k] = t[k]
  <2>1. /\ Len(s \o t) = Len(s) + Len(t)
        /\ \A k \in 1 .. Len(t) : (s \o t)[Len(s) + k] = t[k]
    OBVIOUS
  <2>2. Len(s) \in Nat /\ Len(t) \in Nat \ {0}
    BY <1>2
  <2> QED
    BY <2>1, <2>2, Zenon
<1>5. ASSUME NEW k \in 1 .. Len(t) PROVE Encoding(m)[Len(s) + k] = t[k]
  <2>1. Len(s) + k \in 1 .. Len(s \o t)
    BY <1>4
  <2> QED
    BY <1>3, <1>4, <2>1, Zenon
<1> QED
  BY <1>2, <1>3, <1>4, <1>5

(* A reader of kinds is given the beginning bs of a message's encoding. *)
Expects(m, kinds) ==
  /\ Len(kinds) \in Nat /\ Len(kinds) <= Len(m)
  /\ \A i \in 1 .. Len(kinds) :
       /\ kinds[i] # "close" /\ m[i].cells[1].kind = kinds[i]
       /\ m[i].cells[1].n = Len(m[i].cells) - 1
Begins(bs, e) == Len(bs) <= Len(e) /\ \A n \in 1 .. Len(bs) : bs[n] = e[n]

ValueOf(m, i) == <<m[i].cells[1].val, Tail(m[i].cells)>>

(* After i members the reader is at the next one and has their values, or  *)
(* it has met the end of what it was given and knows.                      *)
SoFar(st, m, bs, i) ==
  IF Len(Opened(m)[i]) < Len(bs)
    THEN /\ st.pos = Len(Opened(m)[i]) + 1 /\ ~st.err /\ Len(st.values) = i
         /\ \A j \in 1 .. i : st.values[j] = ValueOf(m, j)
    ELSE st.pos > Len(bs) /\ (i # 0 => st.err)

(* The payload of a member that is there. *)
LEMMA PayloadThere ==
  ASSUME NEW bs \in Seq(Cell), NEW c \in Seq(Cell), NEW o \in Nat, NEW l \in Nat \ {0},
         Len(c) = l, o + l <= Len(bs), \A k \in 1 .. l : bs[o + k] = c[k]
  PROVE  SubSeq(bs, (o + 1) + 1, (o + 1) + (l - 1)) = Tail(c)
<1>1. PICK p \in Nat, q \in Nat : /\ p = (o + 1) + 1 /\ q = (o + 1) + (l - 1)
                                  /\ p = o + 2 /\ q = o + l /\ q - p + 1 = l - 1
  OBVIOUS
<1>2. SubSeq(bs, p, q) = [k \in 1 .. (q - p + 1) |-> bs[p + k - 1]]
  BY <1>1
<1>3. Tail(c) = [k \in 1 .. (l - 1) |-> c[k + 1]]
  <2>1. c # <<>>
    OBVIOUS
  <2>2. Tail(c) \in Seq(Cell) /\ Len(Tail(c)) = Len(c) - 1
    BY <2>1
  <2>3. \A k \in 1 .. (Len(c) - 1) : Tail(c)[k] = c[k + 1]
    BY <2>1
  <2>4. ASSUME NEW t \in Seq(Cell) PROVE t = [k \in 1 .. Len(t) |-> t[k]]
    OBVIOUS
  <2>5. Tail(c) = [k \in 1 .. Len(Tail(c)) |-> Tail(c)[k]]
    BY <2>2, <2>4, Zenon
  <2>6. Tail(c) = [k \in 1 .. (Len(c) - 1) |-> Tail(c)[k]]
    BY <2>2, <2>5
  <2> QED
    BY <2>3, <2>6, Zenon
<1>4. ASSUME NEW k \in 1 .. (l - 1) PROVE bs[p + k - 1] = c[k + 1]
  <2>1. k + 1 \in 1 .. l /\ o + (k + 1) = p + k - 1
    BY <1>1
  <2>2. bs[o + (k + 1)] = c[k + 1]
    BY <2>1
  <2> QED
    BY <2>1, <2>2
<1>5. SubSeq(bs, p, q) = [k \in 1 .. (l - 1) |-> bs[p + k - 1]]
  BY <1>1, <1>2
<1>6. SubSeq(bs, p, q) = Tail(c)
  BY <1>3, <1>4, <1>5
<1> QED
  BY <1>1, <1>6

(* One member more. *)
LEMMA ReadOne ==
  ASSUME NEW m \in Seq(Field), NEW bs \in Seq(Cell), NEW kinds, Expects(m, kinds),
         Begins(bs, Encoding(m)), NEW i \in 1 .. Len(kinds), NEW st \in ReadState,
         SoFar(st, m, bs, i - 1)
  PROVE  SoFar(ReadMember(bs, st, kinds[i]), m, bs, i)
<1>1. /\ i \in 1 .. Len(m) /\ kinds[i] # "close"
      /\ m[i].cells[1].kind = kinds[i] /\ m[i].cells[1].n = Len(m[i].cells) - 1
      /\ i - 1 \in Nat
  BY DEF Expects
<1>2. PICK o \in Nat, l \in Nat \ {0}, c \in Seq(Cell) :
        /\ o = Len(Opened(m)[i - 1]) /\ c = m[i].cells /\ l = Len(c)
        /\ Len(Opened(m)[i]) = o + l
        /\ \A k \in 1 .. l : Encoding(m)[o + k] = c[k]
  <2>1. m[i].cells \in Seq(Cell)
    BY <1>1, MemberCells
  <2>2. /\ Len(Opened(m)[i - 1]) \in Nat /\ Len(m[i].cells) \in Nat \ {0}
        /\ Len(Opened(m)[i]) = Len(Opened(m)[i - 1]) + Len(m[i].cells)
        /\ \A k \in 1 .. Len(m[i].cells) :
             Encoding(m)[Len(Opened(m)[i - 1]) + k] = m[i].cells[k]
    <3>1. i \in 1 .. Len(m)
      BY <1>1
    <3> QED
      BY <3>1, MemberWithin
  <2> QED
    BY <2>1, <2>2, Zenon
<1>3. c[1] \in Cell /\ c[1].kind = kinds[i] /\ c[1].n = l - 1 /\ Len(bs) \in Nat
  <2>1. 1 \in 1 .. Len(c)
    BY <1>2
  <2> QED
    BY <1>1, <1>2, <2>1
<1>4. ~(c[1] = Close)
  BY <1>1, <1>3 DEF Close
<1>5. \A n \in 1 .. Len(bs) : bs[n] = Encoding(m)[n]
  BY DEF Begins
<1> DEFINE next == ReadMember(bs, st, kinds[i])
<1>6. /\ next.pos = Advanced(bs, st.pos) /\ next.err = AdvanceFails(bs, st.pos)
      /\ next.values = Append(st.values, Taken(bs, st, kinds[i]))
  BY DEF ReadMember
<1> HIDE DEF next
<1>7. CASE o < Len(bs)
  <2>1. st.pos = o + 1 /\ ~st.err /\ Len(st.values) = i - 1
        /\ \A j \in 1 .. (i - 1) : st.values[j] = ValueOf(m, j)
    BY <1>2, <1>7 DEF SoFar
  <2>2. bs[o + 1] = c[1]
    <3>1. o + 1 \in 1 .. Len(bs) /\ 1 \in 1 .. l
      BY <1>3, <1>7
    <3> QED
      BY <1>2, <1>5, <3>1
  <2>3. /\ Advanced(bs, st.pos) = o + l + 1
        /\ AdvanceFails(bs, st.pos) <=> o + l >= Len(bs)
    <3>1. ~(o + 1 > Len(bs)) /\ (o + 1) + 1 + (l - 1) = o + l + 1
      BY <1>3, <1>7
    <3>2. Advanced(bs, st.pos) = o + l + 1
      BY <1>3, <1>4, <2>1, <2>2, <3>1 DEF Advanced
    <3>3. AdvanceFails(bs, st.pos) <=> o + l + 1 > Len(bs)
      BY <1>4, <2>1, <2>2, <3>1, <3>2 DEF AdvanceFails
    <3> QED
      BY <1>3, <3>2, <3>3
  <2>4. CASE o + l < Len(bs)
    <3>1. \A k \in 1 .. l : bs[o + k] = c[k]
      <4>1. \A k \in 1 .. l : o + k \in 1 .. Len(bs)
        BY <1>3, <2>4
      <4> QED
        BY <1>2, <1>5, <4>1, Zenon
    <3>2. Payload(bs, st.pos) = Tail(c)
      <4>1. o + l <= Len(bs)
        BY <1>3, <2>4
      <4>2. SubSeq(bs, (o + 1) + 1, (o + 1) + (l - 1)) = Tail(c)
        <5>1. Len(c) = l
          BY <1>2
        <5> QED
          BY <3>1, <4>1, <5>1, PayloadThere
      <4> QED
        BY <1>3, <2>1, <2>2, <4>2 DEF Payload
    <3>3. ItemAt(bs, st.pos, kinds[i])
      <4>1. o + 1 <= Len(bs) /\ (o + 1) + (l - 1) <= Len(bs)
        BY <1>3, <2>4
      <4> QED
        BY <1>3, <1>4, <2>1, <2>2, <4>1 DEF ItemAt, StartAt
    <3>4. Taken(bs, st, kinds[i]) = ValueOf(m, i)
      BY <1>2, <2>1, <2>2, <3>2, <3>3 DEF Taken, ValueOf
    <3>5. next.pos = (o + l) + 1 /\ ~next.err
      BY <1>3, <1>6, <2>3, <2>4
    <3>6. Len(next.values) = i /\ \A j \in 1 .. i : next.values[j] = ValueOf(m, j)
      <4>1. PICK v \in Seq(Worth) : v = st.values
        BY DEF ReadState
      <4>2. Taken(bs, st, kinds[i]) \in Worth
        BY TakenType
      <4>3. /\ Len(Append(v, Taken(bs, st, kinds[i]))) = Len(v) + 1
            /\ \A j \in 1 .. Len(v) : Append(v, Taken(bs, st, kinds[i]))[j] = v[j]
            /\ Append(v, Taken(bs, st, kinds[i]))[Len(v) + 1] = Taken(bs, st, kinds[i])
        BY <4>2
      <4>4. Len(v) = i - 1 /\ (i - 1) + 1 = i /\ \A j \in 1 .. i : j \in 1 .. (i - 1) \/ j = i
        BY <1>1, <2>1, <4>1
      <4> QED
        BY <1>6, <2>1, <3>4, <4>1, <4>3, <4>4, Zenon
    <3> QED
      BY <1>2, <2>4, <3>5, <3>6 DEF SoFar, next
  <2>5. CASE ~(o + l < Len(bs))
    <3>1. next.pos > Len(bs) /\ next.err
      BY <1>3, <1>6, <2>3, <2>5
    <3> QED
      BY <1>2, <2>5, <3>1 DEF SoFar, next
  <2> QED
    BY <2>4, <2>5
<1>8. CASE ~(o < Len(bs))
  <2>1. st.pos > Len(bs)
    BY <1>2, <1>8 DEF SoFar
  <2>2. next.pos > Len(bs) /\ next.err
    BY <1>6, <2>1 DEF Advanced, AdvanceFails
  <2>3. ~(o + l < Len(bs))
    BY <1>3, <1>8
  <2> QED
    BY <1>2, <2>2, <2>3 DEF SoFar, next
<1> QED
  BY <1>7, <1>8

(* All of the members. *)
LEMMA ReadSoFar ==
  ASSUME NEW m \in Seq(Field), NEW bs \in Seq(Cell), NEW kinds, Expects(m, kinds),
         Begins(bs, Encoding(m))
  PROVE  \A i \in 0 .. Len(kinds) :
           Reading(bs, kinds)[i] \in ReadState /\ SoFar(Reading(bs, kinds)[i], m, bs, i)
<1> DEFINE S == {i \in 0 .. Len(kinds) : Reading(bs, kinds)[i] \in ReadState
                                         /\ SoFar(Reading(bs, kinds)[i], m, bs, i)}
<1>1. Len(kinds) \in Nat
  BY DEF Expects
<1>2. 0 \in S
  <2>1. Reading(bs, kinds)[0] = ReadBegin(bs)
    BY <1>1, ReadingStates
  <2>2. Opened(m)[0] = <<Open>> /\ Len(Opened(m)[0]) = 1 /\ Opened(m)[0][1] = Open
    <3>1. Opened(m)[0] = <<Open>>
      BY OpenedCells
    <3> QED
      BY <3>1
  <2>3. SoFar(ReadBegin(bs), m, bs, 0)
    <3> DEFINE st == ReadBegin(bs)
    <3>1. /\ st.pos = 2 /\ (st.err => bs = <<>> \/ bs[1] # Open) /\ Len(st.values) = 0
          /\ Len(bs) \in Nat
      <4>1. st.pos = 2 /\ Len(st.values) = 0 /\ Len(bs) \in Nat
        BY DEF ReadBegin
      <4>2. st.err => bs = <<>> \/ bs[1] # Open
        BY Zenon DEF ReadBegin
      <4> QED
        BY <4>1, <4>2, Zenon
    <3> HIDE DEF st
    <3>2. CASE 1 < Len(bs)
      <4>1. 0 \in 0 .. Len(m) /\ 1 \in 1 .. Len(bs) /\ 1 \in 1 .. 1 /\ bs # <<>>
        BY <3>1, <3>2
      <4>2. Encoding(m)[1] = Opened(m)[0][1]
        BY <2>2, <4>1, OpenedWithin
      <4>3. bs[1] = Encoding(m)[1]
        BY <4>1 DEF Begins
      <4>4. ~st.err
        BY <2>2, <3>1, <4>1, <4>2, <4>3, Zenon
      <4>5. st.pos = 1 + 1 /\ 1 .. 0 = {}
        BY <3>1
      <4> QED
        BY <2>2, <3>1, <3>2, <4>4, <4>5 DEF SoFar, st
    <3>3. CASE ~(1 < Len(bs))
      <4>1. st.pos > Len(bs)
        BY <3>1, <3>3
      <4> QED
        BY <2>2, <3>3, <4>1 DEF SoFar, st
    <3> QED
      BY <3>2, <3>3
  <2> QED
    BY <1>1, <2>1, <2>3, ReadBeginType
<1>3. ASSUME NEW n \in 0 .. (Len(kinds) - 1), n \in S PROVE n + 1 \in S
  <2>1. n + 1 \in 1 .. Len(kinds) /\ n + 1 \in 0 .. Len(kinds) /\ (n + 1) - 1 = n
    BY <1>1
  <2>2. Reading(bs, kinds)[n + 1] = ReadMember(bs, Reading(bs, kinds)[n], kinds[n + 1])
    BY <1>1, <2>1, ReadingStates
  <2>3. PICK st \in ReadState : st = Reading(bs, kinds)[n] /\ SoFar(st, m, bs, n)
    BY <1>3
  <2>4. SoFar(st, m, bs, (n + 1) - 1)
    BY <2>1, <2>3
  <2>5. SoFar(ReadMember(bs, st, kinds[n + 1]), m, bs, n + 1)
    BY <2>1, <2>4, ReadOne
  <2> QED
    BY <2>1, <2>2, <2>3, <2>5, ReadMemberType
<1>4. 0 .. Len(kinds) \subseteq S
  <2> HIDE DEF S
  <2> QED
    BY <1>1, <1>2, <1>3, BoundedInduction
<1> QED
  BY <1>4

(* A text is met with all of its payload when there is none, or when nothing *)
(* of the message was cut off: no member is assigned from nowhere.          *)
LEMMA NeverWild ==
  ASSUME NEW m \in Seq(Field), NEW bs \in Seq(Cell), NEW kinds, Expects(m, kinds),
         Begins(bs, Encoding(m)),
         Len(bs) = Len(Encoding(m)) \/ \A i \in 1 .. Len(kinds) : kinds[i] # "text"
  PROVE  \A i \in 0 .. Len(kinds) : ~Reading(bs, kinds)[i].wild
<1> DEFINE S == {i \in 0 .. Len(kinds) : ~Reading(bs, kinds)[i].wild}
<1>1. Len(kinds) \in Nat /\ Len(kinds) <= Len(m) /\ Len(m) \in Nat
  BY DEF Expects
<1>2. 0 \in S
  <2>1. Reading(bs, kinds)[0] = ReadBegin(bs)
    BY <1>1, ReadingStates
  <2>2. ~ReadBegin(bs).wild
    BY DEF ReadBegin
  <2> QED
    BY <1>1, <2>1, <2>2
<1>3. ASSUME NEW n \in 0 .. (Len(kinds) - 1), n \in S PROVE n + 1 \in S
  <2>1. /\ n + 1 \in 1 .. Len(kinds) /\ n + 1 \in 0 .. Len(kinds) /\ n \in 0 .. Len(kinds)
        /\ (n + 1) - 1 = n /\ n + 1 \in 1 .. Len(m)
    BY <1>1
  <2>2. Reading(bs, kinds)[n + 1] = ReadMember(bs, Reading(bs, kinds)[n], kinds[n + 1])
    BY <1>1, <2>1, ReadingStates
  <2>3. PICK st \in ReadState : st = Reading(bs, kinds)[n] /\ SoFar(st, m, bs, n)
    BY <2>1, ReadSoFar
  <2>4. ~CutText(bs, st, kinds[n + 1])
    <3>1. CASE kinds[n + 1] # "text"
      BY <3>1 DEF CutText
    <3>2. CASE Len(bs) = Len(Encoding(m))
      <4>1. PICK o \in Nat, l \in Nat \ {0} :
              /\ o = Len(Opened(m)[n]) /\ l = Len(m[n + 1].cells)
              /\ o + l < Len(bs) /\ Encoding(m)[o + 1] = m[n + 1].cells[1]
        <5>1. /\ Len(Opened(m)[n]) \in Nat /\ Len(m[n + 1].cells) \in Nat \ {0}
              /\ Len(Opened(m)[n + 1]) = Len(Opened(m)[n]) + Len(m[n + 1].cells)
              /\ Len(Opened(m)[n + 1]) < Len(Encoding(m))
              /\ \A k \in 1 .. Len(m[n + 1].cells) :
                   Encoding(m)[Len(Opened(m)[n]) + k] = m[n + 1].cells[k]
          <6>1. PICK i \in 1 .. Len(m) : i = n + 1 /\ i - 1 = n
            BY <2>1
          <6>2. /\ Len(Opened(m)[i - 1]) \in Nat /\ Len(m[i].cells) \in Nat \ {0}
                /\ Len(Opened(m)[i]) = Len(Opened(m)[i - 1]) + Len(m[i].cells)
                /\ Len(Opened(m)[i]) < Len(Encoding(m))
                /\ \A k \in 1 .. Len(m[i].cells) :
                     Encoding(m)[Len(Opened(m)[i - 1]) + k] = m[i].cells[k]
            BY MemberWithin
          <6> QED
            BY <6>1, <6>2, Zenon
        <5>2. 1 \in 1 .. Len(m[n + 1].cells)
          BY <5>1
        <5>3. Encoding(m)[Len(Opened(m)[n]) + 1] = m[n + 1].cells[1]
          BY <5>1, <5>2
        <5>4. Len(Opened(m)[n]) + Len(m[n + 1].cells) < Len(bs)
          BY <3>2, <5>1
        <5> QED
          BY <5>1, <5>3, <5>4, Zenon
      <4>2. Len(bs) \in Nat /\ o < Len(bs) /\ o + 1 \in 1 .. Len(bs)
                /\ (o + 1) + (l - 1) <= Len(bs)
        <5>1. ASSUME NEW b \in Nat, o + l < b
              PROVE  o < b /\ o + 1 \in 1 .. b /\ (o + 1) + (l - 1) <= b
          BY <5>1
        <5>2. Len(bs) \in Nat
          OBVIOUS
        <5> QED
          BY <4>1, <5>1, <5>2, Zenon
      <4>3. st.pos = o + 1
        <5>1. Len(Opened(m)[n]) < Len(bs)
          BY <4>1, <4>2, Zenon
        <5>2. st.pos = Len(Opened(m)[n]) + 1
          BY <2>3, <5>1, Zenon DEF SoFar
        <5> QED
          BY <4>1, <5>2, Zenon
      <4>4. bs[o + 1].n = l - 1
        <5>1. bs[o + 1] = Encoding(m)[o + 1]
          BY <4>2 DEF Begins
        <5>2. m[n + 1].cells[1].n = Len(m[n + 1].cells) - 1
          <6>1. PICK i \in 1 .. Len(kinds) : i = n + 1
            BY <2>1
          <6> QED
            BY <6>1 DEF Expects
        <5>3. bs[o + 1] = m[n + 1].cells[1]
          BY <4>1, <5>1
        <5> QED
          BY <4>1, <5>2, <5>3
      <4>5. st.pos + bs[st.pos].n <= Len(bs)
        BY <4>2, <4>3, <4>4, Zenon
      <4> QED
        BY <4>5 DEF CutText, ItemAt
    <3> QED
      BY <2>1, <3>1, <3>2
  <2>5. Reading(bs, kinds)[n + 1].wild = (st.wild \/ CutText(bs, st, kinds[n + 1]))
    BY <2>2, <2>3 DEF ReadMember
  <2> QED
    BY <1>3, <2>1, <2>3, <2>4, <2>5
<1>4. 0 .. Len(kinds) \subseteq S
  <2> HIDE DEF S
  <2> QED
    BY <1>1, <1>2, <1>3, BoundedInduction
<1> QED
  BY <1>4

(* Every message starts with its type. *)
LEMMA ReflectKinds ==
  ASSUME NEW type \in DOMAIN Reflect
  PROVE  /\ Len(Reflect[type]) \in Nat \ {0} /\ Reflect[type][1] = "int" /\ type # "unset"
         /\ \A i \in 1 .. Len(Reflect[type]) : Reflect[type][i] # "close"
<1>1. type \in {"connect", "disconnect", "publish", "publisher", "subscriber"}
  BY DEF Reflect
<1>2. Reflect[type] \in {<<"int", "text">>, <<"int">>, <<"int", "int", "blob">>,
                         <<"int", "int", "text">>}
  BY <1>1 DEF Reflect
<1>3. ASSUME NEW r \in {<<"int", "text">>, <<"int">>, <<"int", "int", "blob">>,
                        <<"int", "int", "text">>}
      PROVE  Len(r) \in Nat \ {0} /\ r[1] = "int" /\ \A i \in 1 .. Len(r) : r[i] # "close"
  BY <1>3
<1> QED
  BY <1>1, <1>2, <1>3

(* What fits is read, the rest is cut off. *)
LEMMA FromBytes ==
  ASSUME NEW e \in Seq(Cell), NEW cap \in Nat
  PROVE  /\ fromBytes(e, cap) \in Seq(Cell) /\ Begins(fromBytes(e, cap), e)
         /\ (Len(fromBytes(e, cap)) = Len(e)) <=> (Len(e) <= cap)
<1>1. cap \in Nat /\ Len(e) \in Nat
  OBVIOUS
<1>2. CASE Len(e) <= cap
  BY <1>1, <1>2 DEF fromBytes, Begins
<1>3. CASE ~(Len(e) <= cap)
  <2>1. PICK r \in 0 .. Len(e) : r = cap
    BY <1>1, <1>3
  <2>2. PICK s \in Seq(Cell) : s = SubSeq(e, 1, r) /\ Len(s) = r
    <3>1. SubSeq(e, 1, r) \in Seq(Cell) /\ Len(SubSeq(e, 1, r)) = r
      BY PartOf
    <3> QED
      BY <3>1, Zenon
  <2>3. \A n \in 1 .. r : SubSeq(e, 1, r)[n] = e[n]
    OBVIOUS
  <2>4. fromBytes(e, cap) = s
    BY <1>3, <2>1, <2>2 DEF fromBytes
  <2>5. Begins(s, e)
    BY <1>1, <1>3, <2>1, <2>2, <2>3 DEF Begins
  <2> QED
    BY <1>1, <1>3, <2>1, <2>2, <2>4, <2>5
<1> QED
  BY <1>2, <1>3

(* The reader of a message's own type gets all of it, or knows it did not;  *)
(* a text it gets whole, or its buffer is smaller than the serializer's.    *)
LEMMA ReadOwn ==
  ASSUME NEW m \in Seq(Field), WellFormed(m), NEW cap \in Nat,
         NEW bs, bs = fromBytes(Encoding(m), cap)
  PROVE  /\ ~Read(bs, Reflect[Own(m)]).err <=> Len(Encoding(m)) <= cap
         /\ ~Read(bs, Reflect[Own(m)]).err => Read(bs, Reflect[Own(m)]).values = ValuesOf(m)
         /\ ((\E i \in DOMAIN Reflect[Own(m)] : Reflect[Own(m)][i] = "text")
               => Len(Encoding(m)) <= cap)
              => ~Read(bs, Reflect[Own(m)]).wild
<1> DEFINE kinds == Reflect[Own(m)]
           st == Reading(bs, kinds)[Len(m)]
<1>1. Len(kinds) = Len(m) /\ Len(m) \in Nat \ {0}
  BY ReflectKinds DEF WellFormed
<1>2. Expects(m, kinds)
  <2>1. DOMAIN m = 1 .. Len(m)
    OBVIOUS
  <2>2. Len(m) \in Nat /\ Len(m) <= Len(m)
    OBVIOUS
  <2> QED
    BY <1>1, <2>1, <2>2, ReflectKinds DEF WellFormed, Expects
<1>3. PICK e \in Seq(Cell) : e = Encoding(m)
  BY EncodingCells
<1>4. /\ bs \in Seq(Cell) /\ Begins(bs, e)
      /\ (Len(bs) = Len(e)) <=> (Len(e) <= cap)
  BY <1>3, FromBytes
<1> HIDE DEF kinds
<1>5. st \in ReadState /\ SoFar(st, m, bs, Len(m))
  <2>1. Len(m) \in 0 .. Len(kinds)
    BY <1>1
  <2>2. bs \in Seq(Cell) /\ Begins(bs, Encoding(m))
    BY <1>3, <1>4
  <2>3. \A i \in 0 .. Len(kinds) :
          Reading(bs, kinds)[i] \in ReadState /\ SoFar(Reading(bs, kinds)[i], m, bs, i)
    BY <1>2, <2>2, ReadSoFar
  <2> QED
    BY <2>1, <2>3
<1>6. Read(bs, kinds) = st
  BY <1>1 DEF Read
<1> HIDE DEF st
<1>7. Len(Opened(m)[Len(m)]) < Len(bs) <=> Len(e) <= cap
  <2>1. Len(e) = Len(Opened(m)[Len(m)]) + 1
    BY <1>3, EncodingCells
  <2>2. Opened(m)[Len(m)] \in Seq(Cell)
    <3>1. Len(m) \in 0 .. Len(m)
      BY <1>1
    <3> QED
      BY <3>1, OpenedWithin
  <2>3. Len(Opened(m)[Len(m)]) \in Nat /\ Len(bs) \in Nat /\ Len(bs) <= Len(e)
    BY <1>4, <2>2 DEF Begins
  <2> QED
    BY <1>4, <2>1, <2>3
<1>8. ~st.err <=> Len(e) <= cap
  BY <1>1, <1>5, <1>7 DEF SoFar
<1>9. ASSUME ~st.err PROVE st.values = ValuesOf(m)
  <2>1. Len(st.values) = Len(m) /\ \A j \in 1 .. Len(m) : st.values[j] = ValueOf(m, j)
    BY <1>5, <1>7, <1>8, <1>9 DEF SoFar
  <2>2. PICK v \in Seq(Worth) : v = st.values
    BY <1>5 DEF ReadState
  <2>3. v = [j \in 1 .. Len(v) |-> v[j]]
    OBVIOUS
  <2>4. v = [j \in 1 .. Len(m) |-> ValueOf(m, j)]
    BY <2>1, <2>2, <2>3
  <2>5. DOMAIN m = 1 .. Len(m)
    OBVIOUS
  <2> QED
    BY <2>2, <2>4, <2>5 DEF ValuesOf, ValueOf
<1>10. ASSUME (\E i \in DOMAIN kinds : kinds[i] = "text") => Len(Encoding(m)) <= cap
       PROVE  ~st.wild
  <2>1. DOMAIN kinds = 1 .. Len(kinds)
    <3>1. Own(m) \in {"connect", "disconnect", "publish", "publisher", "subscriber"}
      BY DEF WellFormed, Reflect
    <3> QED
      BY <3>1 DEF kinds, Reflect
  <2>2. Len(bs) = Len(Encoding(m)) \/ \A i \in 1 .. Len(kinds) : kinds[i] # "text"
    BY <1>3, <1>4, <1>10, <2>1
  <2>3. bs \in Seq(Cell) /\ Begins(bs, Encoding(m))
    BY <1>3, <1>4
  <2>4. \A i \in 0 .. Len(kinds) : ~Reading(bs, kinds)[i].wild
    BY <1>2, <2>2, <2>3, NeverWild
  <2>5. Len(m) \in 0 .. Len(kinds)
    BY <1>1
  <2> QED
    BY <2>4, <2>5 DEF st
<1> QED
  BY <1>3, <1>6, <1>8, <1>9, <1>10 DEF kinds

(* The filter in front of a handler lets through only its own type.         *)
LEMMA FilterOwn ==
  ASSUME NEW m \in Seq(Field), WellFormed(m), NEW type, NEW prev
  PROVE  /\ MsgFilter(type, prev, Encoding(m)) => type = Own(m)
         /\ Len(Encoding(m)) <= FilterCapacity => MsgFilter(Own(m), prev, Encoding(m))
<1> DEFINE bs == fromBytes(Encoding(m), FilterCapacity)
           st == Reading(bs, <<"int">>)[1]
<1>1. Len(m) \in Nat \ {0} /\ Own(m) # "unset" /\ m[1].cells[1].kind = "int"
      /\ m[1].cells[1].n = Len(m[1].cells) - 1 /\ 1 \in 1 .. Len(m)
  <2>1. m # <<>> /\ DOMAIN m = 1 .. Len(m)
    BY DEF WellFormed
  <2>2. 1 \in 1 .. Len(m) /\ Len(m) \in Nat \ {0}
    BY <2>1
  <2> QED
    BY <2>1, <2>2, ReflectKinds DEF WellFormed
<1>2. Len(<<"int">>) = 1 /\ <<"int">>[1] = "int"
  OBVIOUS
<1>3. Expects(m, <<"int">>)
  <2>1. Len(<<"int">>) \in Nat /\ Len(<<"int">>) <= Len(m)
    BY <1>1, <1>2
  <2>2. ASSUME NEW i \in 1 .. Len(<<"int">>)
        PROVE  /\ <<"int">>[i] # "close" /\ m[i].cells[1].kind = <<"int">>[i]
               /\ m[i].cells[1].n = Len(m[i].cells) - 1
    <3>1. i = 1
      BY <1>2
    <3> QED
      BY <1>1, <1>2, <3>1
  <2> QED
    BY <2>1, <2>2 DEF Expects
<1>4. PICK e \in Seq(Cell) : e = Encoding(m)
  BY EncodingCells
<1>5. /\ bs \in Seq(Cell) /\ Begins(bs, e)
      /\ (Len(bs) = Len(e)) <=> (Len(e) <= FilterCapacity)
  BY <1>4, FromBytes, ReaderAssumption
<1> HIDE DEF bs
<1>6. SoFar(st, m, bs, 1)
  <2>1. 1 \in 0 .. Len(<<"int">>)
    BY <1>2
  <2> QED
    <3>1. bs \in Seq(Cell) /\ Begins(bs, Encoding(m))
      BY <1>4, <1>5
    <3>2. \A i \in 0 .. Len(<<"int">>) : SoFar(Reading(bs, <<"int">>)[i], m, bs, i)
      BY <1>3, <3>1, ReadSoFar
    <3> QED
      BY <2>1, <3>2
<1>7. Read(bs, <<"int">>) = st
  BY <1>2 DEF Read
<1> HIDE DEF st
<1>8. ASSUME ~st.err
      PROVE  st.values[1] # Unset /\ st.values[1][1] = Own(m)
  <2>1. 1 \in 1 .. 1 /\ st.values[1] = ValueOf(m, 1)
    BY <1>6, <1>8 DEF SoFar
  <2>2. st.values[1] = <<Own(m), Tail(m[1].cells)>>
    BY <2>1 DEF ValueOf, Own
  <2> QED
    BY <1>1, <2>2 DEF Unset
<1>9. ASSUME Len(e) <= FilterCapacity PROVE ~st.err
  <2>1. Len(Opened(m)[1]) < Len(e)
    BY <1>1, <1>4, MemberWithin
  <2>2. Len(e) \in Nat /\ Len(e) <= FilterCapacity
    BY <1>9
  <2>3. Len(Opened(m)[1]) < Len(bs)
    BY <1>5, <2>1, <2>2
  <2> QED
    BY <1>6, <2>3 DEF SoFar
<1> QED
  BY <1>4, <1>7, <1>8, <1>9 DEF MsgFilter, bs

(* A thread serializes one of its messages. *)
Sending == \A t \in Threads : pc[t] # "idle" => msg[t] \in Messages[t]

(* Only begin() gives a thread another message. *)
LEMMA SendingStep == TypeOK /\ Sending /\ [Next]_vars => Sending'
<1> SUFFICES ASSUME TypeOK, Sending, [Next]_vars PROVE Sending'
  OBVIOUS
<1>1. CASE UNCHANGED vars
  BY <1>1 DEF vars, Sending
<1>2. CASE Transmit
  BY <1>2 DEF Transmit, serializer, Sending
<1>3. ASSUME NEW t \in Threads, Send(t) PROVE Sending'
  <2>1. ASSUME NEW m \in Messages[t], Begin(t, m) PROVE Sending'
    BY <2>1 DEF Begin, Goto, Sending, TypeOK
  <2>2. CASE Member(t)
    BY <2>2 DEF Member, Sending
  <2>3. CASE End(t) \/ ToBytes(t) \/ Write(t) \/ Drain(t) \/ WriteFailed(t) \/ Flush(t)
    <3>1. msg' = msg /\ pc[t] # "idle" /\ \A u \in Threads : u # t => pc'[u] = pc[u]
      BY <2>3 DEF End, ToBytes, Write, Drain, WriteFailed, Flush, Goto, serializer, TypeOK
    <3> QED
      BY <3>1 DEF Sending
  <2> QED
    BY <1>3, <2>1, <2>2, <2>3 DEF Send
<1> QED
  BY <1>1, <1>2, <1>3 DEF Next

(* A whole message of a serializer is handled as it was sent, or not at all. *)
LEMMA HandledIfEncoded == TypeOK /\ Sending /\ FrameIsMessage => HandledAsSent
<1> SUFFICES ASSUME TypeOK, Sending, FrameIsMessage,
                    NEW t \in Threads, running, pc[t] = "encoded",
                    NEW type \in DOMAIN Reflect, NEW prev \in DOMAIN Reflect,
                    NEW sent, sent = SubSeq(buffer, 1, size)
             PROVE  /\ Handled(type, prev, sent)
                         <=> type = Own(msg[t]) /\ Len(sent) <= ReaderOf[Own(msg[t])]
                    /\ Handled(type, prev, sent)
                         => Decoded(type, sent).values = ValuesOf(msg[t])
                    /\ MsgFilter(type, prev, sent) => ~Decoded(type, sent).wild
  BY DEF HandledAsSent
<1>1. PICK m \in Seq(Field) : m = msg[t] /\ WellFormed(m)
  BY MessagesAssumption, ReflectAssumption DEF Sending
<1>2. sent = Encoding(m)
  BY <1>1 DEF FrameIsMessage
<1>3. PICK own \in DOMAIN Reflect, cap \in Nat :
        /\ own = Own(m) /\ cap = ReaderOf[own] /\ cap <= FilterCapacity
        /\ (\E i \in DOMAIN Reflect[own] : Reflect[own][i] = "text") => Capacity <= cap
  <2>1. Own(m) \in DOMAIN Reflect
    BY <1>1 DEF WellFormed
  <2>2. /\ ReaderOf[Own(m)] \in Nat /\ ReaderOf[Own(m)] <= FilterCapacity
        /\ (\E i \in DOMAIN Reflect[Own(m)] : Reflect[Own(m)][i] = "text")
             => Capacity <= ReaderOf[Own(m)]
    <3> HIDE DEF Reflect
    <3> QED
      BY <2>1, ReaderAssumption
  <2> QED
    BY <2>1, <2>2, Zenon
<1>4. PICK bs : bs = fromBytes(Encoding(m), cap)
  OBVIOUS
<1>5. Len(sent) \in Nat /\ Len(sent) <= Capacity /\ Capacity \in Nat /\ FilterCapacity \in Nat
  <2>1. /\ Capacity \in Nat /\ FilterCapacity \in Nat /\ buffer \in Seq(Cell)
        /\ Len(buffer) \in Nat /\ Len(buffer) <= Capacity /\ size \in 0 .. Len(buffer)
    BY CapacityAssumption, ReaderAssumption DEF TypeOK
  <2>2. Len(SubSeq(buffer, 1, size)) = size
    BY <2>1, PartOf
  <2> QED
    BY <2>1, <2>2
<1>6. /\ MsgFilter(type, prev, sent) => type = own
      /\ Len(sent) <= cap => MsgFilter(own, prev, sent)
  <2>1. /\ MsgFilter(type, prev, Encoding(m)) => type = Own(m)
        /\ Len(Encoding(m)) <= FilterCapacity => MsgFilter(Own(m), prev, Encoding(m))
    BY <1>1, FilterOwn
  <2>2. Len(sent) <= cap => Len(sent) <= FilterCapacity
    <3>1. ASSUME NEW a \in Nat, NEW b \in Nat, NEW c \in Nat, b <= c, a <= b PROVE a <= c
      BY <3>1
    <3> QED
      BY <1>3, <1>5, <3>1, Zenon
  <2> QED
    BY <1>2, <1>3, <2>1, <2>2, Zenon
<1>7. /\ ~Read(bs, Reflect[own]).err <=> Len(sent) <= cap
      /\ ~Read(bs, Reflect[own]).err => Read(bs, Reflect[own]).values = ValuesOf(m)
      /\ ((\E i \in DOMAIN Reflect[own] : Reflect[own][i] = "text") => Len(sent) <= cap)
           => ~Read(bs, Reflect[own]).wild
  <2>1. /\ ~Read(bs, Reflect[Own(m)]).err <=> Len(Encoding(m)) <= cap
        /\ ~Read(bs, Reflect[Own(m)]).err => Read(bs, Reflect[Own(m)]).values = ValuesOf(m)
        /\ ((\E i \in DOMAIN Reflect[Own(m)] : Reflect[Own(m)][i] = "text")
              => Len(Encoding(m)) <= cap)
             => ~Read(bs, Reflect[Own(m)]).wild
    BY <1>1, <1>3, <1>4, ReadOwn
  <2> QED
    BY <1>2, <1>3, <2>1, Zenon
<1>8. Decoded(own, sent) = Read(bs, Reflect[own])
  BY <1>2, <1>3, <1>4 DEF Decoded
<1>9. Handled(type, prev, sent) <=> type = own /\ Len(sent) <= cap
  <2>1. CASE type = own
    BY <1>6, <1>7, <1>8, <2>1, Zenon DEF Handled
  <2>2. CASE type # own
    BY <1>6, <2>2, Zenon DEF Handled
  <2> QED
    BY <2>1, <2>2
<1>10. Handled(type, prev, sent) => Decoded(type, sent).values = ValuesOf(m)
  BY <1>7, <1>8, <1>9
<1>11. MsgFilter(type, prev, sent) => ~Decoded(type, sent).wild
  <2>1. Capacity <= cap => Len(sent) <= cap
    <3>1. ASSUME NEW a \in Nat, NEW b \in Nat, NEW c \in Nat, a <= b, b <= c PROVE a <= c
      BY <3>1
    <3> QED
      BY <1>5, <3>1, Zenon
  <2>2. (\E i \in DOMAIN Reflect[own] : Reflect[own][i] = "text") => Len(sent) <= cap
    BY <1>3, <2>1, Zenon
  <2> QED
    BY <1>6, <1>7, <1>8, <2>2, Zenon
<1> QED
  BY <1>1, <1>3, <1>9, <1>10, <1>11

(* While one thread at a time uses the serializer, whatever is sent is      *)
(* handled by the handler of its type alone and with the values that were  *)
(* sent, or nowhere when the reader's buffer cuts off its end or a part of *)
(* its value; and no handler takes a text from a pointer that was not set  *)
(* (CborDeserializer.cpp:23-50, :84-90).  For any messages of the right    *)
(* form and any buffers, as long as the readers of the messages with a     *)
(* text are as large as the serializer (ReaderAssumption).                 *)
THEOREM MessagesHandled == Spec /\ []Exclusive => []HandledAsSent
<1>1. Init => Sending
  BY DEF Init, Sending
<1>2. TypeOK /\ Sending /\ [Next]_vars => Sending'
  BY SendingStep
<1>3. TypeOK /\ Sending /\ FrameIsMessage => HandledAsSent
  BY HandledIfEncoded
<1> QED
  BY <1>1, <1>2, <1>3, PathTypes, MessagesEncoded, PTL DEF Spec

(* With one sending thread, as on the microcontroller, nothing more is     *)
(* needed: what toBytes returns is the thread's message, only a message    *)
(* too long for the serializer ends the process, and the line carries the  *)
(* messages in their order, each of which is handled as it was sent or not  *)
(* at all.                                                                 *)
THEOREM OneThreadSends ==
  ASSUME \A s, t \in Threads : s = t
  PROVE  Spec => [](FrameIsMessage /\ AbortsOnlyTooLong /\ WireCarriesLeadingParts
                      /\ HandledAsSent)
<1>1. OneSender
  BY DEF OneSender
<1>2. Exclusive
  BY DEF Exclusive
<1> QED
  BY <1>1, <1>2, MessagesEncoded, LineCarriesLeadingParts, MessagesHandled, PTL
=============================================================================
