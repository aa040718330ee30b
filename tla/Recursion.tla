----------------------------- MODULE Recursion ------------------------------
(***************************************************************************)
(* Induction and recursion on the natural numbers, stated with sets and    *)
(* functions instead of predicates, so that the facts about the model's     *)
(* recursive functions can be proved from them.                            *)
(***************************************************************************)
EXTENDS Naturals, WellFoundedInduction, TLAPS

(* No infinite descent: NatLessThanWellFounded, with the order written out. *)
LEMMA DescentEnds == IsWellFoundedOn({p \in Nat \X Nat : p[1] < p[2]}, Nat)
  BY NatLessThanWellFounded DEF OpToRel

LEMMA LeastElement ==
  ASSUME NEW T \in SUBSET Nat, T # {}
  PROVE  \E x \in T : \A y \in T : x <= y
<1> DEFINE R == {p \in Nat \X Nat : p[1] < p[2]}
<1>1. IsWellFoundedOn(R, Nat)
  BY DescentEnds
<1>2. PICK x \in T : \A y \in T : ~(<<y, x>> \in R)
  <2> HIDE DEF R
  <2> QED
    BY <1>1, WFMin
<1>3. ASSUME NEW y \in T PROVE x <= y
  <2>1. <<y, x>> \notin R
    BY <1>2
  <2>2. <<y, x>> \in Nat \X Nat /\ <<y, x>>[1] = y /\ <<y, x>>[2] = x
    OBVIOUS
  <2>3. ~(y < x)
    BY <2>1, <2>2
  <2> QED
    BY <2>3
<1> QED
  BY <1>3

(* Induction: what holds of 0 and passes from n to n + 1 holds of all. *)
LEMMA SetInduction ==
  ASSUME NEW S, 0 \in S, \A n \in Nat : n \in S => n + 1 \in S
  PROVE  Nat \subseteq S
<1> DEFINE T == Nat \ S
<1> SUFFICES ASSUME T # {} PROVE FALSE
  OBVIOUS
<1>1. PICK x \in T : \A y \in T : x <= y
  BY LeastElement
<1> QED
  BY <1>1, x - 1 \in Nat /\ x - 1 \in S

(* The same up to a bound. *)
LEMMA BoundedInduction ==
  ASSUME NEW S, NEW b \in Nat, 0 \in S, \A n \in 0 .. (b - 1) : n \in S => n + 1 \in S
  PROVE  0 .. b \subseteq S
<1> DEFINE T == {n \in Nat : n <= b => n \in S}
<1>1. 0 \in T /\ \A n \in Nat : n \in T => n + 1 \in T
  OBVIOUS
<1>2. Nat \subseteq T
  <2> HIDE DEF T
  <2> QED
    BY <1>1, SetInduction
<1> QED
  BY <1>2

(* A value and a step determine a function. *)
Iterates(f, V, v, step) ==
  f \in [Nat -> V] /\ f[0] = v /\ \A n \in Nat : f[n + 1] = step[n][f[n]]

LEMMA Iteration ==
  ASSUME NEW V, NEW v \in V, NEW step \in [Nat -> [V -> V]]
  PROVE  \E f : Iterates(f, V, v, step)
<1> DEFINE Approx(n) == {g \in [0 .. n -> V] :
                           g[0] = v /\ \A k \in 0 .. (n - 1) : g[k + 1] = step[k][g[k]]}
           F == [n \in Nat |-> CHOOSE g : g \in Approx(n)]
           f == [n \in Nat |-> F[n][n]]
<1>1. ASSUME NEW n \in Nat PROVE \E g : g \in Approx(n)
  <2> DEFINE Exists == {m \in Nat : \E g : g \in Approx(m)}
  <2>1. 0 \in Exists
    <3>1. [k \in 0 .. 0 |-> v] \in Approx(0)
      OBVIOUS
    <3> HIDE DEF Approx
    <3> QED
      BY <3>1
  <2>2. ASSUME NEW m \in Nat, m \in Exists PROVE m + 1 \in Exists
    <3>1. PICK g : g \in Approx(m)
      BY <2>2
    <3> DEFINE h == [k \in 0 .. (m + 1) |-> IF k <= m THEN g[k] ELSE step[m][g[m]]]
    <3>2. h \in [0 .. (m + 1) -> V] /\ h[0] = v
      BY <3>1
    <3>3. ASSUME NEW k \in 0 .. m PROVE h[k + 1] = step[k][h[k]]
      <4>1. CASE k = m
        BY <4>1
      <4>2. CASE k # m
        <5>1. k \in 0 .. (m - 1)
          BY <4>2
        <5>2. g[k + 1] = step[k][g[k]]
          BY <3>1, <5>1
        <5>3. k \in 0 .. (m + 1) /\ k + 1 \in 0 .. (m + 1) /\ k <= m /\ k + 1 <= m
          BY <5>1
        <5>4. h[k + 1] = g[k + 1] /\ h[k] = g[k]
          BY <5>3, Zenon
        <5> QED
          BY <5>2, <5>4, Zenon
      <4> QED
        BY <4>1, <4>2
    <3>4. (m + 1) - 1 = m
      OBVIOUS
    <3>5. h \in Approx(m + 1)
      <4> HIDE DEF h
      <4> QED
        BY <3>2, <3>3, <3>4
    <3> HIDE DEF Approx, h
    <3> QED
      BY <3>5
  <2>3. Nat \subseteq Exists
    <3> HIDE DEF Exists
    <3> QED
      BY <2>1, <2>2, SetInduction
  <2> HIDE DEF Approx
  <2> QED
    BY <2>3
<1>2. ASSUME NEW m \in Nat, NEW n \in Nat, NEW g \in Approx(m), NEW h \in Approx(n),
             m <= n
      PROVE  g[m] = h[m]
  <2> DEFINE Agree == {k \in 0 .. m : g[k] = h[k]}
  <2>1. ASSUME NEW k \in 0 .. (m - 1), k \in Agree PROVE k + 1 \in Agree
    <3>1. g[k + 1] = step[k][g[k]]
      OBVIOUS
    <3>2. h[k + 1] = step[k][h[k]]
      BY <1>2
    <3> QED
      BY <2>1, <3>1, <3>2
  <2>2. 0 \in Agree
    OBVIOUS
  <2>3. 0 .. m \subseteq Agree
    <3> HIDE DEF Approx, Agree
    <3> QED
      BY <2>1, <2>2, BoundedInduction
  <2> QED
    BY <2>3
<1>3. ASSUME NEW n \in Nat PROVE F[n] \in Approx(n)
  <2> HIDE DEF Approx
  <2> QED
    BY <1>1
<1>4. f \in [Nat -> V] /\ f[0] = v
  <2>1. ASSUME NEW n \in Nat PROVE F[n][n] \in V
    <3> HIDE DEF F
    <3> QED
      BY <1>3
  <2>2. F[0][0] = v
    <3> HIDE DEF F
    <3> QED
      BY <1>3
  <2> HIDE DEF F
  <2> QED
    BY <2>1, <2>2
<1>5. ASSUME NEW n \in Nat PROVE f[n + 1] = step[n][f[n]]
  <2>1. F[n] \in Approx(n) /\ F[n + 1] \in Approx(n + 1)
    <3> HIDE DEF F, Approx
    <3> QED
      BY <1>3
  <2>2. F[n][n] = F[n + 1][n]
    <3> HIDE DEF F, Approx
    <3> QED
      BY <2>1, <1>2
  <2>3. F[n + 1][n + 1] = step[n][F[n + 1][n]]
    <3> HIDE DEF F
    <3> QED
      BY <2>1
  <2> HIDE DEF F, Approx
  <2> QED
    BY <2>2, <2>3
<1>6. Iterates(f, V, v, step)
  <2> HIDE DEF f
  <2> QED
    BY <1>4, <1>5 DEF Iterates
<1> QED
  BY <1>6

(* The same up to a bound. *)
IteratesUpTo(g, b, V, v, step) ==
  g \in [0 .. b -> V] /\ g[0] = v /\ \A n \in 1 .. b : g[n] = step[n][g[n - 1]]

LEMMA BoundedIteration ==
  ASSUME NEW V, NEW v \in V, NEW b \in Nat, NEW step \in [1 .. b -> [V -> V]]
  PROVE  \E g : IteratesUpTo(g, b, V, v, step)
<1> DEFINE more == [n \in Nat |-> IF n < b THEN step[n + 1] ELSE [x \in V |-> x]]
<1>1. more \in [Nat -> [V -> V]]
  OBVIOUS
<1>2. PICK f : Iterates(f, V, v, more)
  <2> HIDE DEF more
  <2> QED
    BY <1>1, Iteration
<1> DEFINE g == [n \in 0 .. b |-> f[n]]
<1>3. g \in [0 .. b -> V] /\ g[0] = v
  BY <1>2 DEF Iterates
<1>4. ASSUME NEW n \in 1 .. b PROVE g[n] = step[n][g[n - 1]]
  <2>1. n - 1 \in Nat /\ (n - 1) + 1 = n /\ n - 1 < b /\ n - 1 \in 0 .. b /\ n \in 0 .. b
    OBVIOUS
  <2>2. f[n] = more[n - 1][f[n - 1]]
    <3> HIDE DEF more
    <3> QED
      BY <1>2, <2>1 DEF Iterates
  <2>3. more[n - 1] = step[n]
    BY <2>1
  <2>4. g[n] = f[n] /\ g[n - 1] = f[n - 1]
    BY <2>1
  <2> QED
    BY <2>2, <2>3, <2>4
<1>5. IteratesUpTo(g, b, V, v, step)
  <2> HIDE DEF g
  <2> QED
    BY <1>3, <1>4 DEF IteratesUpTo
<1> HIDE DEF g
<1> QED
  BY <1>5
=============================================================================
