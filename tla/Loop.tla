---------------------------------- MODULE Loop ----------------------------------
(***************************************************************************)
(* A loop of the program, as a function of the number of its passes, for   *)
(* any body, and what the proofs about loops need: a pass follows from the *)
(* one before, and induction over the passes.                              *)
(***************************************************************************)
EXTENDS Integers, TLAPS, WellFoundedInduction

CONSTANT Step(_)  \* one pass; it changes nothing any more when the loop is over

Repeat(s, n) ==
  LET at[i \in Nat] == IF i = 0 THEN s ELSE Step(at[i - 1])
  IN at[n]
-----------------------------------------------------------------------------
(* Induction over the natural numbers, for a set instead of a predicate,   *)
(* since the smallest number that is not in it is an element of a set.     *)
LEMMA Induction ==
  ASSUME NEW S, 0 \in S, \A n \in Nat : n \in S => n + 1 \in S
  PROVE  Nat \subseteq S
<1> DEFINE R == OpToRel(<, Nat)
           T == Nat \ S
<1> SUFFICES ASSUME T # {} PROVE FALSE
  OBVIOUS
<1>1. IsWellFoundedOn(R, Nat)
  BY NatLessThanWellFounded, Zenon
<1>2. \A a, b \in Nat : a < b => <<a, b>> \in R
  BY Zenon DEF OpToRel
<1> HIDE DEF R
<1>3. PICK x \in T : \A y \in T : ~(<<y, x>> \in R)
  <2>1. T \subseteq Nat
    OBVIOUS
  <2> HIDE DEF T
  <2> QED
    BY <1>1, <2>1, WFMin, Zenon
<1>4. x \in Nat /\ x # 0 /\ x - 1 \in Nat /\ x - 1 < x
  OBVIOUS
<1>5. x - 1 \notin S
  BY <1>4
<1> QED
  BY <1>2, <1>3, <1>4, <1>5

(* The function that Repeat chooses exists: approximations of it up to k   *)
(* exist for every k, and agree where both are defined.                    *)
LEMMA Unfold ==
  ASSUME NEW s
  PROVE  /\ Repeat(s, 0) = s
         /\ \A n \in Nat : Repeat(s, n + 1) = Step(Repeat(s, n))
<1> DEFINE D(g) == [i \in Nat |-> IF i = 0 THEN s ELSE Step(g[i - 1])]
           P(g, k) == g[0] = s /\ \A i \in 1 .. k : g[i] = Step(g[i - 1])
           S == {k \in Nat : \E g : P(g, k)}
           U == {k \in Nat : \A g, h : \A l \in Nat : k <= l /\ P(g, k) /\ P(h, l) => g[k] = h[k]}
<1>1. Nat \subseteq S
  <2>1. 0 \in S
    <3>1. P([i \in {0} |-> s], 0)
      OBVIOUS
    <3> QED
      BY <3>1
  <2>2. ASSUME NEW k \in Nat, k \in S PROVE k + 1 \in S
    <3>1. PICK g : P(g, k)
      BY <2>2
    <3> DEFINE h == [i \in 0 .. k + 1 |-> IF i = k + 1 THEN Step(g[k]) ELSE g[i]]
    <3>2. P(h, k + 1)
      BY <3>1
    <3> HIDE DEF P
    <3> QED
      BY <3>2
  <2> HIDE DEF S
  <2> QED
    BY <2>1, <2>2, Induction
<1>2. Nat \subseteq U
  <2>1. 0 \in U
    OBVIOUS
  <2>2. ASSUME NEW k \in Nat, k \in U PROVE k + 1 \in U
    <3> SUFFICES ASSUME NEW g, NEW h, NEW l \in Nat, k + 1 <= l, P(g, k + 1), P(h, l)
                 PROVE  g[k + 1] = h[k + 1]
      OBVIOUS
    <3>1. k <= l /\ P(g, k)
      OBVIOUS
    <3>2. g[k] = h[k]
      <4> HIDE DEF P
      <4> QED
        BY <2>2, <3>1
    <3>3. k + 1 \in 1 .. k + 1 /\ k + 1 \in 1 .. l /\ (k + 1) - 1 = k
      OBVIOUS
    <3> QED
      BY <3>2, <3>3
  <2> HIDE DEF U
  <2> QED
    BY <2>1, <2>2, Induction
<1> DEFINE G(k) == CHOOSE g : P(g, k)
           f == [k \in Nat |-> G(k)[k]]
<1>3. \A k \in Nat : P(G(k), k)
  <2>1. \A k \in Nat : \E g : P(g, k)
    BY <1>1
  <2> HIDE DEF P
  <2> QED
    BY <2>1
<1>4. f = D(f)
  <2>1. f[0] = s
    BY <1>3
  <2>2. ASSUME NEW i \in Nat, i # 0 PROVE f[i] = Step(f[i - 1])
    <3>1. i - 1 \in Nat /\ P(G(i), i) /\ P(G(i - 1), i - 1)
      BY <1>3, <2>2
    <3>2. G(i - 1)[i - 1] = G(i)[i - 1]
      <4>1. i - 1 \in U /\ i - 1 <= i
        <5> HIDE DEF U, P, G
        <5> QED
          BY <1>2, <3>1
      <4> HIDE DEF P, G
      <4> QED
        BY <3>1, <4>1
    <3>3. G(i)[i] = Step(G(i)[i - 1])
      BY <2>2, <3>1
    <3> QED
      BY <3>1, <3>2, <3>3
  <2> HIDE DEF G
  <2> QED
    BY <2>1, <2>2
<1>5. PICK at : at = D(at) /\ \A n : Repeat(s, n) = at[n]
  <2> DEFINE c == CHOOSE g : g = D(g)
  <2>1. c = D(c)
    <3> HIDE DEF f, D
    <3> QED
      BY <1>4
  <2>2. \A n : Repeat(s, n) = c[n]
    BY DEF Repeat
  <2> QED
    BY <2>1, <2>2
<1> HIDE DEF P, S, U, G, f
<1>6. \A n \in Nat : at[n] = IF n = 0 THEN s ELSE Step(at[n - 1])
  BY <1>5
<1>7. \A n \in Nat : at[n + 1] = Step(at[n])
  BY <1>6
<1> QED
  BY <1>5, <1>6, <1>7

(* What holds before the first pass and is kept by each pass.  A set of    *)
(* pairs of a state and the number of passes that were made.               *)
LEMMA Invariant ==
  ASSUME NEW s, NEW m \in Nat, NEW I, <<s, 0>> \in I,
         \A t : \A k \in 0 .. m - 1 : <<t, k>> \in I => <<Step(t), k + 1>> \in I
  PROVE  <<Repeat(s, m), m>> \in I
<1> DEFINE S == {n \in Nat : n <= m => <<Repeat(s, n), n>> \in I}
<1>1. 0 \in S
  BY Unfold
<1>2. ASSUME NEW n \in Nat, n \in S PROVE n + 1 \in S
  <2> SUFFICES ASSUME n + 1 <= m PROVE <<Repeat(s, n + 1), n + 1>> \in I
    OBVIOUS
  <2>1. n \in 0 .. m - 1 /\ <<Repeat(s, n), n>> \in I
    BY <1>2
  <2>2. Repeat(s, n + 1) = Step(Repeat(s, n))
    BY Unfold
  <2> QED
    BY <2>1, <2>2
<1>3. Nat \subseteq S
  <2> HIDE DEF S
  <2> QED
    BY <1>1, <1>2, Induction
<1> QED
  BY <1>3

(* A loop that is over stays so. *)
LEMMA Stays ==
  ASSUME NEW s, NEW j \in Nat, NEW m \in Nat, j <= m, Step(Repeat(s, j)) = Repeat(s, j)
  PROVE  Repeat(s, m) = Repeat(s, j)
<1> DEFINE S == {d \in Nat : Repeat(s, j + d) = Repeat(s, j)}
<1>1. 0 \in S
  <2>1. j + 0 = j
    OBVIOUS
  <2> QED
    BY <2>1
<1>2. ASSUME NEW d \in Nat, d \in S PROVE d + 1 \in S
  <2>1. j + d \in Nat /\ j + (d + 1) = (j + d) + 1 /\ Repeat(s, j + d) = Repeat(s, j)
    BY <1>2
  <2>2. Repeat(s, (j + d) + 1) = Step(Repeat(s, j + d))
    BY <2>1, Unfold
  <2>3. Repeat(s, j + (d + 1)) = Repeat(s, j)
    BY <2>1, <2>2
  <2> QED
    BY <2>3
<1>3. Nat \subseteq S
  <2> HIDE DEF S
  <2> QED
    BY <1>1, <1>2, Induction
<1>4. m - j \in Nat /\ j + (m - j) = m
  OBVIOUS
<1>5. m - j \in S
  BY <1>3, <1>4
<1> QED
  BY <1>4, <1>5

(* A search from the left ends at the smallest number.                     *)
LEMMA Smallest ==
  ASSUME NEW S, S \subseteq Nat, S # {}
  PROVE  \E x \in S : \A y \in S : x <= y
<1> DEFINE R == OpToRel(<, Nat)
<1>1. IsWellFoundedOn(R, Nat)
  BY NatLessThanWellFounded, Zenon
<1>2. \A a, b \in Nat : a < b => <<a, b>> \in R
  BY Zenon DEF OpToRel
<1> HIDE DEF R
<1>3. PICK x \in S : \A y \in S : ~(<<y, x>> \in R)
  BY <1>1, WFMin, Zenon
<1>4. \A a, b \in Nat : ~(a < b) => b <= a
  OBVIOUS
<1> QED
  BY <1>2, <1>3, <1>4
=============================================================================
