---------------------------- MODULE SetInduction ----------------------------
(* Induction on the natural numbers, stated for a set instead of an operator *)
(* so that it can be cited, and what it gives for functions defined by       *)
(* recursion on an interval.                                                 *)
EXTENDS Naturals, WellFoundedInduction, TLAPS

\* A set that has 0 and with a number the next one has all of them.
LEMMA SetInduction ==
    ASSUME NEW S, 0 \in S, \A n \in Nat : n \in S => n + 1 \in S
    PROVE  Nat \subseteq S
<1> DEFINE R == {ss \in Nat \X Nat : ss[1] < ss[2]}
<1> DEFINE T == Nat \ S
<1>1. IsWellFoundedOn(R, Nat)
  BY NatLessThanWellFounded DEF OpToRel
<1>2. SUFFICES ASSUME T # {}
               PROVE  FALSE
  OBVIOUS
<1>3. T \subseteq Nat
  OBVIOUS
<1> HIDE DEF R, T
<1>4. PICK x \in T : \A y \in T : ~ (<<y, x>> \in R)
  BY <1>1, <1>2, <1>3, WFMin
<1>5. x \in Nat /\ x \notin S /\ x # 0
  BY <1>3 DEF T
<1>6. x - 1 \in Nat /\ x - 1 < x
  BY <1>5
<1>7. <<x - 1, x>> \in R
  BY <1>5, <1>6 DEF R
<1>8. (x - 1) + 1 \in S
  BY <1>4, <1>6, <1>7 DEF T
<1> QED
  BY <1>8, <1>5

\* The same up to a number.
LEMMA IntervalInduction ==
    ASSUME NEW n \in Nat, NEW S, 0 \in S,
           \A i \in 0..n : i \in S /\ i < n => i + 1 \in S
    PROVE  0..n \subseteq S
<1> DEFINE T == {i \in Nat : i =< n => i \in S}
<1>1. Nat \subseteq T
  <2>1. 0 \in T
    OBVIOUS
  <2>2. \A i \in Nat : i \in T => i + 1 \in T
    OBVIOUS
  <2> HIDE DEF T
  <2> QED
    BY <2>1, <2>2, SetInduction
<1> QED
  BY <1>1

\* Each value of g is made of the one before.
Iterates(g, n, first, step) ==
    /\ g[0] = first
    /\ \A i \in 1..n : g[i] = step[i][g[i - 1]]

\* What a recursive definition needs.
LEMMA RecursionExists ==
    ASSUME NEW n \in Nat, NEW D, NEW first \in D, NEW step \in [1..n -> [D -> D]]
    PROVE  \E g \in [0..n -> D] : Iterates(g, n, first, step)
<1> DEFINE T == {k \in 0..n : \E g \in [0..k -> D] :
                    /\ g[0] = first
                    /\ \A i \in 1..k : g[i] = step[i][g[i - 1]]}
<1>1. 0 \in T
  <2> DEFINE g == [i \in 0..0 |-> first]
  <2>1. g \in [0..0 -> D] /\ g[0] = first /\ 1..0 = {} /\ 0 \in 0..n
    OBVIOUS
  <2> HIDE DEF g
  <2>2. \A i \in 1..0 : g[i] = step[i][g[i - 1]]
    BY <2>1
  <2> QED
    BY <2>1, <2>2
<1>2. ASSUME NEW k \in 0..n, k \in T, k < n
      PROVE  k + 1 \in T
  <2>1. PICK g \in [0..k -> D] : /\ g[0] = first
                                /\ \A i \in 1..k : g[i] = step[i][g[i - 1]]
    BY <1>2
  <2> DEFINE h == [i \in 0..k + 1 |-> IF i =< k THEN g[i] ELSE step[i][g[k]]]
  <2>2. k + 1 \in 1..n /\ g[k] \in D
    BY <1>2
  <2>3. h \in [0..k + 1 -> D]
    <3>1. ASSUME NEW i \in 0..k + 1
          PROVE  h[i] \in D
      <4>1. CASE i =< k
        BY <4>1
      <4>2. CASE i = k + 1
        <5>1. step[k + 1] \in [D -> D]
          BY <2>2
        <5>2. step[k + 1][g[k]] \in D
          BY <5>1, <2>2
        <5>3. ~(k + 1 =< k)
          OBVIOUS
        <5> QED
          BY <5>2, <5>3, <4>2
      <4> QED
        BY <4>1, <4>2
    <3> QED
      BY <3>1
  <2>4. h[0] = first /\ \A i \in 1..k + 1 : h[i] = step[i][h[i - 1]]
    <3>1. h[0] = first
      BY <2>1
    <3>2. ASSUME NEW i \in 1..k + 1
          PROVE  h[i] = step[i][h[i - 1]]
      <4>1. i - 1 \in 0..k /\ h[i - 1] = g[i - 1]
        OBVIOUS
      <4>2. CASE i =< k
        BY <4>1, <4>2, <2>1
      <4>3. CASE i = k + 1
        <5>1. i - 1 = k /\ ~(i =< k)
          BY <4>3
        <5> QED
          BY <4>1, <5>1
      <4> QED
        BY <4>2, <4>3
    <3> QED
      BY <3>1, <3>2
  <2> HIDE DEF h
  <2>5. k + 1 \in 0..n
    BY <1>2
  <2> QED
    BY <2>3, <2>4, <2>5
<1> HIDE DEF T
<1>3. n \in T
  <2>1. 0..n \subseteq T
    BY <1>1, <1>2, IntervalInduction
  <2> QED
    BY <2>1
<1> QED
  BY <1>3 DEF T, Iterates
=============================================================================
