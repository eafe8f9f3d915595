----------------------------- MODULE Inductions -----------------------------
(***************************************************************************)
(* Induction and iteration, with sets and functions for operators. The     *)
(* provers know no induction, and the library's induction theorems take    *)
(* an operator. The induction here is over sets: a set of numbers that is  *)
(* not empty has a least element, from the well-foundedness of < on Nat.   *)
(***************************************************************************)
EXTENDS Integers, WellFoundedInduction, TLAPS

LEMMA LeastElement ==
  ASSUME NEW T, T \subseteq Nat, T # {}
  PROVE  \E m \in T : \A n \in T : m <= n
<1> DEFINE Less == OpToRel(<, Nat)
<1>1. IsWellFoundedOn(Less, Nat)
  BY NatLessThanWellFounded
<1>2. \A x, y \in Nat : x < y => <<x, y>> \in Less
  BY DEF OpToRel
<1> HIDE DEF Less
<1>3. PICK m \in T : \A y \in T : ~(<<y, m>> \in Less)
  BY <1>1, WFMin
<1>4. ASSUME NEW y \in T
      PROVE  m <= y
  <2>1. m \in Nat /\ y \in Nat
    OBVIOUS
  <2>2. ~(y < m)
    BY <2>1, <1>2, <1>3
  <2>3. QED
    BY <2>1, <2>2
<1>5. QED
  BY <1>3, <1>4

\* A set of numbers that has 0 and with each number the next has them all.
LEMMA Induction ==
  ASSUME NEW S, 0 \in S, \A n \in Nat : n \in S => n + 1 \in S
  PROVE  Nat \subseteq S
<1>1. SUFFICES ASSUME Nat \ S # {}
               PROVE  FALSE
  OBVIOUS
<1>2. PICK m \in Nat \ S : \A n \in Nat \ S : m <= n
  BY <1>1, LeastElement
<1>3. m # 0 /\ m - 1 \in Nat /\ m - 1 \notin Nat \ S
  BY <1>2
<1>4. (m - 1) + 1 \in S
  BY <1>3
<1>5. QED
  BY <1>2, <1>4

\* The same with all smaller numbers.
LEMMA StrongInduction ==
  ASSUME NEW S, \A n \in Nat : (\A m \in 0..n - 1 : m \in S) => n \in S
  PROVE  Nat \subseteq S
<1>1. SUFFICES ASSUME Nat \ S # {}
               PROVE  FALSE
  OBVIOUS
<1>2. PICK m \in Nat \ S : \A n \in Nat \ S : m <= n
  BY <1>1, LeastElement
<1>3. \A k \in 0..m - 1 : k \in S
  BY <1>2
<1>4. QED
  BY <1>2, <1>3

\* A recursion by a step that is given as a function has a solution.
Iterates(f, v0, step, n) ==
  f[0] = v0 /\ \A i \in 1..n : f[i] = step[i][f[i - 1]]

LEMMA Iteration ==
  ASSUME NEW V, NEW v0 \in V, NEW n \in Nat, NEW step \in [1..n -> [V -> V]]
  PROVE  \E f \in [0..n -> V] : Iterates(f, v0, step, n)
<1> DEFINE Solves(f, k) == f[0] = v0 /\ \A i \in 1..k : f[i] = step[i][f[i - 1]]
           S == {k \in Nat : k <= n => \E f \in [0..k -> V] : Solves(f, k)}
<1>1. 0 \in S
  <2>1. [i \in 0..0 |-> v0] \in [0..0 -> V] /\ Solves([i \in 0..0 |-> v0], 0)
    OBVIOUS
  <2>2. QED
    BY <2>1
<1>2. ASSUME NEW k \in Nat, k \in S
      PROVE  k + 1 \in S
  <2>1. SUFFICES ASSUME k + 1 <= n
                 PROVE  \E f \in [0..k + 1 -> V] : Solves(f, k + 1)
    OBVIOUS
  <2>2. PICK g \in [0..k -> V] : Solves(g, k)
    BY <1>2, <2>1
  <2>3. step[k + 1][g[k]] \in V
    BY <2>1
  <2> DEFINE h == [i \in 0..k + 1 |-> IF i = k + 1 THEN step[k + 1][g[k]] ELSE g[i]]
  <2>4. h \in [0..k + 1 -> V]
    BY <2>3
  <2>5. h[0] = v0
    BY <2>2
  <2>6. ASSUME NEW i \in 1..k + 1
        PROVE  h[i] = step[i][h[i - 1]]
    <3>1. CASE i = k + 1
      <4>1. h[i] = step[k + 1][g[k]] /\ h[i - 1] = g[k]
        BY <3>1
      <4>2. QED
        BY <3>1, <4>1
    <3>2. CASE i # k + 1
      <4>1. i \in 1..k /\ h[i] = g[i] /\ h[i - 1] = g[i - 1]
        BY <3>2
      <4>2. QED
        BY <2>2, <4>1
    <3>3. QED
      BY <3>1, <3>2
  <2>7. QED
    BY <2>4, <2>5, <2>6
<1>3. Nat \subseteq S
  <2> HIDE DEF S
  <2>1. QED
    BY <1>1, <1>2, Induction
<1>4. QED
  BY <1>3 DEF Iterates
=============================================================================
