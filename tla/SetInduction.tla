----------------------------- MODULE SetInduction -----------------------------
(***************************************************************************)
(* Induction over the natural numbers in terms of sets and functions.  The *)
(* library states it for operators; here the statement to be proved is a   *)
(* set of numbers, which the provers can instantiate.  A set that contains *)
(* 0 and with every number the next contains them all, so a recursive      *)
(* function exists whenever its step is a function.  What a recursive      *)
(* definition of the models computes is proved from these two facts.       *)
(***************************************************************************)
EXTENDS Integers, WellFoundedInduction, TLAPS

Under == OpToRel(<, Nat)

LEMMA Below == \A m, n \in Nat : m < n => <<m, n>> \in Under
  BY DEF Under, OpToRel

\* A set of natural numbers that is not empty has a least element.
LEMMA Least ==
  ASSUME NEW T \in SUBSET Nat, T # {}
  PROVE  \E n \in T : \A m \in T : n <= m
<1>1. IsWellFoundedOn(Under, Nat)
  BY NatLessThanWellFounded DEF Under
<1>2. PICK n \in T : \A m \in T : <<m, n>> \notin Under
  BY <1>1, WFMin
<1>3. \A m \in T : ~(m < n)
  BY <1>2, Below, Zenon
<1>4. QED
  BY <1>3, SMT

\* Induction: S is the set of the numbers for which the claim holds.
LEMMA Induction ==
  ASSUME NEW S, 0 \in S, \A n \in Nat : n \in S => n + 1 \in S
  PROVE  Nat \subseteq S
<1>1. SUFFICES ASSUME Nat \ S # {} PROVE FALSE
  OBVIOUS
<1>2. PICK n \in Nat \ S : \A m \in Nat \ S : n <= m
  BY <1>1, Least
<1>3. n - 1 \in Nat /\ n - 1 \notin Nat \ S
  BY <1>2
<1>4. QED
  BY <1>2, <1>3

\* A recursion over 0..N: step yields the value at i from i and the value before.
Solves(g, V, base, step, N) ==
  /\ g \in [0..N -> V] /\ g[0] = base
  /\ \A i \in 1..N : g[i] = step[<<i, g[i - 1]>>]

\* It has a solution.
LEMMA Recursion ==
  ASSUME NEW V, NEW base \in V, NEW step \in [Nat \X V -> V], NEW N \in Nat
  PROVE  \E g : Solves(g, V, base, step, N)
<1> DEFINE S == {n \in Nat : \E g : Solves(g, V, base, step, n)}
<1>1. 0 \in S
  <2>1. Solves([i \in 0..0 |-> base], V, base, step, 0)
    BY DEF Solves
  <2>2. QED
    BY <2>1
<1>2. ASSUME NEW n \in Nat, n \in S PROVE n + 1 \in S
  <2>1. PICK g : Solves(g, V, base, step, n)
    BY <1>2
  <2> DEFINE h == [i \in 0..n + 1 |-> IF i <= n THEN g[i] ELSE step[<<n + 1, g[n]>>]]
  <2>2. h \in [0..n + 1 -> V] /\ h[0] = base
    BY <2>1 DEF Solves
  <2>3. ASSUME NEW i \in 1..n + 1 PROVE h[i] = step[<<i, h[i - 1]>>]
    <3>1. CASE i <= n
      BY <2>1, <3>1 DEF Solves
    <3>2. CASE i = n + 1
      BY <2>1, <3>2 DEF Solves
    <3>3. QED
      BY <3>1, <3>2
  <2>4. Solves(h, V, base, step, n + 1)
    <3> HIDE DEF h
    <3>1. QED
      BY <2>2, <2>3 DEF Solves
  <2>5. \E k : Solves(k, V, base, step, n + 1)
    <3> HIDE DEF h
    <3>1. QED
      BY <2>4
  <2>6. n + 1 \in Nat
    OBVIOUS
  <2>7. QED
    BY <2>5, <2>6
<1>3. Nat \subseteq S
  <2> HIDE DEF S
  <2>1. QED
    BY <1>1, <1>2, Induction
<1>4. QED
  BY <1>3
=============================================================================
