----------------------------- MODULE NatRecursion -----------------------------
(***************************************************************************)
(* Induction and recursion up to a number, in the form that proofs about   *)
(* loops cite: the property is a set, and the step of the recursion is a   *)
(* function, so that no lemma has an operator for a parameter.             *)
(***************************************************************************)
EXTENDS Integers, WellFoundedInduction, TLAPS

\* The time limits of a leaf that names no prover.
USE SMTT(30), ZenonT(30)

\* A set of naturals that is not empty has a least element.
LEMMA Least ==
  ASSUME NEW T \in SUBSET Nat, T # {}
  PROVE  \E m \in T : \A t \in T : m <= t
<1>1. PICK m \in T : \A t \in T : ~(<<t, m>> \in OpToRel(<, Nat))
  BY WFMin, NatLessThanWellFounded, Zenon
<1>2. \A t \in T : ~(t < m)
  BY <1>1, Zenon DEF OpToRel
<1> QED BY <1>2

\* What holds at 0, and at i when it holds at i - 1, holds up to n.
LEMMA UpToInduction ==
  ASSUME NEW n \in Nat, NEW S, 0 \in S, \A i \in 1..n : i - 1 \in S => i \in S
  PROVE  \A i \in 0..n : i \in S
<1> DEFINE Bad == {i \in 0..n : i \notin S}
<1> SUFFICES Bad = {}
  OBVIOUS
<1>1. ASSUME Bad # {} PROVE FALSE
  <2>0. Bad \in SUBSET Nat
    OBVIOUS
  <2> HIDE DEF Bad
  <2>1. PICK m \in Bad : \A t \in Bad : m <= t
    BY <1>1, <2>0, Least, Zenon
  <2> USE DEF Bad
  <2>2. m \in 1..n /\ m - 1 \in 0..n /\ m - 1 \notin Bad
    BY <2>1
  <2> QED BY <2>2
<1> QED BY <1>1

\* f starts with v0, and step takes it from i - 1 to i.
Iterates(f, n, V, v0, step) ==
  f \in [0..n -> V] /\ f[0] = v0 /\ \A i \in 1..n : f[i] = step[i][f[i - 1]]

\* There is such a function.
LEMMA UpToRecursion ==
  ASSUME NEW n \in Nat, NEW V, NEW v0 \in V, NEW step \in [1..n -> [V -> V]]
  PROVE  \E f : Iterates(f, n, V, v0, step)
<1> DEFINE S == {k \in 0..n : \E g \in [0..k -> V] :
                   g[0] = v0 /\ \A i \in 1..k : g[i] = step[i][g[i - 1]]}
<1>1. 0 \in S
  <2> DEFINE g == [i \in 0..0 |-> v0]
  <2>1. g \in [0..0 -> V] /\ g[0] = v0 /\ \A i \in 1..0 : g[i] = step[i][g[i - 1]]
    OBVIOUS
  <2> HIDE DEF g
  <2> QED BY <2>1
<1>2. ASSUME NEW k \in 1..n, k - 1 \in S PROVE k \in S
  <2>1. PICK g \in [0..(k - 1) -> V] :
          g[0] = v0 /\ \A i \in 1..(k - 1) : g[i] = step[i][g[i - 1]]
    BY <1>2
  <2> DEFINE h == [i \in 0..k |-> IF i = k THEN step[k][g[k - 1]] ELSE g[i]]
  <2>2. g[k - 1] \in V /\ step[k] \in [V -> V]
    OBVIOUS
  <2>3. h \in [0..k -> V]
    BY <2>2
  <2>4. h[0] = v0
    BY <2>1
  <2>5. ASSUME NEW i \in 1..k PROVE h[i] = step[i][h[i - 1]]
    <3>1. CASE i = k BY <3>1
    <3>2. CASE i # k
      <4>1. i \in 1..(k - 1) /\ i - 1 \in 0..(k - 1) /\ i - 1 # k
        BY <3>2
      <4>2. h[i] = g[i] /\ h[i - 1] = g[i - 1]
        BY <4>1
      <4> QED BY <2>1, <4>1, <4>2
    <3> QED BY <3>1, <3>2
  <2> HIDE DEF h
  <2>6. \E x \in [0..k -> V] : x[0] = v0 /\ \A i \in 1..k : x[i] = step[i][x[i - 1]]
    BY <2>3, <2>4, <2>5, Zenon
  <2>7. k \in 0..n
    OBVIOUS
  <2> QED BY <2>6, <2>7, Zenon
<1> HIDE DEF S
<1>3. \A k \in 1..n : k - 1 \in S => k \in S
  BY <1>2, Zenon
<1>4. \A k \in 0..n : k \in S
  BY <1>1, <1>3, UpToInduction, Zenon
<1>5. n \in S
  BY <1>4
<1> QED BY <1>5, Zenon DEF S, Iterates

=============================================================================
