------------------------------ MODULE Induction ------------------------------
(***************************************************************************)
(* Induction over the natural numbers and functions defined by primitive   *)
(* recursion, with sets and functions in the place of operators.           *)
(***************************************************************************)
EXTENDS Integers, WellFoundedInduction, TLAPS

(* A set of numbers that is not empty has a least element.                 *)
LEMMA LeastNumber ==
  ASSUME NEW S, S \subseteq Nat, S # {}
  PROVE  \E i \in S : \A j \in S : i <= j
<1>1. IsWellFoundedOn(OpToRel(<, Nat), Nat)
  BY NatLessThanWellFounded
<1>2. PICK i \in S : \A j \in S : <<j, i>> \notin OpToRel(<, Nat)
  BY <1>1, WFMin
<1>3. ASSUME NEW j \in S, j < i PROVE FALSE
  BY <1>2, <1>3 DEF OpToRel
<1> QED  BY <1>3

(* A set that has 0, and with every number below n the next one, has all   *)
(* numbers up to n.                                                        *)
LEMMA InductionUpTo ==
  ASSUME NEW n \in Nat, NEW S,
         0 \in S, \A i \in 0 .. n - 1 : i \in S => i + 1 \in S
  PROVE  0 .. n \subseteq S
<1> DEFINE Missing == {i \in 0 .. n : i \notin S}
<1>1. CASE Missing = {}
  BY <1>1
<1>2. CASE Missing # {}
  <2>1. PICK m \in Missing : \A j \in Missing : m <= j
    <3>1. Missing \subseteq Nat
      OBVIOUS
    <3> HIDE DEF Missing
    <3> QED  BY <1>2, <3>1, LeastNumber
  <2>2. m # 0 /\ m - 1 \in 0 .. n - 1 /\ m - 1 \notin Missing
    BY <2>1
  <2>3. m - 1 \in S /\ (m - 1) + 1 = m
    BY <2>2
  <2>4. m \in S
    BY <2>2, <2>3
  <2> QED  BY <2>1, <2>4
<1> QED  BY <1>1, <1>2

(* What n steps make of a start: step[i] is the i-th of them.              *)
Iterates(f, n, D, start, step) ==
  /\ f \in [0 .. n -> D]
  /\ f[0] = start /\ \A i \in 1 .. n : f[i] = step[i][f[i - 1]]

(* From any start steps can be taken, as many as there are.                *)
LEMMA IteratedStep ==
  ASSUME NEW n \in Nat, NEW D, NEW start \in D, NEW step \in [1 .. n -> [D -> D]]
  PROVE  \E f : Iterates(f, n, D, start, step)
<1> DEFINE Partial(k, f) ==
             f[0] = start /\ \A i \in 1 .. k : f[i] = step[i][f[i - 1]]
           S == {k \in 0 .. n : \E f \in [0 .. k -> D] : Partial(k, f)}
<1>1. 0 \in S
  <2>1. [i \in 0 .. 0 |-> start] \in [0 .. 0 -> D] /\ Partial(0, [i \in 0 .. 0 |-> start])
    OBVIOUS
  <2>2. \E f \in [0 .. 0 -> D] : Partial(0, f)
    BY <2>1
  <2> QED  BY <2>2
<1>2. ASSUME NEW k \in 0 .. n - 1, k \in S
      PROVE  k + 1 \in S
  <2>1. PICK f \in [0 .. k -> D] : Partial(k, f)
    BY <1>2
  <2> DEFINE g == [i \in 0 .. k + 1 |-> IF i = k + 1 THEN step[k + 1][f[k]] ELSE f[i]]
  <2>2. k + 1 \in 1 .. n /\ k \in 0 .. k /\ step[k + 1][f[k]] \in D
    OBVIOUS
  <2>3. g \in [0 .. k + 1 -> D]
    BY <2>2
  <2>4. ASSUME NEW i \in 1 .. k + 1 PROVE g[i] = step[i][g[i - 1]]
    <3>1. CASE i = k + 1
      BY <2>2, <3>1
    <3>2. CASE i # k + 1
      <4>1. i \in 1 .. k /\ i \in 0 .. k + 1 /\ i - 1 \in 0 .. k + 1 /\ i - 1 # k + 1
        BY <3>2
      <4>2. g[i] = f[i] /\ g[i - 1] = f[i - 1]
        BY <3>2, <4>1
      <4> QED  BY <2>1, <4>1, <4>2
    <3> QED  BY <3>1, <3>2
  <2>5. g[0] = start
    BY <2>1
  <2>6. \E h \in [0 .. k + 1 -> D] : Partial(k + 1, h)
    <3> HIDE DEF g
    <3> QED  BY <2>3, <2>4, <2>5
  <2> QED  BY <2>2, <2>6
<1>3. 0 .. n \subseteq S
  <2> HIDE DEF S
  <2> QED  BY <1>1, <1>2, InductionUpTo
<1> QED  BY <1>3 DEF Iterates

=============================================================================
