----------------------------- MODULE Iteration -----------------------------
(***************************************************************************)
(* Induction and recursion over numbers, on sets and functions instead of   *)
(* predicates and operators: what the proofs about the loops of the other   *)
(* modules rest on.                                                         *)
(***************************************************************************)
EXTENDS Integers, Sequences, FiniteSets, WellFoundedInduction, TLAPS

LEMMA LessWellFounded == IsWellFoundedOn({p \in Nat \X Nat : p[1] < p[2]}, Nat)
BY NatLessThanWellFounded DEF OpToRel

(* A set of numbers that is not empty has a least one.                      *)
LEMMA Least ==
  ASSUME NEW S \in SUBSET Nat, S # {}
  PROVE  \E x \in S : \A y \in S : x <= y
<1> DEFINE R == {p \in Nat \X Nat : p[1] < p[2]}
<1>1. PICK x \in S : \A y \in S : <<y, x>> \notin R
  <2>1. IsWellFoundedOn(R, Nat)  BY LessWellFounded
  <2> HIDE DEF R
  <2>2. QED BY <2>1, WFMin
<1>2. ASSUME NEW y \in S PROVE x <= y
  <2>1. ~(y < x)  BY <1>1
  <2>2. QED BY <2>1
<1>3. QED BY <1>2

(* Induction: a set that has 0, and n + 1 with n, has every number.         *)
LEMMA Induction ==
  ASSUME NEW S, 0 \in S, \A n \in Nat : n \in S => n + 1 \in S
  PROVE  \A n \in Nat : n \in S
<1>1. SUFFICES ASSUME Nat \ S # {} PROVE FALSE  OBVIOUS
<1>2. PICK x \in Nat \ S : \A y \in Nat \ S : x <= y  BY <1>1, Least
<1>3. x # 0 /\ x - 1 \in Nat /\ ~(x <= x - 1)  BY <1>2
<1>4. x - 1 \in S  BY <1>2, <1>3
<1>5. (x - 1) + 1 \in S  BY <1>3, <1>4
<1>6. QED BY <1>2, <1>5

(* Induction up to a bound.                                                 *)
LEMMA BoundedInduction ==
  ASSUME NEW m \in Nat, NEW S, 0 \in S, \A n \in 0..(m - 1) : n \in S => n + 1 \in S
  PROVE  \A n \in 0..m : n \in S
<1> DEFINE T == {n \in Nat : n <= m => n \in S}
<1>1. 0 \in T  OBVIOUS
<1>2. ASSUME NEW n \in Nat, n \in T PROVE n + 1 \in T
  BY <1>2
<1>3. \A n \in Nat : n \in T
  <2> HIDE DEF T
  <2>1. QED BY <1>1, <1>2, Induction
<1>4. QED BY <1>3

(* The body G of a loop, a function of its values and its counter, stays     *)
(* among the values S; f holds the values of the loop that begins with a.    *)
Stays(m, S, G) == \A s \in S, k \in 1..m : G[<<s, k>>] \in S
Runs(f, m, a, G) == f[0] = a /\ \A k \in 1..m : f[k] = G[<<f[k - 1], k>>]

(* A loop that runs from 0 to m has its values: recursion defines a function *)
(* of the loop's counter.                                                   *)
LEMMA Loop ==
  ASSUME NEW m \in Nat, NEW S, NEW a \in S, NEW G, Stays(m, S, G)
  PROVE  \E f \in [0..m -> S] : Runs(f, m, a, G)
<1> DEFINE T == {n \in 0..m : \E f \in [0..n -> S] : Runs(f, n, a, G)}
<1>1. 0 \in T
  <2>1. \E f : f \in [0..0 -> S] /\ Runs(f, 0, a, G)
    <3> DEFINE f0 == [k \in 0..0 |-> a]
    <3>1. f0 \in [0..0 -> S] /\ Runs(f0, 0, a, G)  BY DEF Runs
    <3> HIDE DEF f0
    <3>2. QED BY <3>1
  <2>2. QED BY <2>1
<1>2. ASSUME NEW n \in 0..(m - 1), n \in T PROVE n + 1 \in T
  <2>1. PICK f \in [0..n -> S] : Runs(f, n, a, G)  BY <1>2
  <2> DEFINE g == [k \in 0..(n + 1) |-> IF k <= n THEN f[k] ELSE G[<<f[n], n + 1>>]]
  <2>2. n \in 0..n /\ n + 1 \in 1..m  BY <1>2
  <2>3. f[n] \in S /\ G[<<f[n], n + 1>>] \in S  BY <2>2 DEF Stays
  <2>4. g \in [0..(n + 1) -> S]  BY <2>2, <2>3
  <2>5. g[0] = a  BY <2>1 DEF Runs
  <2>6. ASSUME NEW k \in 1..(n + 1) PROVE g[k] = G[<<g[k - 1], k>>]
    <3>1. n \in Int /\ k \in Int /\ k >= 1 /\ k <= n + 1  BY <1>2
    <3>2. CASE k <= n
      <4>1. k \in 1..n /\ k \in 0..(n + 1) /\ k - 1 \in 0..(n + 1) /\ k - 1 <= n
        BY <3>1, <3>2
      <4>2. f[k] = G[<<f[k - 1], k>>]  BY <2>1, <4>1 DEF Runs
      <4>3. g[k] = f[k] /\ g[k - 1] = f[k - 1]  BY <3>2, <4>1
      <4>4. QED BY <4>2, <4>3
    <3>3. CASE k = n + 1
      <4>1. k \in 0..(n + 1) /\ ~(k <= n) /\ k - 1 = n /\ n \in 0..(n + 1) /\ n <= n
        BY <3>1, <3>3, <2>2
      <4>2. g[k] = G[<<f[n], n + 1>>] /\ g[n] = f[n]  BY <4>1
      <4>3. QED BY <3>3, <4>1, <4>2
    <3>4. QED BY <3>1, <3>2, <3>3
  <2>7. Runs(g, n + 1, a, G)
    <3> HIDE DEF g
    <3>1. QED BY <2>5, <2>6 DEF Runs
  <2> HIDE DEF g
  <2>8. n + 1 \in 0..m  BY <1>2
  <2>9. QED BY <2>4, <2>7, <2>8
<1>3. \A n \in 0..m : n \in T
  <2> HIDE DEF T
  <2>1. QED BY <1>1, <1>2, BoundedInduction
<1>4. m \in 0..m  OBVIOUS
<1>5. QED BY <1>3, <1>4
=============================================================================
