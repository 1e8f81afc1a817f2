------------------------------- MODULE Induction -------------------------------
(***************************************************************************)
(* Induction over the natural numbers for a set, not for an operator: the  *)
(* proofs about recursively defined functions rest on it.                  *)
(***************************************************************************)
EXTENDS Naturals, TLAPS, WellFoundedInduction

(* A set with 0 that has n + 1 whenever it has n has all natural numbers.  *)
LEMMA SetInduction ==
  ASSUME NEW S, 0 \in S, \A n \in Nat : n \in S => n + 1 \in S
  PROVE  Nat \subseteq S
<1> DEFINE T == Nat \ S
<1> DEFINE R == OpToRel(<, Nat)
<1>1. SUFFICES ASSUME T # {} PROVE FALSE
  OBVIOUS
<1>2. IsWellFoundedOn(R, Nat)
  BY NatLessThanWellFounded
<1>3. \E x \in T : \A y \in T : ~ (<<y, x>> \in R)
  <2>1. T \subseteq Nat OBVIOUS
  <2> HIDE DEF T, R
  <2> QED BY <1>1, <1>2, <2>1, WFMin
<1>4. PICK x \in T : \A y \in T : ~ (<<y, x>> \in R)
  BY <1>3
<1>5. x \in Nat /\ x # 0 /\ x \notin S
  OBVIOUS
<1>6. x - 1 \in T
  <2>1. x - 1 \in Nat /\ (x - 1) + 1 = x
    BY <1>5
  <2> QED BY <2>1, <1>5
<1>7. <<x - 1, x>> \in R
  BY <1>5 DEF OpToRel
<1> QED BY <1>4, <1>6, <1>7
================================================================================
