------------------------------ MODULE LeastNumber ------------------------------
(***************************************************************************)
(* Induction without an operator to instantiate: a set of natural numbers  *)
(* that is not empty has a least element.  The set is that of the numbers  *)
(* for which a claim fails.                                                *)
(***************************************************************************)
EXTENDS Integers, WellFoundedInduction, TLAPS

LEMMA LessRelation == \A x, y \in Nat : <<x, y>> \in OpToRel(<, Nat) <=> x < y
BY DEF OpToRel

LEMMA LeastNumber ==
  ASSUME NEW S \in SUBSET Nat, S # {}
  PROVE  \E x \in S : \A y \in S : x <= y
<1>1. PICK x \in S : \A y \in S : ~(<<y, x>> \in OpToRel(<, Nat))
  BY NatLessThanWellFounded, WFMin
<1>2. \A y \in S : ~(y < x)
  BY <1>1, LessRelation
<1> QED
  BY ONLY <1>2, S \in SUBSET Nat, x \in S
================================================================================
