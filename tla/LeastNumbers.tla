---------------------------- MODULE LeastNumbers ----------------------------
(* A nonempty set of natural numbers has a least element. *)
EXTENDS Integers, WellFoundedInduction, TLAPS

Lt == {e \in Nat \X Nat : e[1] < e[2]}

(* A set of naturals that is not empty has a least member. *)
LEMMA LeastNumber ==
  ASSUME NEW S \in SUBSET Nat, S # {}
  PROVE  \E x \in S : \A y \in S : x <= y
<1>1. IsWellFoundedOn(Lt, Nat)
  BY NatLessThanWellFounded DEF OpToRel, Lt
<1>2. PICK x \in S : \A y \in S : ~(<<y, x>> \in Lt)
  BY <1>1, WFMin
<1>3. ASSUME NEW y \in S, y < x PROVE FALSE
  <2>1. <<y, x>> \in Lt
    BY <1>3 DEF Lt
  <2>. QED BY <2>1, <1>2
<1>. QED BY <1>3
=============================================================================
