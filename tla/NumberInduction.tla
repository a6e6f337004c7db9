--------------------------- MODULE NumberInduction ---------------------------
(***************************************************************************)
(* Induction over the natural numbers with sets in the place of predicates.*)
(***************************************************************************)
EXTENDS Integers, WellFoundedInduction, TLAPS

(* The order of the numbers, as a relation.                                *)
NumberOrder == {pair \in Nat \X Nat : pair[1] < pair[2]}

(* A set of numbers that is not empty has a least member.                  *)
LEMMA LeastNumber ==
    ASSUME NEW T \in SUBSET Nat, T # {}
    PROVE  \E x \in T : \A y \in T : ~(y < x)
<1>1. IsWellFoundedOn(NumberOrder, Nat) BY NatLessThanWellFounded DEF NumberOrder, OpToRel
<1>2. \E x \in T : \A y \in T : <<y, x>> \notin NumberOrder BY <1>1, WFMin
<1> QED BY <1>2 DEF NumberOrder

(* A set of numbers that holds 0 and the successor of each of its members  *)
(* is Nat: the form of induction that the provers can use.                 *)
LEMMA Induction ==
    ASSUME NEW S \in SUBSET Nat, 0 \in S, \A n \in S : n + 1 \in S
    PROVE  S = Nat
<1> SUFFICES ASSUME S # Nat PROVE FALSE OBVIOUS
<1> DEFINE T == Nat \ S
<1>1. PICK x \in T : \A y \in T : ~(y < x) BY LeastNumber
<1>2. x # 0 /\ x \in Nat OBVIOUS
<1>3. x - 1 \in S BY <1>1, <1>2
<1>4. (x - 1) + 1 \in S BY <1>3
<1> QED BY <1>1, <1>2, <1>4
=============================================================================
