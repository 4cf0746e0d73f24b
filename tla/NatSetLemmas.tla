----------------------------- MODULE NatSetLemmas -----------------------------
(***************************************************************************)
(* The least and the greatest of a set of numbers, which the proofs about   *)
(* message lists and message handlers use.                                  *)
(***************************************************************************)
EXTENDS Integers, WellFoundedInduction, TLAPS

\* A set of natural numbers that is not empty has a least element.
LEMMA LeastOf ==
  ASSUME NEW T \in SUBSET Nat, T # {}
  PROVE  \E t \in T : \A u \in T : t <= u
<1>1. PICK t \in T : \A u \in T : ~(<<u, t>> \in OpToRel(<, Nat))
  BY NatLessThanWellFounded, WFMin, Zenon
<1>2. ASSUME NEW u \in T PROVE ~(u < t)
  BY <1>1, Zenon DEF OpToRel
<1>3. ASSUME NEW u \in T PROVE t <= u
  <2>1. t \in Nat /\ u \in Nat
    OBVIOUS
  <2> HIDE <1>1
  <2> QED
    BY <2>1, <1>2
<1> QED
  BY <1>3, Zenon

\* A set of integers between two bounds that is not empty has a greatest element.
LEMMA GreatestOf ==
  ASSUME NEW a \in Int, NEW b \in Int, NEW S \in SUBSET (a .. b), S # {}
  PROVE  \E s \in S : \A u \in S : u <= s
<1> DEFINE T == {n \in Nat : b - n \in S}
<1>1. T \in SUBSET Nat
  OBVIOUS
<1>2. T # {}
  <2>1. PICK s \in S : TRUE
    OBVIOUS
  <2>2. s \in a .. b /\ b - s \in Nat /\ b - (b - s) = s
    BY <2>1
  <2> QED
    BY <2>1, <2>2
<1>3. PICK t \in T : \A u \in T : t <= u
  <2> HIDE DEF T
  <2> QED
    BY <1>1, <1>2, LeastOf, Zenon
<1>4. ASSUME NEW u \in S PROVE u <= b - t
  <2>1. u \in a .. b
    OBVIOUS
  <2>2. b - u \in Nat /\ b - (b - u) = u
    BY <2>1
  <2>3. b - u \in T
    BY <2>2
  <2>4. t <= b - u /\ t \in Nat
    BY <2>3, <1>3
  <2> QED
    BY <2>1, <2>4
<1> QED
  BY <1>4
===============================================================================
