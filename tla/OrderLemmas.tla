----------------------------- MODULE OrderLemmas -----------------------------
(***************************************************************************)
(* Facts about numbers that the proofs of several modules use: the code    *)
(* takes a smallest element in many places (the lowest free descriptor,    *)
(* the first error, the nearest deadline, the first setting that works),   *)
(* and a smallest counterexample takes the place of induction.             *)
(***************************************************************************)
EXTENDS Integers, NaturalsInduction, WellFoundedInduction, TLAPS

\* A set of numbers that is not empty has a smallest element.
LEMMA NatMin ==
  ASSUME NEW S \in SUBSET Nat, S # {}
  PROVE  \E m \in S : \A n \in S : m <= n
<1> DEFINE R == OpToRel(<, Nat)
<1>1. IsWellFoundedOn(R, Nat)
  BY NatLessThanWellFounded
<1>2. PICK m \in S : \A n \in S : ~(<<n, m>> \in R)
  <2> HIDE DEF R
  <2> QED BY <1>1, WFMin
<1>3. \A n \in S : ~(n < m)
  BY <1>2 DEF OpToRel
<1>4. QED
  BY <1>3
=============================================================================
