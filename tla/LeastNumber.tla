------------------------------ MODULE LeastNumber ------------------------------
(***************************************************************************)
(* What stands for induction in the proofs about files and lists: of the   *)
(* places where something fails there is a first, and the place before it  *)
(* holds.                                                                  *)
(***************************************************************************)
EXTENDS WellFoundedInduction, TLAPS

(* Natural numbers have a least one among them. *)
LEMMA Least ==
    ASSUME NEW S \in SUBSET Nat, S # {}
    PROVE  \E m \in S : \A k \in S : m <= k
<1> DEFINE R == {p \in Nat \X Nat : p[1] < p[2]}
<1>1. IsWellFoundedOn(R, Nat)
  BY NatLessThanWellFounded DEF OpToRel
<1>2. PICK m \in S : \A k \in S : <<k, m>> \notin R
  <2> HIDE DEF R
  <2> QED BY <1>1, WFMin
<1>3. \A k \in S : ~ (k < m)
  BY <1>2
<1> QED BY <1>3
=============================================================================
