------------------------------ MODULE Listing ------------------------------
(***************************************************************************)
(* The members of a set of numbers in ascending order: what sorting does   *)
(* to ids, and what a loop over places does that takes some and leaves     *)
(* others.                                                                 *)
(***************************************************************************)
EXTENDS Naturals, FiniteSets

InOrder(E) ==
    LET Rank(e) == Cardinality({f \in E : f <= e})
    IN  [k \in 1..Cardinality(E) |-> CHOOSE e \in E : Rank(e) = k]
=============================================================================
