------------------------------- MODULE Sorted -------------------------------
(***************************************************************************)
(* What sorting makes of a finite set, said by counting: each element is   *)
(* where as many come before it as precede it.                             *)
(***************************************************************************)
EXTENDS Integers, FiniteSets

(* Precedes has to be a strict total order of S. *)
InOrder(S, Precedes(_, _)) ==
  [k \in 1..Cardinality(S) |->
     CHOOSE x \in S : Cardinality({y \in S : Precedes(y, x)}) = k - 1]
=============================================================================
