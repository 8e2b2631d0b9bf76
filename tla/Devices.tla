------------------------------ MODULE Devices -------------------------------
(* The devices of a mesh.  A device's number is its uuid: the election     *)
(* compares uuids, everything else only tells them apart.                  *)
EXTENDS Integers, FiniteSets

CONSTANT Node

ASSUME NodeAssumption == Node \subseteq Nat /\ IsFiniteSet(Node)
=============================================================================
