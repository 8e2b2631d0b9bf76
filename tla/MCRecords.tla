------------------------------ MODULE MCRecords ------------------------------
(* Instances of Records for TLC. *)
EXTENDS Records
=============================================================================
