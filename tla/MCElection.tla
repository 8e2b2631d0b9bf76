----------------------------- MODULE MCElection -----------------------------
(* Instances of ElectionMesh for TLC. *)
EXTENDS ElectionMesh

ThreeDevices == {0, 1, 2}

Disturbed == {"lose", "duplicate", "off", "resume", "split"}
=============================================================================
