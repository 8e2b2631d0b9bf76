------------------------------- MODULE MCNode -------------------------------
(* Instances of NodeMesh for TLC. *)
EXTENDS NodeMesh

ThreeDevices == {0, 1, 2}

Disturbed == {"lose", "duplicate", "off", "resume", "split"}
=============================================================================
