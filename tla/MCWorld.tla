------------------------------- MODULE MCWorld -------------------------------
(* Instances of World for TLC. *)
EXTENDS World

Wifi == [lossy |-> TRUE, twice |-> TRUE, latency |-> 1, jitter |-> 0, behind |-> 1]
PerfectOrWifi == {Perfect, Wifi}

BackAndForth == {-2, 3}
Slow == {-2}
==============================================================================
