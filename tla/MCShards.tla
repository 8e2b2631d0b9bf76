------------------------------ MODULE MCShards ------------------------------
(* Instances of Shards for TLC. *)
EXTENDS Shards

CONSTANTS show, alert

(* The show covers all of the strip, the alert all or a part of it that    *)
(* reaches over both cores.                                                *)
Overlapping == {[s \in Source |-> IF s = show THEN <<0, 1, 2>> ELSE part] :
                  part \in {<<0, 1, 2>>, <<1, 2>>}}

(* At most one program faults, in its frame section or on one pixel. *)
OneFault ==
  {NoFault}
    \cup {[frame |-> {s}, pixel |-> {}] : s \in Source}
    \cup {[frame |-> {}, pixel |-> {<<s, led>>}] : s \in Source, led \in {1, 2}}
=============================================================================
