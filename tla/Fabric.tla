------------------------------- MODULE Fabric -------------------------------
(***************************************************************************)
(* The datagram fabric the devices share: best-effort, so a datagram may   *)
(* be lost, copied or overtaken, and links may be cut and devices switched *)
(* off at any time.  This is the simulated network of lumen-sim, net.rs,   *)
(* which stands for a domestic WLAN.                                       *)
(*                                                                         *)
(* Datagrams in flight form a set, so they are delivered in any order.  A  *)
(* datagram equal to one already in flight merges with it; this is one     *)
(* datagram less, which the fabric is free to lose anyway.                 *)
(***************************************************************************)
EXTENDS Devices

CONSTANTS
  Faults,       (* which faults happen: see FaultKind                      *)
  Budget,       (* how many faults happen at most, unless Endless          *)
  Endless,      (* TRUE: faults never run out                              *)
  Crowd,        (* bound: unless Endless, faults strike only while no more *)
                (* than Crowd devices are on, and none more comes on after *)
                (* the first                                               *)
  Loopback,     (* TRUE: a device hears its own multicasts                 *)
  MaxInFlight   (* bound on the number of datagrams in flight              *)

FaultKind == {"lose", "duplicate", "split", "off", "resume"}

ASSUME FabricAssumption ==
  /\ Faults \subseteq FaultKind
  /\ Budget \in Nat
  /\ Endless \in BOOLEAN
  /\ Crowd \in Nat
  /\ Loopback \in BOOLEAN
  /\ MaxInFlight \in Nat

VARIABLES
  up,       (* the devices that are powered                                *)
  asleep,   (* of those, the ones whose timer nobody has set               *)
  side,     (* the devices on one side of the current split, {} when whole *)
  net,      (* the datagrams in flight                                     *)
  budget    (* how many faults are left                                    *)

fabricVars == <<up, asleep, side, net, budget>>

FabricInit ==
  /\ up = {}
  /\ asleep = {}
  /\ side = {}
  /\ net = {}
  /\ budget = Budget

Together(a, b) == a \in side <=> b \in side

(* Whom a datagram from a addressed to the devices in dests gets to. *)
Reached(a, dests) ==
  {b \in dests \cap up : Together(a, b) /\ (a # b \/ Loopback)}

Datagrams(from, dests, body) ==
  {[from |-> from, to |-> b, body |-> body, copy |-> 1] : b \in Reached(from, dests)}

(* The fabric after a handler took the datagrams in taken and sent those   *)
(* in sent.  Every handler ends by setting the timer (node.rs:118), so who *)
(* takes a datagram, whatever it holds, is awake after it.                 *)
Exchange(taken, sent) ==
  /\ net' = (net \ taken) \cup sent
  /\ Cardinality(net') <= MaxInFlight
  /\ asleep' = asleep \ {p.to : p \in taken}
  /\ UNCHANGED <<up, side, budget>>

(***************************************************************************)
(* Faults.  Each takes one from the budget; a repair (HealAll, PowerOn)    *)
(* is free, since it only undoes a fault that was paid for.                *)
(***************************************************************************)
Spend(kind) ==
  /\ kind \in Faults
  /\ budget > 0
  /\ Endless \/ Cardinality(up) <= Crowd
  /\ budget' = IF Endless THEN budget ELSE budget - 1

Lose(p) ==
  /\ Spend("lose")
  /\ net' = net \ {p}
  /\ UNCHANGED <<up, asleep, side>>

Duplicate(p) ==
  /\ Spend("duplicate")
  /\ p.copy = 1
  /\ Cardinality(net) < MaxInFlight
  /\ net' = net \cup {[p EXCEPT !.copy = 2]}
  /\ UNCHANGED <<up, asleep, side>>

Split(left) ==
  /\ Spend("split")
  /\ side = {}
  /\ left # {} /\ left # Node
  /\ side' = left
  /\ UNCHANGED <<up, asleep, net>>

HealAll ==
  /\ side # {}
  /\ side' = {}
  /\ UNCHANGED <<up, asleep, net, budget>>

(* What was on the air towards a device that goes dark is gone; what it    *)
(* sent itself still arrives.                                              *)
PowerOff(n) ==
  /\ Spend("off")
  /\ n \in up
  /\ up' = up \ {n}
  /\ asleep' = asleep \ {n}
  /\ net' = {p \in net : p.to # n}
  /\ UNCHANGED side

PowerOn(n) ==
  /\ n \notin up
  /\ Endless \/ budget = Budget \/ Cardinality(up) < Crowd
  /\ up' = up \cup {n}
  /\ UNCHANGED <<side, net, budget>>

(* The power comes back to a device whose program starts over, and sets    *)
(* its timer as it does.                                                   *)
StartsOver(n) ==
  /\ PowerOn(n)
  /\ UNCHANGED asleep

(* The power comes back to a device that kept its memory.  Losing the      *)
(* power cleared its timer and getting it back sets none: it is awake only *)
(* once a datagram reaches it.                                             *)
GoesOn(n) ==
  /\ "resume" \in Faults
  /\ PowerOn(n)
  /\ asleep' = asleep \cup {n}
=============================================================================
