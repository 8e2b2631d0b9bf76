---------------------------- MODULE ElectionMesh ----------------------------
(***************************************************************************)
(* A mesh of devices that run nothing but the election: every tick is a    *)
(* multicast on the fabric.  NodeMesh, where the devices also synchronise  *)
(* their clocks, is shown to implement this specification.                 *)
(***************************************************************************)
EXTENDS Election, Fabric

CONSTANT
  Prompt    (* TRUE: timers fire and datagrams arrive within the unit of   *)
            (* time they are due in; FALSE: as late as may be              *)

ASSUME PromptAssumption == Prompt \in BOOLEAN

meshVars == <<electionVars, fabricVars>>

Tick == [type : {"tick"}, who : Candidacy, epoch : Epoch]
TickDatagram == [from : Node, to : Node, body : Tick, copy : {1, 2}]

MeshInit == ElectionInit /\ FabricInit

(* The ticks device n multicasts, with the epoch its handler left it at. *)
Ticks(n) ==
  Datagrams(n, Node, [type |-> "tick", who |-> Me(n), epoch |-> epoch'[n]])

OnTimer(n) ==
  /\ n \in up \ asleep
  /\ ElectionOnTimer(n)
  /\ Exchange({}, IF Announces(n) THEN Ticks(n) ELSE {})

OnDatagram(p) ==
  /\ \/ ElectionOnTick(p.to, p.body.who, p.body.epoch)
     \/ ElectionOwnTick(p.to, p.body.who)
  /\ Exchange({p}, {})

(* Time passes.  A prompt mesh has dealt with everything due before. *)
Elapse ==
  /\ Prompt => net = {} /\ \A n \in up \ asleep : ~ ElectionDue(n)
  /\ ElectionAges
  /\ UNCHANGED fabricVars

Boot(n, c) ==
  /\ StartsOver(n)
  /\ ElectionNew(n, c)

(* The device comes back with the memory it had, and silent. *)
Resume(n) ==
  /\ GoesOn(n)
  /\ UNCHANGED electionVars

(* A datagram that is no tick reaches a silent device: the election has    *)
(* nothing to do with it, but the timer is set again.                      *)
Wake(n) ==
  /\ n \in asleep
  /\ asleep' = asleep \ {n}
  /\ UNCHANGED <<electionVars, up, side, net, budget>>

Fault ==
  /\ \/ \E p \in net : Lose(p) \/ Duplicate(p)
     \/ \E left \in SUBSET Node : Split(left)
     \/ \E n \in Node : PowerOff(n)
     \/ HealAll
  /\ UNCHANGED electionVars

PowerAndTimers ==
  \/ \E n \in Node : OnTimer(n) \/ Resume(n) \/ Wake(n)
  \/ \E n \in Node, c \in Capacity : Boot(n, c)
  \/ Fault

MeshNext ==
  \/ PowerAndTimers
  \/ \E p \in net : OnDatagram(p)
  \/ Elapse

MeshSafety == MeshInit /\ [][MeshNext]_meshVars

(* Timers that are set fire, what is on the air arrives, and time goes on. *)
(* Nothing obliges anyone to switch a device on, to heal a split or to     *)
(* wake a silent device.                                                   *)
MeshFairness ==
  /\ \A n \in Node : WF_meshVars(OnTimer(n))
  /\ WF_meshVars(\E p \in net : OnDatagram(p))
  /\ WF_meshVars(Elapse)

MeshSpec == MeshSafety /\ MeshFairness

-----------------------------------------------------------------------------
(***************************************************************************)
(* What the election promises.                                             *)
(***************************************************************************)

(* Every variable has its type, and a datagram in flight carries the       *)
(* candidacy of the device that sent it.                                   *)
MeshTypeOK ==
  /\ ElectionTypeOK
  /\ up \subseteq Node
  /\ asleep \subseteq up
  /\ side \subseteq Node
  /\ budget \in 0 .. Budget
  /\ net \subseteq TickDatagram
  /\ \A p \in net : p.body.who.uuid = p.from

(* A candidate that heard a better candidacy is not a candidate any more:  *)
(* what it still remembers does not beat it, so the check on_timer makes   *)
(* before it takes the role (election.rs:181) never finds it beaten.       *)
CandidateUnbeaten ==
  \A n \in Node : role[n] = "candidate" => ~ Beaten(n)

Leaders == {n \in up : role[n] = "leader"}

(* On a network that delivers, however devices come and go, two devices    *)
(* never lead at once: standing, conceding and settling leave no gap.      *)
AtMostOneLeader == Cardinality(Leaders) <= 1

(* No candidacy another device can ever claim beats n. *)
Strongest(n) ==
  \A m \in Node \ {n} : \A c \in Capacity :
    Beats(Me(n), [capacity |-> c, uuid |-> m])

(* A device that nobody can beat and that leads goes on leading until it   *)
(* is rebooted, whatever ticks, old, copied or out of order, reach it.     *)
StrongestKeepsRole ==
  [][\A n \in Node :
       role[n] = "leader" /\ role'[n] # "leader" =>
         ~Strongest(n) \/ \E c \in Capacity : Boot(n, c)]_meshVars

(* A working timebase is not disturbed (election.rs:142): on a network     *)
(* that delivers nobody stands while a leader is powered.                  *)
NobodyStandsAgainstLeader ==
  [][\A n \in up : role[n] # "candidate" /\ role'[n] = "candidate" =>
       Leaders = {}]_meshVars

Sides == {side \cap up, up \ side} \ {{}}

(* Once faults stop, every side of the mesh where somebody is awake comes  *)
(* to have one leader and keeps that one: a cold mesh elects, a lost       *)
(* leader is replaced, one that came back silent is told, and two leaders  *)
(* that meet when a split heals end as one.                                *)
Converges ==
  <>[](\A s \in Sides : s \subseteq asleep \/ Cardinality(Leaders \cap s) = 1)

(* A settled mesh stops changing roles. *)
RolesSettle == <>[][UNCHANGED role]_meshVars
=============================================================================
