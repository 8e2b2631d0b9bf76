------------------------------ MODULE NodeMesh ------------------------------
(***************************************************************************)
(* A mesh of whole devices (lumen-device, node.rs): each runs the election *)
(* and the time synchronisation, and exchanges ticks, sync requests and    *)
(* sync responses over the fabric.                                         *)
(***************************************************************************)
EXTENDS Election, Sync, Fabric

CONSTANTS
  ProbeTimeout,   (* how long an unanswered probe blocks the next one      *)
  Prompt          (* as in ElectionMesh                                    *)

ASSUME NodeMeshAssumption ==
  /\ ProbeTimeout \in Nat \ {0}
  /\ Prompt \in BOOLEAN

VARIABLES
  master,   (* whom to probe: the sender of the last tick, or NoOne        *)
  pending,  (* t1 of the outstanding probe, or NoProbe                     *)
  waited    (* age of the outstanding probe                                *)

probeVars == <<master, pending, waited>>
nodeVars == <<electionVars, syncVars, fabricVars, probeVars>>

NoOne == -1
NoProbe == 0

(* The moments t1 tell probes apart.  One that no datagram in flight       *)
(* carries may be used again.                                              *)
ProbeTime == 1 .. MaxInFlight + 1

Body ==
  [type : {"tick"}, who : Candidacy, epoch : Epoch]
    \cup [type : {"request", "response"}, t1 : ProbeTime]

Datagram == [from : Node, to : Node, body : Body, copy : {1, 2}]

NodeInit ==
  /\ ElectionInit
  /\ SyncInit
  /\ FabricInit
  /\ master = [n \in Node |-> NoOne]
  /\ pending = [n \in Node |-> NoProbe]
  /\ waited = [n \in Node |-> 0]

NodeNew(n, c) ==
  /\ ElectionNew(n, c)
  /\ SyncNew(n)
  /\ master' = [master EXCEPT ![n] = NoOne]
  /\ pending' = [pending EXCEPT ![n] = NoProbe]
  /\ waited' = [waited EXCEPT ![n] = 0]

(* Variant: the tick is framed before the election moves. *)
TicksTooEarly(n) ==
  Datagrams(n, Node, [type |-> "tick", who |-> Me(n), epoch |-> epoch[n]])

Ticks(n) ==
  Datagrams(n, Node, [type |-> "tick", who |-> Me(n), epoch |-> epoch'[n]])

FreshTime(n) ==
  CHOOSE t \in ProbeTime \ {p.body.t1 : p \in {q \in net : q.body.type # "tick"}} :
    TRUE

(***************************************************************************)
(* send_sync_req, called by a handler that has already made up its mind    *)
(* about master and has left the probe in the state outstanding: nothing   *)
(* is sent with nobody to ask or with a probe outstanding.                 *)
(***************************************************************************)
Asks(n, wants, outstanding) ==
  wants /\ master'[n] # NoOne /\ outstanding = NoProbe

SendSyncReq(n, wants, outstanding) ==
  LET asks == Asks(n, wants, outstanding) IN
  /\ pending' = [pending EXCEPT ![n] = IF asks THEN FreshTime(n) ELSE outstanding]
  /\ waited' = [waited EXCEPT ![n] = IF asks \/ outstanding = NoProbe THEN 0 ELSE @]

Requests(n, wants, outstanding) ==
  IF Asks(n, wants, outstanding)
  THEN Datagrams(n, {master'[n]}, [type |-> "request", t1 |-> pending'[n]])
  ELSE {}

(***************************************************************************)
(* on_timer: give up on an unanswered probe, then the election, then the   *)
(* synchronisation, whatever the role.                                     *)
(***************************************************************************)
(* Variant: only an answer ends the wait for one. *)
ProbeNeverExpires(n) == n \notin Node

ProbeExpired(n) == pending[n] # NoProbe /\ waited[n] >= ProbeTimeout
StillPending(n) == IF ProbeExpired(n) THEN NoProbe ELSE pending[n]

ElectionTurn(n) ==
  ElectionOnTimer(n) \/ (~ ElectionDue(n) /\ UNCHANGED electionVars)

OnTimer(n) ==
  /\ n \in up \ asleep
  /\ ElectionTurn(n)
  /\ SyncOnTimer(n)
  /\ UNCHANGED master
  /\ SendSyncReq(n, TimerWantsProbe(n), StillPending(n))
  /\ Exchange({}, (IF Announces(n) THEN Ticks(n) ELSE {})
                    \cup Requests(n, TimerWantsProbe(n), StillPending(n)))

(***************************************************************************)
(* on_datagram, by message.                                                *)
(***************************************************************************)

(* A datagram with the device's own prefix is dropped. *)
OwnDatagram(p) ==
  /\ p.from = p.to
  /\ UNCHANGED <<electionVars, syncVars, probeVars>>
  /\ Exchange({p}, {})

(* Variant: whoever ticked first is asked for good. *)
AsksFirst(p) == IF master[p.to] = NoOne THEN p.from ELSE master[p.to]

(* Whom to ask after the tick p. *)
ToAsk(p) == p.from

(* on_tick_message: the sender of any tick becomes the master to probe; a  *)
(* device that still does not lead after it synchronises.                  *)
OnTickMessage(p) ==
  LET n == p.to
      wants == role'[n] # "leader" /\ TickWantsProbe(n)
  IN
  /\ p.from # n
  /\ p.body.type = "tick"
  /\ master' = [master EXCEPT ![n] = ToAsk(p)]
  /\ ElectionOnTick(n, p.body.who, p.body.epoch)
  /\ IF role'[n] = "leader" THEN UNCHANGED syncVars ELSE SyncOnTick(n)
  /\ SendSyncReq(n, wants, pending[n])
  /\ Exchange({p}, Requests(n, wants, pending[n]))

(* Anyone answers. *)
OnSyncReq(p) ==
  /\ p.from # p.to
  /\ p.body.type = "request"
  /\ UNCHANGED <<electionVars, syncVars, probeVars>>
  /\ Exchange({p}, Datagrams(p.to, {p.from}, [type |-> "response", t1 |-> p.body.t1]))

IgnoreSyncResp(p) ==
  /\ pending[p.to] # p.body.t1
  /\ UNCHANGED <<syncVars, probeVars>>
  /\ Exchange({p}, {})

TakeSyncResp(p, rtt) ==
  LET n == p.to
      wants == SampleWantsProbe(n, rtt)
  IN
  /\ pending[n] = p.body.t1
  /\ SyncOnSample(n, rtt, p.from)
  /\ UNCHANGED master
  /\ SendSyncReq(n, wants, NoProbe)
  /\ Exchange({p}, Requests(n, wants, NoProbe))

OnSyncResp(p) ==
  /\ p.from # p.to
  /\ p.body.type = "response"
  /\ UNCHANGED electionVars
  /\ IgnoreSyncResp(p) \/ \E rtt \in RoundTrips : TakeSyncResp(p, rtt)

OnDatagram(p) ==
  OwnDatagram(p) \/ OnTickMessage(p) \/ OnSyncReq(p) \/ OnSyncResp(p)

(***************************************************************************)
(* Time, power and faults, as in ElectionMesh.                             *)
(***************************************************************************)
Due(n) == ElectionDue(n) \/ SyncDue(n) \/ ProbeExpired(n)

Elapse ==
  /\ Prompt => net = {} /\ \A n \in up \ asleep : ~ Due(n)
  /\ ElectionAges
  /\ SyncAges
  /\ waited' = [n \in Node |->
       IF pending[n] # NoProbe /\ waited[n] < ProbeTimeout
       THEN waited[n] + 1 ELSE waited[n]]
  /\ UNCHANGED <<fabricVars, master, pending>>

Boot(n, c) ==
  /\ StartsOver(n)
  /\ NodeNew(n, c)

Resume(n) ==
  /\ GoesOn(n)
  /\ UNCHANGED <<electionVars, syncVars, probeVars>>

Fault ==
  /\ \/ \E p \in net : Lose(p) \/ Duplicate(p)
     \/ \E left \in SUBSET Node : Split(left)
     \/ \E n \in Node : PowerOff(n)
     \/ HealAll
  /\ UNCHANGED <<electionVars, syncVars, probeVars>>

NodeNext ==
  \/ \E n \in Node : OnTimer(n) \/ Resume(n)
  \/ \E n \in Node, c \in Capacity : Boot(n, c)
  \/ \E p \in net : OnDatagram(p)
  \/ Elapse
  \/ Fault

NodeSafety == NodeInit /\ [][NodeNext]_nodeVars

(* An answer over the quickest path. *)
QuickAnswer(n) ==
  \E p \in net : \E rtt \in RoundTrips :
    /\ p.to = n /\ p.body.type = "response" /\ UNCHANGED electionVars
    /\ ~ TooSlow(n, rtt)
    /\ TakeSyncResp(p, rtt)

(* As in ElectionMesh.  Besides, "on a busy link most samples are bad and  *)
(* a few are fine" (sync.rs:197): who keeps asking is answered quickly     *)
(* once in a while.                                                        *)
NodeFairness ==
  /\ \A n \in Node : WF_nodeVars(OnTimer(n)) /\ SF_nodeVars(QuickAnswer(n))
  /\ WF_nodeVars(\E p \in net : OnDatagram(p))
  /\ WF_nodeVars(Elapse)

NodeSpec == NodeSafety /\ NodeFairness

-----------------------------------------------------------------------------
(* The election neither sees nor is disturbed by the synchronisation: of   *)
(* the devices' ticks alone, the mesh is an ElectionMesh (in which faults  *)
(* never run out).                                                         *)
TicksOf(datagrams) == {p \in datagrams : p.body.type = "tick"}

Mesh == INSTANCE ElectionMesh WITH
  net <- TicksOf(net), Endless <- TRUE, Budget <- 1, budget <- 1

ImplementsElection == Mesh!MeshSafety

Leaders == {n \in up : role[n] = "leader"}
Sides == {side \cap up, up \ side} \ {{}}

(* Once faults stop, on every side where somebody is awake all but one     *)
(* device follow, trust their clocks, and have corrected them by that one  *)
(* leader's answers alone, and it stays so.  On the way there a device may *)
(* ask candidates that are about to lose, mix their answers with others in *)
(* one burst and correct its clock by them, and lose a probe, an answer or *)
(* its leader; a later burst must undo all of that.                        *)
FollowersSync ==
  <>[](\A s \in Sides : s \subseteq asleep \/
         \E m \in s : role[m] = "leader" /\ \A n \in s \ {m} :
           role[n] = "follower" /\ sync[n] = "synced" /\ ref[n] = {m})
=============================================================================
