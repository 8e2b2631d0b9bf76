------------------------------ MODULE Election ------------------------------
(***************************************************************************)
(* The timebase election of one device (lumen-device, election.rs): its    *)
(* state and its two handlers, on_tick and on_timer, for every device of a *)
(* mesh.  ElectionMesh and NodeMesh connect the devices with a network.    *)
(*                                                                         *)
(* Time is counted in units of the leader's tick interval divided by       *)
(* TickInterval.  The code stores the moment something happened and        *)
(* compares the difference with now; here that difference, an age, is the  *)
(* state.  An age stops growing at the largest value it is compared with.  *)
(***************************************************************************)
EXTENDS Devices

CONSTANTS
  Capacity,         (* the benchmark scores a device may boot with         *)
  FollowerTimeout,  (* silence after which a follower stands               *)
  CandidateSettle,  (* how long a candidate waits unchallenged             *)
  TickInterval,     (* how often a leader ticks                            *)
  YieldHysteresis,  (* better ticks in a row that make a leader yield      *)
  EpochMax          (* the largest epoch: the u32 counter saturates there  *)

ASSUME ElectionAssumption ==
  /\ Capacity \subseteq Nat
  /\ FollowerTimeout \in Nat \ {0}
  /\ CandidateSettle \in 1 .. FollowerTimeout
  /\ TickInterval \in Nat \ {0}
  /\ YieldHysteresis \in Nat \ {0}
  /\ EpochMax \in Nat \ {0}

VARIABLES
  cap,      (* the capacity a device claims, fixed for one boot            *)
  role,     (* what it is doing about the timebase                         *)
  epoch,    (* the largest epoch it knows                                  *)
  since,    (* age of its role, or of the last tick a follower heard       *)
  sent,     (* age of the last tick it sent on schedule                    *)
  better,   (* better ticks counted while leading                          *)
  best      (* the best candidacy a candidate heard, or None               *)

electionVars == <<cap, role, epoch, since, sent, better, best>>

Role == {"follower", "candidate", "leader"}
Epoch == 0 .. EpochMax
Candidacy == [capacity : Capacity, uuid : Node]
None == [capacity |-> -1, uuid |-> -1]

(* Variant: equal capacities beat each other. *)
BeatsOnTies(a, b) == a.capacity >= b.capacity

(* The candidacy a wins against b: more capacity, then the lower uuid. *)
Beats(a, b) ==
  \/ a.capacity > b.capacity
  \/ a.capacity = b.capacity /\ a.uuid < b.uuid

Me(n) == [capacity |-> cap[n], uuid |-> n]

ElectionTypeOK ==
  /\ cap \in [Node -> Capacity]
  /\ role \in [Node -> Role]
  /\ epoch \in [Node -> Epoch]
  /\ since \in [Node -> 0 .. FollowerTimeout]
  /\ sent \in [Node -> 0 .. TickInterval]
  /\ better \in [Node -> 0 .. YieldHysteresis - 1]
  /\ best \in [Node -> Candidacy \cup {None}]

ElectionInit ==
  /\ cap \in [Node -> Capacity]
  /\ role = [n \in Node |-> "follower"]
  /\ epoch = [n \in Node |-> 0]
  /\ since = [n \in Node |-> 0]
  /\ sent = [n \in Node |-> TickInterval]
  /\ better = [n \in Node |-> 0]
  /\ best = [n \in Node |-> None]

(* A fresh state machine, with the score of this boot's benchmark. *)
ElectionNew(n, c) ==
  /\ cap' = [cap EXCEPT ![n] = c]
  /\ role' = [role EXCEPT ![n] = "follower"]
  /\ epoch' = [epoch EXCEPT ![n] = 0]
  /\ since' = [since EXCEPT ![n] = 0]
  /\ sent' = [sent EXCEPT ![n] = TickInterval]
  /\ better' = [better EXCEPT ![n] = 0]
  /\ best' = [best EXCEPT ![n] = None]

(***************************************************************************)
(* on_tick, by the role of the device n that hears who.                    *)
(***************************************************************************)

(* Variant: the tick does not restart the timeout. *)
FollowerKeepsWaiting(n) ==
  /\ role[n] = "follower"
  /\ UNCHANGED <<role, since, better, best>>

(* Any tick keeps a follower in place, even one it would beat. *)
FollowerHears(n) ==
  /\ role[n] = "follower"
  /\ since' = [since EXCEPT ![n] = 0]
  /\ UNCHANGED <<role, better, best>>

CandidateHears(n, who) ==
  /\ role[n] = "candidate"
  /\ ~ Beats(who, Me(n))
  /\ best' = [best EXCEPT ![n] = IF @ # None /\ Beats(@, who) THEN @ ELSE who]
  /\ UNCHANGED <<role, since, better>>

CandidateConcedes(n, who) ==
  /\ role[n] = "candidate"
  /\ Beats(who, Me(n))
  /\ role' = [role EXCEPT ![n] = "follower"]
  /\ since' = [since EXCEPT ![n] = 0]
  /\ best' = [best EXCEPT ![n] = None]
  /\ UNCHANGED better

LeaderHearsWorse(n, who) ==
  /\ role[n] = "leader"
  /\ ~ Beats(who, Me(n))
  /\ better' = [better EXCEPT ![n] = 0]
  /\ UNCHANGED <<role, since, best>>

LeaderHearsBetter(n, who) ==
  /\ role[n] = "leader"
  /\ Beats(who, Me(n))
  /\ better[n] + 1 < YieldHysteresis
  /\ better' = [better EXCEPT ![n] = @ + 1]
  /\ UNCHANGED <<role, since, best>>

(* Variant: the leader starts counting again instead of yielding. *)
LeaderHolds(n, who) ==
  /\ role[n] = "leader"
  /\ Beats(who, Me(n))
  /\ better[n] + 1 >= YieldHysteresis
  /\ better' = [better EXCEPT ![n] = 0]
  /\ UNCHANGED <<role, since, best>>

LeaderYields(n, who) ==
  /\ role[n] = "leader"
  /\ Beats(who, Me(n))
  /\ better[n] + 1 >= YieldHysteresis
  /\ role' = [role EXCEPT ![n] = "follower"]
  /\ since' = [since EXCEPT ![n] = 0]
  /\ better' = [better EXCEPT ![n] = 0]
  /\ UNCHANGED best

ElectionOnTick(n, who, ep) ==
  /\ who.uuid # n
  /\ epoch' = [epoch EXCEPT ![n] = IF ep > @ THEN ep ELSE @]
  /\ \/ FollowerHears(n)
     \/ CandidateHears(n, who)
     \/ CandidateConcedes(n, who)
     \/ LeaderHearsWorse(n, who)
     \/ LeaderHearsBetter(n, who)
     \/ LeaderYields(n, who)
  /\ UNCHANGED <<cap, sent>>

(* A tick from the device itself says nothing. *)
ElectionOwnTick(n, who) ==
  /\ who.uuid = n
  /\ UNCHANGED electionVars

(***************************************************************************)
(* on_timer, by role.  Each case makes the device send a tick, except that *)
(* a candidate that was beaten steps back in silence.                      *)
(***************************************************************************)
StandDue(n) == role[n] = "follower" /\ since[n] >= FollowerTimeout
(* Variant: no waiting for a better candidate. *)
SettleAtOnce(n) == role[n] = "candidate"

SettleDue(n) == role[n] = "candidate" /\ since[n] >= CandidateSettle
TickDue(n) == role[n] = "leader" /\ sent[n] >= TickInterval

(* Something is due: next_deadline_us is zero. *)
ElectionDue(n) == StandDue(n) \/ SettleDue(n) \/ TickDue(n)

Stand(n) ==
  /\ StandDue(n)
  /\ role' = [role EXCEPT ![n] = "candidate"]
  /\ since' = [since EXCEPT ![n] = 0]
  /\ best' = [best EXCEPT ![n] = None]
  /\ UNCHANGED <<cap, epoch, sent, better>>

Beaten(n) == best[n] # None /\ Beats(best[n], Me(n))

Assume(n) ==
  /\ role' = [role EXCEPT ![n] = "leader"]
  /\ epoch' = [epoch EXCEPT ![n] = IF @ < EpochMax THEN @ + 1 ELSE @]
  /\ since' = [since EXCEPT ![n] = 0]
  /\ sent' = [sent EXCEPT ![n] = 0]
  /\ better' = [better EXCEPT ![n] = 0]
  /\ UNCHANGED <<cap, best>>

StepBack(n) ==
  /\ role' = [role EXCEPT ![n] = "follower"]
  /\ since' = [since EXCEPT ![n] = 0]
  /\ UNCHANGED <<cap, epoch, sent, better, best>>

Settle(n) ==
  /\ SettleDue(n)
  /\ IF Beaten(n) THEN StepBack(n) ELSE Assume(n)

SendTick(n) ==
  /\ TickDue(n)
  /\ sent' = [sent EXCEPT ![n] = 0]
  /\ UNCHANGED <<cap, role, epoch, since, better, best>>

ElectionOnTimer(n) == Stand(n) \/ Settle(n) \/ SendTick(n)

(* Whether the timer handler sends a tick. *)
Announces(n) == StandDue(n) \/ (SettleDue(n) /\ ~ Beaten(n)) \/ TickDue(n)

(* One unit of time passes for every device, powered or not. *)
Older(age, limit) == IF age < limit THEN age + 1 ELSE limit

ElectionAges ==
  /\ since' = [n \in Node |-> Older(since[n], FollowerTimeout)]
  /\ sent' = [n \in Node |-> Older(sent[n], TickInterval)]
  /\ UNCHANGED <<cap, role, epoch, better, best>>
=============================================================================
