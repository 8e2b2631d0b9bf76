-------------------------------- MODULE Sync --------------------------------
(***************************************************************************)
(* The time synchronisation of one device (lumen-device, sync.rs), for     *)
(* every device of a mesh.  Times are ages, as in Election.                *)
(*                                                                         *)
(* Of a sample the model keeps the round trip, which decides whether it    *)
(* counts, and whose clock it was measured against; the offset itself and  *)
(* the median of a burst are left out.  A correction is then characterised *)
(* by the peers whose answers went into it.                                *)
(***************************************************************************)
EXTENDS Devices, Sequences

CONSTANTS
  SamplesRequired,  (* samples that make a burst                           *)
  ResyncInterval,   (* how often a synced device checks again              *)
  MissLimit,        (* silence after which the clock is not trusted:       *)
                    (* MISSED_TICKS_ALLOWED times TICK_PERIOD_US           *)
  TickPeriod,       (* how often a syncing device retries                  *)
  RoundTrips        (* the round trip times that occur                     *)

ASSUME SyncAssumption ==
  /\ SamplesRequired \in Nat \ {0}
  /\ ResyncInterval \in Nat \ {0}
  /\ MissLimit \in Nat \ {0}
  /\ TickPeriod \in 1 .. ResyncInterval
  /\ RoundTrips \subseteq Nat

VARIABLES
  sync,     (* how much the clock is trusted                               *)
  burst,    (* whose answers are in the burst being collected, in order    *)
  minRtt,   (* the smallest round trip seen, or Never                      *)
  heard,    (* age of the last tick, or Never                              *)
  probed,   (* age of the last probe the machine asked for                 *)
  ref       (* whose answers the last correction was made from             *)

syncVars == <<sync, burst, minRtt, heard, probed, ref>>

Never == -1
RttToleranceEighths == 12

PeersIn(s) == {s[i] : i \in DOMAIN s}

SyncInit ==
  /\ sync = [n \in Node |-> "unsynced"]
  /\ burst = [n \in Node |-> <<>>]
  /\ minRtt = [n \in Node |-> Never]
  /\ heard = [n \in Node |-> Never]
  /\ probed = [n \in Node |-> ResyncInterval]
  /\ ref = [n \in Node |-> {}]

SyncNew(n) ==
  /\ sync' = [sync EXCEPT ![n] = "unsynced"]
  /\ burst' = [burst EXCEPT ![n] = <<>>]
  /\ minRtt' = [minRtt EXCEPT ![n] = Never]
  /\ heard' = [heard EXCEPT ![n] = Never]
  /\ probed' = [probed EXCEPT ![n] = ResyncInterval]
  /\ ref' = [ref EXCEPT ![n] = {}]

(* on_tick: the first tick starts a burst.  It wants a probe iff unsynced. *)
TickWantsProbe(n) == sync[n] = "unsynced"

SyncOnTick(n) ==
  /\ heard' = [heard EXCEPT ![n] = 0]
  /\ sync' = [sync EXCEPT ![n] = IF TickWantsProbe(n) THEN "syncing" ELSE @]
  /\ probed' = [probed EXCEPT ![n] = IF TickWantsProbe(n) THEN 0 ELSE @]
  /\ UNCHANGED <<burst, minRtt, ref>>

(***************************************************************************)
(* on_sample.  A sample far slower than the best one is thrown away; the   *)
(* sample that fills the burst makes the correction.                       *)
(***************************************************************************)
BestRtt(n, rtt) == IF minRtt[n] # Never /\ minRtt[n] < rtt THEN minRtt[n] ELSE rtt
TooSlow(n, rtt) == rtt * 8 > BestRtt(n, rtt) * RttToleranceEighths
Fills(n) == Len(burst[n]) + 1 >= SamplesRequired

SampleWantsProbe(n, rtt) == TooSlow(n, rtt) \/ ~ Fills(n)

DropSample(n, rtt) ==
  /\ TooSlow(n, rtt)
  /\ UNCHANGED <<sync, burst, ref>>

KeepSample(n, rtt, peer) ==
  /\ ~ TooSlow(n, rtt)
  /\ ~ Fills(n)
  /\ burst' = [burst EXCEPT ![n] = Append(@, peer)]
  /\ UNCHANGED <<sync, ref>>

Correct(n, rtt, peer) ==
  /\ ~ TooSlow(n, rtt)
  /\ Fills(n)
  /\ sync' = [sync EXCEPT ![n] = "synced"]
  /\ ref' = [ref EXCEPT ![n] = PeersIn(Append(burst[n], peer))]
  /\ burst' = [burst EXCEPT ![n] = <<>>]

SyncOnSample(n, rtt, peer) ==
  /\ DropSample(n, rtt) \/ KeepSample(n, rtt, peer) \/ Correct(n, rtt, peer)
  /\ minRtt' = [minRtt EXCEPT ![n] = BestRtt(n, rtt)]
  /\ probed' = [probed EXCEPT ![n] = 0]
  /\ UNCHANGED heard

(***************************************************************************)
(* on_timer.  Losing the master comes before probing it again.             *)
(***************************************************************************)
Silent(n) == heard[n] # Never /\ heard[n] >= MissLimit

ResyncDue(n) == sync[n] = "synced" /\ probed[n] >= ResyncInterval

TimerWantsProbe(n) == ~ Silent(n) /\ (sync[n] = "syncing" \/ ResyncDue(n))

LoseMaster(n) ==
  /\ Silent(n)
  /\ sync[n] # "unsynced"
  /\ sync' = [sync EXCEPT ![n] = "unsynced"]
  /\ burst' = [burst EXCEPT ![n] = <<>>]
  /\ UNCHANGED <<minRtt, heard, probed, ref>>

Probe(n) ==
  /\ TimerWantsProbe(n)
  /\ probed' = [probed EXCEPT ![n] = 0]
  /\ UNCHANGED <<sync, burst, minRtt, heard, ref>>

SyncIdle(n) ==
  /\ ~ (Silent(n) /\ sync[n] # "unsynced")
  /\ ~ TimerWantsProbe(n)
  /\ UNCHANGED syncVars

SyncOnTimer(n) == LoseMaster(n) \/ Probe(n) \/ SyncIdle(n)

(* next_deadline_us has passed and on_timer has something to do. *)
SyncDue(n) ==
  \/ Silent(n) /\ sync[n] # "unsynced"
  \/ sync[n] = "syncing" /\ probed[n] >= TickPeriod
  \/ ResyncDue(n)

SyncAges ==
  /\ heard' = [n \in Node |->
       IF heard[n] \in 0 .. MissLimit - 1 THEN heard[n] + 1 ELSE heard[n]]
  /\ probed' = [n \in Node |->
       IF probed[n] < ResyncInterval THEN probed[n] + 1 ELSE probed[n]]
  /\ UNCHANGED <<sync, burst, minRtt, ref>>
=============================================================================
