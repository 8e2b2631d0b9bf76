---------------------------- MODULE WorldProofs ----------------------------
(***************************************************************************)
(* Theorems about World, for any devices, cores, scripts, fault models and *)
(* clocks, and any limit on passes.                                        *)
(***************************************************************************)
EXTENDS World, FoldTheorems

-----------------------------------------------------------------------------
(* Clocks.                                                                 *)

Clock == [local : Int, skew : Int, drift : -Million .. Million,
          owed : -OwedMax .. OwedMax, absorbed : Int, reported : Nat]

LEMMA QuotientType ==
  ASSUME NEW a \in Int
  PROVE  /\ a \div Million \in Int
         /\ Quotient(a, Million) \in Int
         /\ a >= 0 => a \div Million >= 0
BY ClockAssumption DEF Quotient

(* What is absorbed in one go is part of what is owed, in its direction.   *)
LEMMA SlewStepIsPart ==
  ASSUME NEW c \in Clock, NEW delta \in Nat
  PROVE  /\ SlewStep(c, delta) \in Int
         /\ c.owed >= 0 => 0 <= SlewStep(c, delta) /\ SlewStep(c, delta) <= c.owed
         /\ c.owed < 0 => c.owed <= SlewStep(c, delta) /\ SlewStep(c, delta) <= 0
<1> DEFINE allowed == (delta * SlewPpm) \div Million
<1>1. delta * SlewPpm \in Int /\ delta * SlewPpm >= 0
  BY ClockAssumption
<1>2. allowed \in Int /\ allowed >= 0
  BY <1>1, QuotientType
<1>3. c.owed \in Int
  BY ClockAssumption DEF Clock
<1> HIDE DEF allowed
<1>4. SlewStep(c, delta) = IF c.owed < 0 THEN -Smaller(allowed, Magnitude(c.owed))
                           ELSE Smaller(allowed, Magnitude(c.owed))
  BY DEF SlewStep, allowed
<1> QED BY <1>2, <1>3, <1>4 DEF Smaller, Magnitude

(* A jump that earns a unit absorbs one, if one is owed.                   *)
LEMMA EarnedSlew ==
  ASSUME NEW c \in Clock, NEW delta \in Nat, c.owed # 0, delta * SlewPpm >= Million
  PROVE  SlewStep(c, delta) # 0
<1> DEFINE earned == delta * SlewPpm
           allowed == earned \div Million
<1>1. earned \in Nat /\ earned >= Million
  BY ClockAssumption
<1>2. c.owed \in Int
  BY ClockAssumption DEF Clock
<1>3. SlewStep(c, delta) = IF c.owed < 0 THEN -Smaller(allowed, Magnitude(c.owed))
                           ELSE Smaller(allowed, Magnitude(c.owed))
  BY DEF SlewStep
<1> HIDE DEF earned
<1>4. allowed \in Int /\ allowed >= 1
  BY <1>1, ClockAssumption
<1> HIDE DEF allowed
<1> QED BY <1>2, <1>3, <1>4 DEF Smaller, Magnitude

LEMMA AdvancedType ==
  ASSUME NEW c \in Clock, NEW delta \in Nat
  PROVE  /\ Advanced(c, delta) \in Clock
         /\ Advanced(c, delta).reported = c.reported
         /\ Advanced(c, delta).owed + Advanced(c, delta).absorbed = c.owed + c.absorbed
         /\ Magnitude(Advanced(c, delta).owed) <= Magnitude(c.owed)
         /\ Advanced(c, delta).owed * c.owed >= 0
         /\ c.owed # 0 /\ delta * SlewPpm >= Million
              => Magnitude(Advanced(c, delta).owed) < Magnitude(c.owed)
<1> DEFINE step == SlewStep(c, delta)
           tick == delta + Quotient(delta * c.drift, Million)
<1>1. /\ c.local \in Int /\ c.drift \in Int /\ c.absorbed \in Int /\ c.owed \in Int
      /\ c.owed >= -OwedMax /\ c.owed <= OwedMax
  BY ClockAssumption DEF Clock
<1>2. tick \in Int
  <2>1. delta * c.drift \in Int
    BY <1>1
  <2> QED BY <2>1, QuotientType
<1>3. /\ step \in Int
      /\ c.owed >= 0 => 0 <= step /\ step <= c.owed
      /\ c.owed < 0 => c.owed <= step /\ step <= 0
  BY SlewStepIsPart
<1>4. Advanced(c, delta) = [c EXCEPT !.local = @ + delta + Quotient(delta * c.drift, Million),
                                     !.owed = @ - step, !.absorbed = @ + step]
  BY DEF Advanced
<1>5. c.local + delta + Quotient(delta * c.drift, Million) \in Int
  BY <1>1, <1>2, QuotientType
<1> HIDE DEF step, tick
<1>6. c.owed - step \in -OwedMax .. OwedMax /\ c.absorbed + step \in Int
  BY <1>1, <1>3, ClockAssumption
<1>7. Magnitude(c.owed - step) <= Magnitude(c.owed) /\ (c.owed - step) * c.owed >= 0
  BY <1>1, <1>3 DEF Magnitude
<1>8. (c.owed - step) + (c.absorbed + step) = c.owed + c.absorbed
  BY <1>1, <1>3
<1>9. /\ Advanced(c, delta) \in Clock
      /\ Advanced(c, delta).reported = c.reported
      /\ Advanced(c, delta).owed = c.owed - step
      /\ Advanced(c, delta).absorbed = c.absorbed + step
  BY <1>4, <1>5, <1>6 DEF Clock
<1>10. ASSUME c.owed # 0, delta * SlewPpm >= Million
       PROVE  Magnitude(c.owed - step) < Magnitude(c.owed)
  <2>1. step # 0
    BY <1>10, EarnedSlew DEF step
  <2> QED BY <1>1, <1>3, <2>1 DEF Magnitude
<1> QED BY <1>7, <1>8, <1>9, <1>10

LEMMA ReadClockType ==
  ASSUME NEW c \in Clock
  PROVE  /\ ReadClock(c) \in Clock
         /\ ReadClock(c).reported >= c.reported
         /\ ReadClock(c).owed = c.owed /\ ReadClock(c).absorbed = c.absorbed
<1>1. c.local \in Int /\ c.skew \in Int /\ c.absorbed \in Int /\ c.reported \in Nat
  BY DEF Clock
<1>2. /\ Larger(c.reported, Larger(0, c.local + c.skew + c.absorbed)) \in Nat
      /\ Larger(c.reported, Larger(0, c.local + c.skew + c.absorbed)) >= c.reported
  BY <1>1 DEF Larger
<1> QED BY <1>2 DEF ReadClock, Clock

LEMMA DisciplinedType ==
  ASSUME NEW c \in Clock, NEW o \in Int
  PROVE  Disciplined(c, o) \in Clock /\ Disciplined(c, o).reported = c.reported
<1>1. c.owed \in Int
  BY ClockAssumption DEF Clock
<1>2. Saturate(c.owed + o) \in -OwedMax .. OwedMax
  BY <1>1, ClockAssumption DEF Saturate, Larger, Smaller
<1> QED BY <1>2 DEF Disciplined, Clock

Timed == now \in 0 .. Duration /\ clock \in [Node -> Clock]

(* What may happen to a clock: at one instant, and between two.            *)
Reads(c, d) == d \in Clock /\ d.reported >= c.reported
WorksOff(c, d, delta) ==
  /\ d.owed + d.absorbed = c.owed + c.absorbed
  /\ Magnitude(d.owed) <= Magnitude(c.owed)
  /\ d.owed * c.owed >= 0
  /\ c.owed # 0 /\ delta * SlewPpm >= Million => Magnitude(d.owed) < Magnitude(c.owed)

LEMMA TimedInitially == WorldInit => Timed
<1>1. ASSUME NEW skew \in Offset \cup {0}, NEW drift \in Rate \cup {0}
      PROVE  NewClock(skew, drift) \in Clock
  BY WorldAssumption, ClockAssumption DEF NewClock, Clock
<1>2. NewClock(0, 0) \in Clock
  BY ClockAssumption DEF NewClock, Clock
<1> QED BY <1>1, <1>2, WorldAssumption DEF WorldInit, Timed

LEMMA EventReads ==
  ASSUME Timed, NEW n \in Node, clock' = [clock EXCEPT ![n] = ReadClock(@)]
  PROVE  clock' \in [Node -> Clock] /\ \A m \in Node : Reads(clock[m], clock'[m])
<1>1. \A m \in Node : clock[m] \in Clock /\ Reads(clock[m], ReadClock(clock[m]))
  BY ReadClockType DEF Timed, Reads
<1>2. \A m \in Node : Reads(clock[m], clock[m])
  BY <1>1 DEF Reads, Clock
<1>3. \A m \in Node : clock'[m] = IF m = n THEN ReadClock(clock[m]) ELSE clock[m]
  BY DEF Timed
<1>4. \A m \in Node : Reads(clock[m], clock'[m])
  BY <1>1, <1>2, <1>3
<1> QED BY <1>4 DEF Reads, Timed

LEMMA ClockOpReads ==
  ASSUME Timed, NEW n \in Node, ClockOp(n)
  PROVE  clock' \in [Node -> Clock] /\ \A m \in Node : Reads(clock[m], clock'[m])
<1>1. \A m \in Node : clock[m] \in Clock /\ clock[m].reported \in Nat
  BY DEF Timed, Clock
<1>2. PICK d \in Clock : d.reported = clock[n].reported /\ clock' = [clock EXCEPT ![n] = d]
  <2>1. CASE \E o \in Offset : clock' = [clock EXCEPT ![n].skew = o]
    <3>1. PICK o \in Offset : clock' = [clock EXCEPT ![n] = [clock[n] EXCEPT !.skew = o]]
      BY <2>1
    <3>2. [clock[n] EXCEPT !.skew = o] \in Clock
      BY <1>1, WorldAssumption DEF Clock
    <3>3. [clock[n] EXCEPT !.skew = o].reported = clock[n].reported
      BY <1>1 DEF Clock
    <3> QED BY <3>1, <3>2, <3>3
  <2>2. CASE \E r \in Rate : clock' = [clock EXCEPT ![n].drift = r]
    <3>1. PICK r \in Rate : clock' = [clock EXCEPT ![n] = [clock[n] EXCEPT !.drift = r]]
      BY <2>2
    <3>2. [clock[n] EXCEPT !.drift = r] \in Clock
      BY <1>1, WorldAssumption DEF Clock
    <3>3. [clock[n] EXCEPT !.drift = r].reported = clock[n].reported
      BY <1>1 DEF Clock
    <3> QED BY <3>1, <3>2, <3>3
  <2>3. CASE \E o \in Offset : clock' = [clock EXCEPT ![n] = Disciplined(@, o)]
    BY <1>1, <2>3, DisciplinedType, WorldAssumption DEF Timed
  <2> QED BY <2>1, <2>2, <2>3 DEF ClockOp
<1>3. \A m \in Node : clock'[m] = IF m = n THEN d ELSE clock[m]
  BY <1>2 DEF Timed
<1> QED BY <1>1, <1>2, <1>3 DEF Timed, Reads

LEMMA TimePasses ==
  ASSUME Timed, NEW t \in now .. Duration, AdvanceTo(t)
  PROVE  /\ Timed'
         /\ \A n \in Node : Reads(clock[n], clock'[n])
         /\ now' # now => \A n \in Node : WorksOff(clock[n], clock'[n], now' - now)
<1>0. now \in Nat /\ Duration \in Nat /\ now' = t
  BY WorldAssumption DEF Timed, AdvanceTo
<1>1. CASE t = now
  BY <1>0, <1>1 DEF AdvanceTo, Timed, Reads, Clock
<1>2. CASE t # now
  <2>1. t - now \in Nat
    BY <1>0
  <2>2. clock' = [n \in Node |-> ReadClock(Advanced(clock[n], t - now))]
    BY <1>2 DEF AdvanceTo
  <2>3. ASSUME NEW n \in Node
        PROVE  Reads(clock[n], clock'[n]) /\ WorksOff(clock[n], clock'[n], t - now)
    <3>1. clock[n] \in Clock
      BY DEF Timed
    <3>2. /\ Advanced(clock[n], t - now) \in Clock
          /\ Advanced(clock[n], t - now).reported = clock[n].reported
          /\ WorksOff(clock[n], Advanced(clock[n], t - now), t - now)
      BY <2>1, <3>1, AdvancedType DEF WorksOff
    <3> DEFINE d == Advanced(clock[n], t - now)
    <3> HIDE DEF d
    <3>3. d \in Clock /\ d.reported = clock[n].reported /\ WorksOff(clock[n], d, t - now)
      BY <3>2 DEF d
    <3>4. clock'[n] = ReadClock(d)
      BY <2>2 DEF d
    <3> QED BY <3>3, <3>4, ReadClockType DEF Reads, WorksOff
  <2>4. clock' \in [Node -> Clock]
    BY <2>2, <2>3 DEF Reads
  <2> QED BY <1>0, <2>3, <2>4 DEF Timed
<1> QED BY <1>1, <1>2

LEMMA TimedStep ==
  ASSUME Timed, [WorldNext]_worldVars
  PROVE  /\ Timed'
         /\ \A n \in Node : Reads(clock[n], clock'[n])
         /\ now' # now => \A n \in Node : WorksOff(clock[n], clock'[n], now' - now)
<1> USE DEF Timed
<1>0. now \in Nat /\ Duration \in Nat /\ now <= Duration
  BY WorldAssumption
<1>1. ASSUME UNCHANGED <<now, clock>>
      PROVE  Timed' /\ now' = now /\ \A n \in Node : Reads(clock[n], clock'[n])
  BY <1>1 DEF Reads, Clock
<1>2. ASSUME NextInstant
      PROVE  \E t \in now .. Duration : AdvanceTo(t)
  BY <1>2 DEF NextInstant
<1>3. ASSUME Finish
      PROVE  \E t \in now .. Duration : AdvanceTo(t)
  BY <1>0, <1>3 DEF Finish
<1>4. ASSUME Apply
      PROVE  Timed' /\ now' = now /\ \A n \in Node : Reads(clock[n], clock'[n])
  <2>0. UNCHANGED now
    BY <1>4 DEF Apply, Scripted
  <2>1. ASSUME NEW n \in Node, NEW asks, TickOp(n, asks)
        PROVE  Timed' /\ \A m \in Node : Reads(clock[m], clock'[m])
    BY <1>1, <2>0, <2>1, EventReads DEF TickOp, Event
  <2>2. ASSUME NEW n \in Node, ClockOp(n)
        PROVE  Timed' /\ \A m \in Node : Reads(clock[m], clock'[m])
    BY <2>0, <2>2, ClockOpReads
  <2>3. ASSUME \/ NetOp
               \/ \E n \in Node : Kill(n)
               \/ \E n \in Node, wipe \in BOOLEAN : Revive(n, wipe)
               \/ \E n \in Node, k \in Key : StorageOp(n, k)
        PROVE  UNCHANGED clock
    BY <2>3 DEF NetOp, Kill, Revive, StorageOp, deviceVars
  <2> QED BY <1>1, <1>4, <2>0, <2>1, <2>2, <2>3 DEF Apply
<1>5. ASSUME Settle
      PROVE  Timed' /\ now' = now /\ \A n \in Node : Reads(clock[n], clock'[n])
  <2>1. CASE StartSettling
    <3>1. \A n \in Node : Reads(clock[n], clock'[n])
      <4>1. \A n \in Node : clock[n] \in Clock /\ Reads(clock[n], ReadClock(clock[n]))
        BY ReadClockType DEF Reads
      <4> QED BY <2>1, <4>1 DEF StartSettling, Reads, Clock
    <3> QED BY <2>1, <3>1 DEF StartSettling, Reads
  <2>2. CASE CollectTimers \/ PassEnds
    BY <1>1, <2>2 DEF CollectTimers, PassEnds, deviceVars
  <2>3. CASE \E n \in Node, asks \in SUBSET Delay : ReceiveNext(n, asks) \/ FireNext(n, asks)
    BY <2>3, EventReads DEF ReceiveNext, FireNext, Event
  <2> QED BY <1>5, <2>1, <2>2, <2>3 DEF Settle
<1>6. ASSUME UNCHANGED worldVars
      PROVE  UNCHANGED <<now, clock>>
  BY <1>6 DEF worldVars, deviceVars
<1> QED BY <1>1, <1>2, <1>3, <1>4, <1>5, <1>6, TimePasses DEF WorldNext

(* A correction is never overdone, every jump that earns a unit leaves     *)
(* less of it, and what a core is told never goes back: for every rate,    *)
(* every offset and every jump in time.                                    *)
THEOREM ClocksConverge == WorldSpec => CorrectionsConverge
<1>1. Timed /\ [WorldNext]_worldVars => Timed'
  BY TimedStep
<1>2. Timed /\ [WorldNext]_worldVars =>
        [\A n \in Node :
           /\ clock'[n].reported >= clock[n].reported
           /\ now' # now =>
                /\ clock'[n].owed + clock'[n].absorbed = clock[n].owed + clock[n].absorbed
                /\ Magnitude(clock'[n].owed) <= Magnitude(clock[n].owed)
                /\ clock'[n].owed * clock[n].owed >= 0
                /\ clock[n].owed # 0 /\ (now' - now) * SlewPpm >= Million
                     => Magnitude(clock'[n].owed) < Magnitude(clock[n].owed)]_worldVars
  BY TimedStep DEF Reads, WorksOff
<1> QED BY <1>1, <1>2, TimedInitially, PTL DEF WorldSpec, CorrectionsConverge

-----------------------------------------------------------------------------
(* Datagrams.                                                              *)

Numbered(S) == \A p, q \in S : p.seq = q.seq => p = q

(* What is read is in the order it was due, copies of one moment in the    *)
(* order they were sent.                                                   *)
LEMMA ArrivalsAreOrdered ==
  ASSUME NEW S, IsFiniteSet(S), S \subseteq Packet, Numbered(S)
  PROVE  /\ Cardinality(S) \in Nat /\ DOMAIN Arrivals(S) = 1 .. Cardinality(S)
         /\ Arrivals(S) \in Seq(S) /\ Len(Arrivals(S)) = Cardinality(S)
         /\ \A i, j \in 1 .. Cardinality(S) :
              i < j => Earlier(Arrivals(S)[i], Arrivals(S)[j])
<1> DEFINE R == {a \in S \X S : Earlier(a[1], a[2])}
           n == Cardinality(S)
<1>1. \A p \in S : p.at \in Nat /\ p.seq \in Nat
  BY DEF Packet
<1>2. StrictOrder(S, R)
  BY <1>1 DEF StrictOrder, Earlier, Numbered
<1>3. \A p \in S : Before(S, R, p) = {q \in S : Earlier(q, p)}
  BY DEF Before
<1>4. \A p, q \in S : <<p, q>> \in R <=> Earlier(p, q)
  OBVIOUS
<1> HIDE DEF R
<1>5. n \in Nat /\ \A i \in 1 .. n : \E p \in S : Cardinality(Before(S, R, p)) = i - 1
  BY <1>2, PlacesAreTaken
<1>6. ASSUME NEW i \in 1 .. n
      PROVE  Arrivals(S)[i] \in S /\ Cardinality(Before(S, R, Arrivals(S)[i])) = i - 1
  <2>1. \E p \in S : Cardinality({q \in S : Earlier(q, p)}) = i - 1
    BY <1>3, <1>5
  <2>2. Arrivals(S)[i] = CHOOSE p \in S : Cardinality({q \in S : Earlier(q, p)}) = i - 1
    BY DEF Arrivals, InOrder
  <2>3. Arrivals(S)[i] \in S /\ Cardinality({q \in S : Earlier(q, Arrivals(S)[i])}) = i - 1
    BY <2>1, <2>2
  <2> QED BY <1>3, <2>3
<1>7. \A i, j \in 1 .. n : <<Arrivals(S)[i], Arrivals(S)[j]>> \in R <=> i < j
  <2> DEFINE q == Arrivals(S)
  <2>1. \A i \in 1 .. Cardinality(S) :
          q[i] \in S /\ Cardinality(Before(S, R, q[i])) = i - 1
    BY <1>6
  <2> HIDE DEF q
  <2> QED BY <1>2, <2>1, ListIsOrder DEF q
<1>8. DOMAIN Arrivals(S) = 1 .. n
  BY DEF Arrivals, InOrder
<1>9. Arrivals(S) \in Seq(S) /\ Len(Arrivals(S)) = n
  <2> DEFINE q == Arrivals(S)
  <2>0. q = [i \in 1 .. n |-> q[i]]
    BY DEF Arrivals, InOrder
  <2>1. DOMAIN q = 1 .. n /\ \A i \in 1 .. n : q[i] \in S
    BY <1>6, <1>8
  <2> HIDE DEF q, n
  <2>2. q \in [1 .. n -> S]
    BY <2>0, <2>1
  <2>3. q \in Seq(S) /\ Len(q) = n
    BY <1>5, <2>1, <2>2
  <2> QED BY <2>3 DEF q
<1> QED BY <1>4, <1>5, <1>6, <1>7, <1>8, <1>9

(* Each datagram has a number of its own and is for a device that is on,   *)
(* in the life it was sent to.                                             *)
OnAir ==
  /\ powered \subseteq Node /\ nextSeq \in Nat
  /\ life \in [Node -> Nat] /\ faults \in FaultModel
  /\ inFlight \subseteq Packet /\ IsFiniteSet(inFlight) /\ Numbered(inFlight)
  /\ \A p \in inFlight :
       p.to \in powered /\ p.life = life[p.to] /\ p.seq <= nextSeq

(* What a device has to read is sorted, and goes before what is on the air.*)
Queue(n, q) ==
  /\ q \in Seq(Packet)
  /\ n \notin powered => q = <<>>
  /\ \A i \in DOMAIN q :
       /\ q[i].to = n /\ q[i].life = life[n] /\ q[i].at <= now /\ q[i].seq <= nextSeq
       /\ \A j \in DOMAIN q : i < j => Earlier(q[i], q[j])
       /\ \A p \in inFlight : Earlier(q[i], p)

Received == inbox \in [Node -> Seq(Packet)] /\ \A n \in Node : Queue(n, inbox[n])

LEMMA NetInitially == WorldInit => OnAir /\ Received
<1> SUFFICES ASSUME WorldInit PROVE OnAir /\ Received
  OBVIOUS
<1>1. faults \in FaultModel
  <2>1. Perfect \in FaultModel
    BY DEF FaultModel, Perfect
  <2> QED BY <2>1, NetworkAssumption DEF WorldInit, NetInit
<1>2. OnAir
  BY <1>1, FS_EmptySet DEF WorldInit, NetInit, OnAir, Numbered
<1>3. <<>> \in Seq(Packet) /\ DOMAIN <<>> = {}
  OBVIOUS
<1> QED BY <1>2, <1>3 DEF WorldInit, NetInit, Received, Queue

(* A datagram becomes at most two, each due now or later.                  *)
LEMMA CopiesType ==
  ASSUME faults \in FaultModel, NEW made \in Copies
  PROVE  \A k \in DOMAIN made : k \in {1, 2} /\ made[k] \in Nat
<1>1. faults.latency \in Nat /\ faults.jitter \in Nat /\ faults.behind \in Nat
  BY DEF FaultModel
<1> DEFINE delays == OnTime \cup {d + faults.behind : d \in OnTime}
<1>2. OnTime \subseteq Nat /\ delays \subseteq Nat
  BY <1>1 DEF OnTime
<1>3. Copies = (IF faults.lossy THEN {<<>>} ELSE {}) \cup {<<d>> : d \in delays}
                 \cup (IF faults.twice THEN delays \X OnTime ELSE {})
  BY Zenon DEF Copies
<1> HIDE DEF delays
<1>4. made = <<>> \/ made \in {<<d>> : d \in delays} \/ made \in delays \X OnTime
  BY <1>3
<1>5. CASE made = <<>>
  BY <1>5
<1>6. CASE made \in {<<d>> : d \in delays}
  BY <1>2, <1>6
<1>7. CASE made \in delays \X OnTime
  <2>1. made \in Nat \X Nat
    BY <1>2, <1>7
  <2>2. made = <<made[1], made[2]>> /\ made[1] \in Nat /\ made[2] \in Nat
    BY <2>1
  <2>3. DOMAIN made = {1, 2}
    BY <2>2
  <2> QED BY <2>2, <2>3
<1> QED BY <1>4, <1>5, <1>6, <1>7

LEMMA TransmitNumbers ==
  ASSUME OnAir, Received, now \in Nat, NEW a \in Node, NEW targets, Transmit(a, targets, now)
  PROVE  \E new : /\ IsFiniteSet(new) /\ new \subseteq Packet /\ Numbered(new)
                  /\ inFlight' = inFlight \cup new
                  /\ nextSeq' \in Nat /\ nextSeq' >= nextSeq
                  /\ \A p \in new : /\ p.to \in powered /\ p.life = life[p.to]
                                    /\ p.at >= now
                                    /\ p.seq > nextSeq /\ p.seq <= nextSeq'
<1> DEFINE reached == Reachable(a, targets)
<1>1. reached \subseteq powered /\ reached \subseteq Node /\ IsFiniteSet(reached)
  <2>1. reached \subseteq powered /\ powered \subseteq Node
    BY DEF Reachable, OnAir
  <2>2. reached \subseteq Node
    BY <2>1
  <2> QED BY <2>1, <2>2, FS_Subset, NetworkAssumption
<1> DEFINE sent(copies) == {s \in reached \X {1, 2} : s[2] \in DOMAIN copies[s[1]]}
           place(copies, s) == 1 + Cardinality({r \in sent(copies) : SentBefore(r, s)})
           datagram(copies, s) ==
             [from |-> a, to |-> s[1], at |-> now + copies[s[1]][s[2]],
              seq |-> nextSeq + place(copies, s), life |-> life[s[1]]]
<1>2. PICK copies \in [reached -> Copies] :
        /\ inFlight' = inFlight \cup {datagram(copies, s) : s \in sent(copies)}
        /\ nextSeq' = nextSeq + Cardinality(sent(copies))
  BY DEF Transmit
<1> DEFINE T == sent(copies)
           R == {b \in T \X T : SentBefore(b[1], b[2])}
           new == {datagram(copies, s) : s \in T}
<1>3. IsFiniteSet(T)
  <2> DEFINE Two == {1, 2}
  <2>1. IsFiniteSet(Two)
    <3>1. IsFiniteSet({1}) /\ Two = {1} \cup {2}
      BY FS_Singleton
    <3> QED BY <3>1, FS_AddElement
  <2> HIDE DEF Two, reached
  <2>2. IsFiniteSet(reached \X Two)
    BY <1>1, <2>1, FS_Product
  <2> QED BY <2>2, FS_Subset DEF Two
<1>4. \A s \in T : /\ s = <<s[1], s[2]>> /\ s[1] \in reached /\ s[1] \in Nat
                   /\ s[2] \in {1, 2} /\ s[2] \in DOMAIN copies[s[1]]
  <2>1. \A s \in T : s \in reached \X {1, 2} /\ s[2] \in DOMAIN copies[s[1]]
    OBVIOUS
  <2>2. \A n \in reached : n \in Nat
    BY <1>1, NetworkAssumption
  <2> HIDE DEF reached, T
  <2> QED BY <2>1, <2>2
<1>5. StrictOrder(T, R)
  <2> HIDE DEF T
  <2> QED BY <1>4 DEF StrictOrder, SentBefore
<1>6. \A s \in T : Before(T, R, s) = {r \in T : SentBefore(r, s)}
  BY DEF Before
<1>7. \A s, r \in T : <<s, r>> \in R <=> SentBefore(s, r)
  OBVIOUS
<1>8. \A s \in T : place(copies, s) = 1 + Cardinality(Before(T, R, s))
  BY <1>6
<1>9. \A s \in T : copies[s[1]][s[2]] \in Nat
  <2>1. faults \in FaultModel
    BY DEF OnAir
  <2>2. \A s \in T : copies[s[1]] \in Copies
    BY <1>4
  <2> HIDE DEF T
  <2> QED BY <1>4, <2>1, <2>2, CopiesType
<1> DEFINE num(s) == place(copies, s)
<1>10. /\ Cardinality(T) \in Nat
       /\ \A s \in T : num(s) \in 1 .. Cardinality(T)
       /\ \A s, r \in T : num(s) = num(r) => s = r
  <2> HIDE DEF T, R, num
  <2>0. /\ Cardinality(T) \in Nat
        /\ \A s \in T : Cardinality(Before(T, R, s)) \in 0 .. Cardinality(T) - 1
        /\ \A s, r \in T : <<s, r>> \in R <=>
             Cardinality(Before(T, R, s)) < Cardinality(Before(T, R, r))
    BY <1>3, <1>5, PlacesAreTaken
  <2>1. \A s \in T : num(s) = 1 + Cardinality(Before(T, R, s))
    BY <1>8 DEF num
  <2>2. ASSUME NEW s \in T, NEW r \in T, num(s) = num(r)
        PROVE  s = r
    <3>1. <<s, r>> \notin R /\ <<r, s>> \notin R
      BY <2>0, <2>1, <2>2
    <3> QED BY <1>5, <3>1 DEF StrictOrder
  <2> QED BY <2>0, <2>1, <2>2
<1>11. IsFiniteSet(new)
  <2> DEFINE f == [s \in T |-> datagram(copies, s)]
  <2> HIDE DEF T, datagram
  <2>1. f \in Surjection(T, new)
    BY DEF Surjection
  <2> QED BY <1>3, <2>1, FS_Surjection
<1>12. ASSUME NEW s \in T
       PROVE  /\ datagram(copies, s) \in Packet
              /\ datagram(copies, s).to \in powered
              /\ datagram(copies, s).life = life[datagram(copies, s).to]
              /\ datagram(copies, s).at >= now
              /\ datagram(copies, s).seq = nextSeq + num(s)
  <2>1. datagram(copies, s) = [from |-> a, to |-> s[1], at |-> now + copies[s[1]][s[2]],
                               seq |-> nextSeq + num(s), life |-> life[s[1]]]
    OBVIOUS
  <2>2. /\ s[1] \in powered /\ s[1] \in Node /\ life[s[1]] \in Nat
        /\ copies[s[1]][s[2]] \in Nat /\ num(s) \in Nat /\ nextSeq \in Nat
    <3> HIDE DEF T, num, reached
    <3> QED BY <1>1, <1>4, <1>9, <1>10 DEF OnAir
  <2> HIDE DEF num, datagram, T
  <2> QED BY <2>1, <2>2 DEF Packet
<1>13. nextSeq' \in Nat /\ nextSeq' >= nextSeq /\ nextSeq' = nextSeq + Cardinality(T) /\ nextSeq \in Nat
  BY <1>2, <1>10 DEF OnAir
<1>14. inFlight' = inFlight \cup new
  BY <1>2
<1>15. \A p \in new : \E s \in T : p = datagram(copies, s)
  OBVIOUS
<1> HIDE DEF T, new, datagram, num
<1>16. Numbered(new)
  BY <1>10, <1>12, <1>13, <1>15 DEF Numbered
<1>17. \A p \in new : /\ p \in Packet
                      /\ p.to \in powered /\ p.life = life[p.to] /\ p.at >= now
                      /\ p.seq > nextSeq /\ p.seq <= nextSeq'
  BY <1>10, <1>12, <1>13, <1>15
<1> QED BY <1>11, <1>13, <1>14, <1>16, <1>17

LEMMA QueueHolds ==
  ASSUME NEW q \in Seq(Packet)
  PROVE  /\ Len(q) \in Nat /\ DOMAIN q = 1 .. Len(q)
         /\ \A i \in DOMAIN q : q[i] \in Packet /\ q[i].at \in Nat /\ q[i].seq \in Nat
<1>1. Len(q) \in Nat /\ DOMAIN q = 1 .. Len(q) /\ \A i \in DOMAIN q : q[i] \in Packet
  OBVIOUS
<1> QED BY <1>1 DEF Packet

LEMMA SendKeepsNet ==
  ASSUME OnAir, Received, now \in Nat, now' = now,
         NEW a \in Node, NEW targets, SendTo(a, targets, now)
  PROVE  OnAir' /\ Received'
<1>0. UNCHANGED <<powered, inbox, faults, life, now>>
  BY DEF SendTo
<1>1. CASE a \in powered
  <2>0. Transmit(a, targets, now)
    BY <1>1 DEF SendTo
  <2>1. PICK new :
          /\ IsFiniteSet(new) /\ new \subseteq Packet /\ Numbered(new)
          /\ inFlight' = inFlight \cup new
          /\ nextSeq' \in Nat /\ nextSeq' >= nextSeq
          /\ \A p \in new : /\ p.to \in powered /\ p.life = life[p.to]
                            /\ p.at >= now
                            /\ p.seq > nextSeq /\ p.seq <= nextSeq'
    BY <2>0, TransmitNumbers
  <2>2. /\ nextSeq \in Nat /\ IsFiniteSet(inFlight')
        /\ \A p \in inFlight' : p.seq \in Nat /\ p.at \in Nat
    BY <2>1, FS_Union DEF OnAir, Packet
  <2>3. Numbered(inFlight')
    BY <2>1, <2>2 DEF OnAir, Numbered
  <2>4. OnAir'
    BY <1>0, <2>1, <2>2, <2>3 DEF OnAir, Numbered
  <2>5. ASSUME NEW n \in Node, Queue(n, inbox[n])
        PROVE  Queue(n, inbox[n])'
    <3> DEFINE q == inbox[n]
    <3>1. \A i \in DOMAIN q : q[i].at \in Nat /\ q[i].seq \in Nat
      BY <2>5, QueueHolds DEF Queue
    <3>2. \A i \in DOMAIN q : q[i].seq <= nextSeq' /\ \A p \in new : Earlier(q[i], p)
      BY <2>1, <2>2, <2>5, <3>1 DEF Queue, Earlier
    <3> QED BY <1>0, <2>1, <2>5, <3>2 DEF Queue
  <2> QED BY <1>0, <2>4, <2>5 DEF Received
<1>2. CASE a \notin powered
  BY <1>0, <1>2 DEF SendTo, OnAir, Received, Queue, Numbered
<1> QED BY <1>1, <1>2

LEMMA DeliverKeepsNet ==
  ASSUME OnAir, Received, now \in Nat, NEW t \in Nat, t >= now, now' = t, Deliver(t)
  PROVE  /\ OnAir' /\ Received'
         /\ \A p \in inFlight' : p.at > t
         /\ powered' = powered
         /\ (\A p \in inFlight : p.at > t) =>
              \A n \in Node : inbox[n] = <<>> => inbox'[n] = <<>>
<1> DEFINE late == {p \in inFlight : p.at <= t}
           mine(n) == {p \in late : p.to = n /\ n \in powered}
<1>1. /\ inFlight' = inFlight \ late
      /\ inbox' = [n \in Node |-> inbox[n] \o Arrivals(mine(n))]
      /\ UNCHANGED <<powered, nextSeq, faults, life>>
  BY DEF Deliver
<1>2. \A p \in inFlight : p.at \in Nat /\ p.seq \in Nat
  BY DEF OnAir, Packet
<1>3. \A p \in inFlight' : p.at > t /\ p \in inFlight
  BY <1>1, <1>2
<1>4. OnAir'
  <2>1. IsFiniteSet(inFlight')
    BY <1>1, FS_Subset DEF OnAir
  <2> QED BY <1>1, <1>3, <2>1 DEF OnAir, Numbered
<1>5. ASSUME NEW n \in Node
      PROVE  /\ IsFiniteSet(mine(n)) /\ mine(n) \subseteq Packet /\ Numbered(mine(n))
             /\ mine(n) \subseteq inFlight
             /\ \A p \in mine(n) : p.to = n /\ n \in powered /\ p.at <= t
  <2>1. mine(n) \subseteq inFlight
    OBVIOUS
  <2> QED BY <2>1, FS_Subset DEF OnAir, Numbered
<1> HIDE DEF mine, late
<1>6. ASSUME NEW n \in Node
      PROVE  Queue(n, inbox[n])'
  <2> DEFINE a == inbox[n]
             b == Arrivals(mine(n))
             q == a \o b
  <2>1. /\ b \in Seq(mine(n)) /\ Len(b) \in Nat /\ DOMAIN b = 1 .. Len(b)
        /\ \A i, j \in 1 .. Len(b) : i < j => Earlier(b[i], b[j])
    BY <1>5, ArrivalsAreOrdered
  <2>2. Queue(n, a)
    BY DEF Received
  <2> HIDE DEF a, b
  <2>3. /\ a \in Seq(Packet) /\ Len(a) \in Nat /\ DOMAIN a = 1 .. Len(a)
        /\ \A i \in DOMAIN a : a[i].at \in Nat /\ a[i].at <= now
    <3>1. a \in Seq(Packet) /\ \A i \in DOMAIN a : a[i].at <= now
      BY <2>2 DEF Queue
    <3> QED BY <3>1, QueueHolds
  <2>4. \A i \in 1 .. Len(b) : b[i] \in mine(n)
    BY <2>1
  <2>5. b \in Seq(Packet)
    BY <1>5, <2>1
  <2>6. /\ q \in Seq(Packet) /\ Len(q) = Len(a) + Len(b) /\ DOMAIN q = 1 .. Len(q)
        /\ \A i \in 1 .. Len(q) : q[i] = IF i <= Len(a) THEN a[i] ELSE b[i - Len(a)]
    BY <2>3, <2>5
  <2> HIDE DEF q
  <2>7. ASSUME NEW i \in DOMAIN q
        PROVE  \/ i \in DOMAIN a /\ q[i] = a[i]
               \/ \E k \in 1 .. Len(b) : i = Len(a) + k /\ q[i] = b[k] /\ b[k] \in mine(n)
    <3>1. CASE i <= Len(a)
      BY <2>1, <2>3, <2>6, <3>1
    <3>2. CASE ~ (i <= Len(a))
      <4>1. i - Len(a) \in 1 .. Len(b) /\ i = Len(a) + (i - Len(a))
        BY <2>1, <2>3, <2>6, <3>2
      <4> QED BY <2>4, <2>6, <3>2, <4>1
    <3> QED BY <3>1, <3>2
  <2>8. ASSUME NEW i \in DOMAIN q
        PROVE  q[i].to = n /\ q[i].life = life[n] /\ q[i].at <= t /\ q[i].seq <= nextSeq
    <3>1. CASE i \in DOMAIN a /\ q[i] = a[i]
      BY <2>2, <2>3, <3>1 DEF Queue
    <3>2. CASE \E k \in 1 .. Len(b) : q[i] = b[k] /\ b[k] \in mine(n)
      BY <1>5, <3>2 DEF OnAir
    <3> QED BY <2>7, <3>1, <3>2
  <2>9. ASSUME NEW i \in DOMAIN q, NEW p \in inFlight'
        PROVE  Earlier(q[i], p)
    <3>1. CASE i \in DOMAIN a /\ q[i] = a[i]
      BY <1>3, <2>2, <3>1 DEF Queue
    <3>2. CASE \E k \in 1 .. Len(b) : q[i] = b[k] /\ b[k] \in mine(n)
      <4>1. q[i].at <= t /\ q[i].at \in Nat
        BY <1>2, <1>5, <3>2
      <4> QED BY <1>2, <1>3, <4>1 DEF Earlier
    <3> QED BY <2>7, <3>1, <3>2
  <2>10. ASSUME NEW i \in DOMAIN q, NEW j \in DOMAIN q, i < j
         PROVE  Earlier(q[i], q[j])
    <3>0. i \in Nat /\ j \in Nat
      BY <2>6
    <3>1. CASE i \in DOMAIN a /\ q[i] = a[i] /\ j \in DOMAIN a /\ q[j] = a[j]
      BY <2>2, <2>10, <3>1 DEF Queue
    <3>2. CASE i \in DOMAIN a /\ q[i] = a[i] /\ \E k \in 1 .. Len(b) : q[j] = b[k] /\ b[k] \in mine(n)
      BY <1>5, <2>2, <3>2 DEF Queue
    <3>3. CASE (\E k \in 1 .. Len(b) : i = Len(a) + k) /\ j \in DOMAIN a
      BY <2>1, <2>3, <2>10, <3>3
    <3>4. CASE /\ \E k \in 1 .. Len(b) : i = Len(a) + k /\ q[i] = b[k]
               /\ \E k \in 1 .. Len(b) : j = Len(a) + k /\ q[j] = b[k]
      BY <2>1, <2>3, <2>10, <3>4
    <3> QED BY <2>7, <3>1, <3>2, <3>3, <3>4
  <2>11. n \notin powered => q = <<>>
    <3>1. n \notin powered => mine(n) = {} /\ a = <<>>
      BY <1>5, <2>2 DEF Queue
    <3>2. n \notin powered => Len(b) = 0
      BY <2>1, <2>4, <3>1
    <3> QED BY <2>6, <3>1, <3>2
  <2>12. inbox'[n] = q
    BY <1>1 DEF q, a, b
  <2> QED BY <1>1, <2>6, <2>8, <2>9, <2>10, <2>11, <2>12 DEF Queue
<1>7. Received'
  <2>1. inbox' \in [Node -> Seq(Packet)]
    BY <1>1, <1>6 DEF Queue
  <2> QED BY <1>6, <2>1 DEF Received
<1>8. ASSUME NEW n \in Node, inbox[n] = <<>>, \A p \in inFlight : p.at > t
      PROVE  inbox'[n] = <<>>
  <2>1. mine(n) = {}
    BY <1>2, <1>8 DEF mine, late
  <2>2. Arrivals(mine(n)) \in Seq(mine(n))
    BY <1>5, ArrivalsAreOrdered
  <2>3. Arrivals(mine(n)) = <<>>
    BY <2>1, <2>2
  <2> QED BY <1>1, <1>8, <2>3
<1> QED BY <1>1, <1>3, <1>4, <1>7, <1>8

LEMMA RecvKeepsNet ==
  ASSUME OnAir, Received, now' = now, NEW n \in Node, Recv(n)
  PROVE  OnAir' /\ Received'
<1>1. OnAir'
  BY DEF Recv, OnAir, Numbered
<1>2. inbox' = [inbox EXCEPT ![n] = Tail(@)] /\ inbox[n] # <<>> /\ inbox[n] \in Seq(Packet)
  BY DEF Recv, Received
<1> DEFINE q == Tail(inbox[n])
<1>3. /\ q \in Seq(Packet) /\ DOMAIN q = 1 .. Len(q)
      /\ \A i \in DOMAIN q : i + 1 \in DOMAIN inbox[n] /\ q[i] = inbox[n][i + 1]
  BY <1>2
<1>4. Queue(n, inbox[n]) /\ n \in powered
  BY DEF Received, Recv
<1> HIDE DEF q
<1>5. \A i, j \in DOMAIN q : i < j <=> i + 1 < j + 1
  BY <1>3
<1>6. Queue(n, q)
  BY <1>3, <1>4, <1>5 DEF Queue
<1>7. \A m \in Node : inbox'[m] = IF m = n THEN q ELSE inbox[m]
  BY <1>2 DEF Received, q
<1>8. ASSUME NEW m \in Node
      PROVE  Queue(m, inbox'[m])
  BY <1>6, <1>7 DEF Received
<1>9. \A m \in Node : Queue(m, inbox[m])'
  BY <1>8 DEF Recv, Queue
<1> QED BY <1>1, <1>2, <1>3, <1>9 DEF Received

LEMMA PowerDownKeepsNet ==
  ASSUME OnAir, Received, now' = now, NEW n \in Node, PowerDown(n)
  PROVE  OnAir' /\ Received'
<1>1. /\ powered' = powered \ {n} /\ inFlight' = {p \in inFlight : p.to # n}
      /\ inbox' = [inbox EXCEPT ![n] = <<>>] /\ life' = [life EXCEPT ![n] = @ + 1]
      /\ UNCHANGED <<nextSeq, faults>>
  BY DEF PowerDown
<1>2. \A p \in inFlight' : p \in inFlight /\ p.to # n /\ p.to \in Node
  BY <1>1 DEF OnAir, Packet
<1>3. /\ life' \in [Node -> Nat]
      /\ \A m \in Node : m # n => life'[m] = life[m]
  BY <1>1 DEF OnAir
<1>4. IsFiniteSet(inFlight')
  BY <1>1, FS_Subset DEF OnAir
<1>5. OnAir'
  BY <1>1, <1>2, <1>3, <1>4 DEF OnAir, Numbered
<1>6. <<>> \in Seq(Packet) /\ DOMAIN <<>> = {}
  OBVIOUS
<1>7. ASSUME NEW m \in Node
      PROVE  Queue(m, inbox[m])'
  <2>1. CASE m = n
    <3>1. inbox'[m] = <<>>
      BY <1>1, <2>1 DEF Received
    <3> QED BY <1>6, <3>1 DEF Queue
  <2>2. CASE m # n
    <3>1. inbox'[m] = inbox[m] /\ Queue(m, inbox[m])
      BY <1>1, <2>2 DEF Received
    <3> QED BY <1>1, <1>2, <1>3, <2>2, <3>1 DEF Queue
  <2> QED BY <2>1, <2>2
<1> QED BY <1>1, <1>5, <1>7 DEF Received, Queue

LEMMA OthersKeepNet ==
  ASSUME OnAir, Received, now' = now, powered \subseteq powered', powered' \subseteq Node,
         faults' \in FaultModel, UNCHANGED <<inFlight, inbox, nextSeq, life>>
  PROVE  OnAir' /\ Received'
BY DEF OnAir, Received, Queue, Numbered

LEMMA NetOpKeepsNet ==
  ASSUME OnAir, Received, now \in Nat, now' = now, NetOp
  PROVE  OnAir' /\ Received'
<1>1. ASSUME NEW a \in Node, NEW targets, SendTo(a, targets, now)
      PROVE  OnAir' /\ Received'
  BY <1>1, SendKeepsNet
<1>2. ASSUME UNCHANGED <<powered, inFlight, inbox, nextSeq, life>>, faults' \in FaultModel
      PROVE  OnAir' /\ Received'
  BY <1>2, OthersKeepNet DEF OnAir
<1>3. ASSUME NEW pairs, Links(pairs)
      PROVE  OnAir' /\ Received'
  BY <1>2, <1>3 DEF Links, OnAir
<1>4. ASSUME NEW a \in Node, NEW g, Join(a, g)
      PROVE  OnAir' /\ Received'
  BY <1>2, <1>4 DEF Join, OnAir
<1>5. ASSUME NEW f \in FaultModels, SetFaults(f)
      PROVE  OnAir' /\ Received'
  BY <1>2, <1>5, NetworkAssumption DEF SetFaults
<1>6. CASE \E a, b \in Node : SendTo(a, {b}, now) \/ (a # b /\ (Partition(a, b) \/ Heal(a, b)))
  <2>1. PICK a \in Node, b \in Node :
          SendTo(a, {b}, now) \/ (a # b /\ (Partition(a, b) \/ Heal(a, b)))
    BY <1>6
  <2>2. CASE Partition(a, b) \/ Heal(a, b)
    BY <1>3, <2>2 DEF Partition, Heal
  <2> QED BY <1>1, <2>1, <2>2
<1>7. CASE \E a \in Node, g \in Group : SendTo(a, joined[g] \ {a}, now) \/ Join(a, g)
  BY <1>1, <1>4, <1>7
<1>8. CASE \E left \in SUBSET Node : \E right \in SUBSET (Node \ left) : Split(left, right)
  BY <1>3, <1>8 DEF Split
<1>9. CASE \E f \in FaultModels : SetFaults(f)
  BY <1>5, <1>9
<1>10. CASE HealAll
  BY <1>3, <1>10 DEF HealAll
<1> QED BY <1>6, <1>7, <1>8, <1>9, <1>10 DEF NetOp

LEMMA NetStep ==
  ASSUME OnAir, Received, Timed, [WorldNext]_worldVars
  PROVE  OnAir' /\ Received'
<1>0. now \in Nat /\ Duration \in Nat /\ now <= Duration
  BY WorldAssumption DEF Timed
<1>1. ASSUME UNCHANGED netVars, UNCHANGED now
      PROVE  OnAir' /\ Received'
  BY <1>1 DEF netVars, OnAir, Received, Queue, Numbered
<1>2. ASSUME NEW t \in now .. Duration, AdvanceTo(t)
      PROVE  OnAir' /\ Received'
  <2>1. t \in Nat /\ t >= now /\ now' = t
    BY <1>0, <1>2 DEF AdvanceTo
  <2>2. (UNCHANGED netVars /\ UNCHANGED now) \/ Deliver(t)
    BY <1>2 DEF AdvanceTo
  <2> QED BY <1>0, <1>1, <2>1, <2>2, DeliverKeepsNet
<1>3. CASE NextInstant \/ Finish
  BY <1>0, <1>2, <1>3 DEF NextInstant, Finish
<1>4. CASE Apply
  <2>0. now' = now
    BY <1>4 DEF Apply, Scripted
  <2>1. CASE NetOp
    BY <1>0, <2>0, <2>1, NetOpKeepsNet
  <2>2. ASSUME NEW n \in Node, Kill(n)
        PROVE  OnAir' /\ Received'
    BY <2>0, <2>2, PowerDownKeepsNet DEF Kill
  <2>3. ASSUME NEW n \in Node, NEW wipe, Revive(n, wipe)
        PROVE  OnAir' /\ Received'
    <3>1. PowerUp(n)
      BY <2>3 DEF Revive
    <3> QED BY <2>0, <3>1, OthersKeepNet DEF PowerUp, OnAir
  <2>4. ASSUME \/ \E n \in Node, asks \in SUBSET Delay : TickOp(n, asks)
               \/ \E n \in Node : ClockOp(n)
               \/ \E n \in Node, k \in Key : StorageOp(n, k)
        PROVE  UNCHANGED netVars
    BY <2>4 DEF TickOp, ClockOp, StorageOp
  <2> QED BY <1>1, <1>4, <2>0, <2>1, <2>2, <2>3, <2>4 DEF Apply
<1>5. CASE Settle
  <2>1. ASSUME Deliver(now), UNCHANGED now
        PROVE  OnAir' /\ Received'
    BY <1>0, <2>1, DeliverKeepsNet
  <2>2. ASSUME NEW n \in Node, NEW asks, ReceiveNext(n, asks)
        PROVE  OnAir' /\ Received'
    BY <2>2, RecvKeepsNet DEF ReceiveNext
  <2>3. CASE StartSettling
    BY <2>1, <2>3 DEF StartSettling
  <2>4. CASE PassEnds
    BY <1>1, <2>1, <2>4 DEF PassEnds
  <2>5. CASE CollectTimers
    BY <1>1, <2>5 DEF CollectTimers
  <2>6. ASSUME NEW n \in Node, NEW asks, FireNext(n, asks)
        PROVE  OnAir' /\ Received'
    BY <1>1, <2>6 DEF FireNext
  <2> QED BY <1>5, <2>2, <2>3, <2>4, <2>5, <2>6 DEF Settle
<1>6. CASE UNCHANGED worldVars
  BY <1>1, <1>6 DEF worldVars
<1> QED BY <1>3, <1>4, <1>5, <1>6 DEF WorldNext

-----------------------------------------------------------------------------
(* The runner.                                                             *)

Phases == {"idle", "op", "ops", "drain", "fire", "over"}

(* Nobody is to be woken now. *)
Asleep == \A n \in Node : timer[n] = Never \/ timer[n] > now

Flags == phase \in Phases /\ worked \in BOOLEAN /\ overrun \in BOOLEAN

Counts ==
  /\ ops \in 0 .. Ops /\ passes \in 0 .. MaxPasses
  /\ phase \in {"drain", "fire"} => passes < MaxPasses

Timers ==
  /\ timer \in [Node -> Nat \cup {Never}]
  /\ \A n \in Node : n \notin powered => timer[n] = Never
  /\ due \subseteq powered
  /\ phase # "fire" => due = {}

(* What a pass has done when it is where it is.                            *)
Done ==
  /\ phase \in {"drain", "fire", "idle", "over"} => \A p \in inFlight : p.at > now
  /\ phase \in {"fire", "idle", "over"} => \A n \in Node : inbox[n] = <<>>
  /\ phase = "fire" /\ ~ worked => due = {} /\ Asleep
  /\ phase \in {"idle", "over"} => overrun \/ Asleep

Running == Counts /\ Timers /\ Done

LEMMA FlagsStep ==
  ASSUME Flags, [WorldNext]_worldVars
  PROVE  Flags'
<1>1. CASE NextInstant \/ Finish
  <2>1. phase' \in Phases /\ UNCHANGED <<worked, overrun>>
    BY <1>1 DEF NextInstant, Finish, passVars, Phases
  <2> QED BY <2>1, Zenon DEF Flags
<1>2. CASE Apply
  <2>1. phase' \in Phases /\ UNCHANGED <<worked, overrun>>
    BY <1>2 DEF Apply, Scripted, passVars, Phases
  <2> QED BY <2>1, Zenon DEF Flags
<1>3. CASE StartSettling \/ CollectTimers
  <2>1. phase' \in Phases
    BY <1>3 DEF StartSettling, CollectTimers, Phases
  <2>2. worked' \in BOOLEAN /\ overrun' \in BOOLEAN
    BY <1>3, Zenon DEF StartSettling, CollectTimers, Flags
  <2> QED BY <2>1, <2>2, Zenon DEF Flags
<1>4. CASE PassEnds
  <2>1. phase' \in Phases
    BY <1>4 DEF PassEnds, Phases
  <2>2. worked' \in BOOLEAN /\ overrun' \in BOOLEAN
    BY <1>4, Zenon DEF PassEnds, Flags
  <2> QED BY <2>1, <2>2, Zenon DEF Flags
<1>5. ASSUME NEW n, NEW asks, ReceiveNext(n, asks) \/ FireNext(n, asks)
      PROVE  Flags'
  BY <1>5, Zenon DEF ReceiveNext, FireNext, Flags
<1>6. CASE UNCHANGED worldVars
  <2>1. UNCHANGED <<phase, worked, overrun>>
    BY <1>6, Zenon DEF worldVars, passVars
  <2> QED BY <2>1, Zenon DEF Flags
<1> QED BY <1>1, <1>2, <1>3, <1>4, <1>5, <1>6 DEF WorldNext, Settle

LEMMA RunningInitially == WorldInit => Running
<1> SUFFICES ASSUME WorldInit PROVE Running
  OBVIOUS
<1>1. /\ phase = "ops" /\ ops = Ops /\ passes = 0 /\ worked = FALSE /\ overrun = FALSE
      /\ timer = [n \in Node |-> Never] /\ due = {} /\ powered = Node
  BY DEF WorldInit, NetInit
<1>2. Counts
  BY <1>1, WorldAssumption DEF Counts
<1>3. Timers /\ Done
  BY <1>1 DEF Timers, Done
<1> QED BY <1>2, <1>3 DEF Running

LEMMA EarliestWake ==
  ASSUME now \in Nat, Timers, NEW n \in Node, NEW asks \in SUBSET Delay
  PROVE  /\ Wakes(n, asks) \in Nat \cup {Never}
         /\ asks # {} => now + Min(asks) \in Nat
<1>1. timer[n] \in Nat \cup {Never} /\ asks \subseteq Nat
  BY WorldAssumption DEF Timers
<1> DEFINE moments == {now + d : d \in asks} \cup ({timer[n]} \ {Never})
<1>2. moments \subseteq Nat
  BY <1>1
<1>3. ASSUME NEW S, S \subseteq Nat, S # {}
      PROVE  Min(S) \in S
  <2>1. \E x \in S : \A y \in S : x <= y
    BY <1>3, LeastNumber
  <2>2. Min(S) = CHOOSE x \in S : \A y \in S : x <= y
    BY DEF Min
  <2> QED BY <2>1, <2>2
<1>4. Wakes(n, asks) = IF moments = {} THEN Never ELSE Min(moments)
  BY DEF Wakes
<1> HIDE DEF moments
<1>5. Wakes(n, asks) \in Nat \cup {Never}
  BY <1>2, <1>3, <1>4
<1>6. asks # {} => Min(asks) \in Nat
  BY <1>1, <1>3
<1> QED BY <1>5, <1>6

LEMMA FirstOfSome ==
  ASSUME NEW S, S \subseteq Node, S # {}
  PROVE  Min(S) \in S
<1>1. \E x \in S : \A y \in S : x <= y
  BY LeastNumber, NetworkAssumption
<1>2. Min(S) = CHOOSE x \in S : \A y \in S : x <= y
  BY DEF Min
<1> QED BY <1>1, <1>2

(* A jump in time that leaves out nothing that is due leaves nothing late. *)
LEMMA JumpKeepsRunning ==
  ASSUME OnAir, Received, Timed, Running, NextInstant \/ Finish
  PROVE  Running'
<1>0. /\ now \in Nat /\ Duration \in Nat /\ now <= Duration
      /\ phase = "idle" /\ UNCHANGED <<timer, due, worked, passes, overrun, ops>>
  BY WorldAssumption DEF Timed, NextInstant, Finish, passVars
<1>1. ASSUME NEW t \in now .. Duration, AdvanceTo(t)
      PROVE  powered' = powered /\ now' = t
  <2>1. t \in Nat /\ t >= now /\ now' = t
    BY <1>0, <1>1 DEF AdvanceTo
  <2>2. powered' = powered \/ Deliver(t)
    BY <1>1 DEF AdvanceTo, netVars
  <2> QED BY <1>0, <2>1, <2>2, DeliverKeepsNet
<1>2. CASE NextInstant
  <2>1. phase' \in {"op", "ops"} /\ powered' = powered
    BY <1>1, <1>2 DEF NextInstant
  <2> QED BY <1>0, <2>1 DEF Running, Counts, Timers, Done
<1>3. CASE Finish
  <2>1. /\ phase' = "over" /\ AdvanceTo(Duration)
        /\ \A p \in Pending : p > Duration
    BY <1>3 DEF Finish
  <2>2. powered' = powered /\ now' = Duration
    BY <1>0, <1>1, <2>1
  <2>3. \A p \in inFlight : p.at > Duration
    BY <2>1 DEF Pending
  <2>4. ASSUME NEW n \in Node, timer[n] > now
        PROVE  timer[n] > Duration
    <3>1. timer[n] \in Pending
      BY <2>4 DEF Pending
    <3> QED BY <2>1, <3>1
  <2>5. /\ \A p \in inFlight' : p.at > Duration
        /\ \A n \in Node : inbox'[n] = <<>>
    <3>1. CASE Duration = now
      <4>1. UNCHANGED <<inFlight, inbox>>
        BY <2>1, <3>1 DEF AdvanceTo, netVars
      <4> QED BY <1>0, <2>3, <4>1 DEF Running, Done
    <3>2. CASE Duration # now
      <4>1. Deliver(Duration)
        BY <2>1, <3>2 DEF AdvanceTo
      <4> QED BY <1>0, <2>2, <2>3, <4>1, DeliverKeepsNet DEF Running, Done
    <3> QED BY <3>1, <3>2
  <2>6. Counts' /\ Timers'
    BY <1>0, <2>1, <2>2 DEF Running, Counts, Timers
  <2>7. Done'
    BY <1>0, <2>1, <2>2, <2>4, <2>5 DEF Running, Done, Asleep
  <2> QED BY <2>6, <2>7 DEF Running
<1> QED BY <1>2, <1>3

LEMMA NetOpLeavesPower == NetOp => powered' = powered
<1> SUFFICES ASSUME NetOp PROVE powered' = powered
  OBVIOUS
<1>1. ASSUME \/ \E a, targets : SendTo(a, targets, now)
             \/ \E pairs : Links(pairs)
             \/ \E a, g : Join(a, g)
             \/ \E f : SetFaults(f)
      PROVE  powered' = powered
  BY <1>1 DEF SendTo, Links, Join, SetFaults
<1>2. CASE \E a, b \in Node : SendTo(a, {b}, now) \/ (a # b /\ (Partition(a, b) \/ Heal(a, b)))
  BY <1>1, <1>2 DEF Partition, Heal
<1>3. CASE \E a \in Node, g \in Group : SendTo(a, joined[g] \ {a}, now) \/ Join(a, g)
  BY <1>1, <1>3
<1>4. CASE \E left \in SUBSET Node : \E right \in SUBSET (Node \ left) : Split(left, right)
  BY <1>1, <1>4 DEF Split
<1>5. CASE (\E f \in FaultModels : SetFaults(f)) \/ HealAll
  BY <1>1, <1>5 DEF HealAll
<1> QED BY <1>2, <1>3, <1>4, <1>5 DEF NetOp

LEMMA ScriptKeepsRunning ==
  ASSUME OnAir, Received, Timed, Running, Apply
  PROVE  Running'
<1>0. now \in Nat
  BY WorldAssumption DEF Timed
<1>1. /\ phase \in {"op", "ops"} /\ phase' = "ops" /\ ops > 0 /\ ops' = ops - 1
      /\ UNCHANGED <<now, due, worked, passes, overrun>>
      /\ due = {}
  BY DEF Apply, Scripted, passVars, Running, Timers
<1>2. Counts'
  <2>1. ops - 1 \in 0 .. Ops
    BY <1>1, WorldAssumption DEF Running, Counts
  <2> QED BY <1>1, <2>1 DEF Running, Counts
<1>3. ASSUME UNCHANGED timer, powered \subseteq powered'
      PROVE  Timers'
  BY <1>1, <1>3 DEF Running, Timers
<1>4. ASSUME NEW n \in Node, NEW asks \in SUBSET Delay, TickOp(n, asks)
      PROVE  Timers'
  <2>1. CASE n \in powered
    <3>1. timer' = [timer EXCEPT ![n] = Wakes(n, asks)] /\ powered' = powered
      BY <1>4, <2>1 DEF TickOp, Event, netVars
    <3> QED BY <1>0, <1>1, <2>1, <3>1, EarliestWake DEF Running, Timers
  <2>2. CASE n \notin powered
    BY <1>3, <1>4, <2>2 DEF TickOp, netVars
  <2> QED BY <2>1, <2>2
<1>5. ASSUME NEW n \in Node, Kill(n)
      PROVE  Timers'
  <2>1. timer' = [timer EXCEPT ![n] = Never] /\ powered' = powered \ {n}
    BY <1>5 DEF Kill, PowerDown
  <2>2. /\ timer' \in [Node -> Nat \cup {Never}]
        /\ \A m \in Node : timer'[m] = IF m = n THEN Never ELSE timer[m]
    BY <2>1 DEF Running, Timers
  <2> QED BY <1>1, <2>1, <2>2 DEF Running, Timers
<1>6. ASSUME NetOp
      PROVE  Timers'
  <2>1. UNCHANGED timer
    BY <1>6 DEF NetOp, deviceVars
  <2>2. powered' = powered
    BY <1>6, NetOpLeavesPower
  <2> QED BY <1>3, <2>1, <2>2
<1>7. ASSUME NEW n \in Node, NEW wipe, Revive(n, wipe)
      PROVE  Timers'
  BY <1>3, <1>7 DEF Revive, PowerUp
<1>8. ASSUME NEW n \in Node, ClockOp(n)
      PROVE  Timers'
  BY <1>3, <1>8 DEF ClockOp, netVars
<1>9. ASSUME NEW n \in Node, NEW k, StorageOp(n, k)
      PROVE  Timers'
  BY <1>3, <1>9 DEF StorageOp, netVars
<1>10. Timers'
  <2>1. CASE \E n \in Node, asks \in SUBSET Delay : TickOp(n, asks)
    BY <1>4, <2>1
  <2>2. CASE \E n \in Node : Kill(n) \/ ClockOp(n)
    BY <1>5, <1>8, <2>2
  <2>3. CASE \E n \in Node, wipe \in BOOLEAN : Revive(n, wipe)
    BY <1>7, <2>3
  <2>4. CASE \E n \in Node, k \in Key : StorageOp(n, k)
    BY <1>9, <2>4
  <2> QED BY <1>6, <2>1, <2>2, <2>3, <2>4 DEF Apply
<1>11. Done'
  BY <1>1 DEF Done
<1> QED BY <1>2, <1>10, <1>11 DEF Running

LEMMA SettleKeepsRunning ==
  ASSUME OnAir, Received, Timed, Running, Settle
  PROVE  Running'
<1>0. now \in Nat /\ MaxPasses \in Nat /\ MaxPasses > 0
  BY WorldAssumption DEF Timed
<1>1. ASSUME Deliver(now), UNCHANGED now
      PROVE  powered' = powered /\ \A p \in inFlight' : p.at > now
  BY <1>0, <1>1, DeliverKeepsNet
<1>2. CASE StartSettling
  <2>1. /\ phase = "ops" /\ phase' = "drain" /\ worked' = FALSE /\ passes' = 0 /\ overrun' = FALSE
        /\ UNCHANGED <<now, timer, due, ops>> /\ Deliver(now)
    BY <1>2 DEF StartSettling
  <2>2. Counts'
    BY <1>0, <2>1 DEF Running, Counts
  <2> QED BY <1>1, <2>1, <2>2 DEF Running, Timers, Done
<1>3. ASSUME NEW n \in Node, NEW asks \in SUBSET Delay, ReceiveNext(n, asks)
      PROVE  Running'
  <2>1. /\ phase = "drain" /\ Waiting # {} /\ n = Min(Waiting)
        /\ timer' = [timer EXCEPT ![n] = Wakes(n, asks)] /\ worked' = TRUE
        /\ UNCHANGED <<now, phase, due, passes, overrun, ops, powered, inFlight>>
    BY <1>3 DEF ReceiveNext, Recv, Event
  <2>2. n \in powered
    <3>1. Waiting \subseteq powered /\ Waiting \subseteq Node
      BY DEF Waiting, OnAir
    <3> QED BY <2>1, <3>1, FirstOfSome
  <2>3. Timers'
    BY <1>0, <2>1, <2>2, EarliestWake DEF Running, Timers
  <2> QED BY <2>1, <2>3 DEF Running, Counts, Done
<1>4. CASE CollectTimers
  <2>1. /\ phase = "drain" /\ Waiting = {} /\ phase' = "fire"
        /\ due' = {n \in powered : timer[n] # Never /\ timer[n] <= now}
        /\ worked' = (worked \/ due' # {})
        /\ UNCHANGED <<powered, inFlight, inbox, now, timer, passes, overrun, ops>>
    BY <1>4 DEF CollectTimers, netVars, deviceVars
  <2>2. \A n \in Node : inbox[n] = <<>>
    BY <2>1 DEF Waiting, Received, Queue
  <2>3. worked' \in BOOLEAN
    BY <2>1
  <2>4. Counts'
    BY <2>1, <2>3 DEF Running, Counts
  <2>5. Timers'
    BY <2>1 DEF Running, Timers
  <2>6. ASSUME ~ worked'
        PROVE  due' = {} /\ Asleep'
    <3>1. due' = {}
      BY <2>1, <2>6
    <3>2. \A n \in Node : timer[n] = Never \/ timer[n] > now
      BY <1>0, <2>1, <3>1 DEF Running, Timers
    <3> QED BY <2>1, <3>1, <3>2 DEF Asleep
  <2>7. Done'
    BY <2>1, <2>2, <2>6 DEF Running, Done
  <2> QED BY <2>4, <2>5, <2>7 DEF Running
<1>5. ASSUME NEW n \in Node, NEW asks \in SUBSET Delay, FireNext(n, asks)
      PROVE  Running'
  <2>1. /\ phase = "fire" /\ due # {} /\ n = Min(due) /\ due' = due \ {n}
        /\ timer' = [timer EXCEPT ![n] = IF asks = {} THEN Never ELSE now + Min(asks)]
        /\ UNCHANGED <<now, phase, worked, passes, overrun, ops, powered, inFlight, inbox>>
    BY <1>5 DEF FireNext, netVars
  <2>2. n \in powered
    <3>1. due \subseteq powered /\ due \subseteq Node
      BY DEF Running, Timers, OnAir
    <3> QED BY <2>1, <3>1, FirstOfSome
  <2>3. (IF asks = {} THEN Never ELSE now + Min(asks)) \in Nat \cup {Never}
    BY <1>0, EarliestWake DEF Running
  <2>4. Timers'
    BY <2>1, <2>2, <2>3 DEF Running, Timers
  <2> QED BY <2>1, <2>4 DEF Running, Counts, Done
<1>6. CASE PassEnds
  <2>1. phase = "fire" /\ due = {} /\ UNCHANGED <<now, timer, due, ops>>
    BY <1>6 DEF PassEnds, deviceVars
  <2>2. CASE ~ worked /\ phase' = "idle" /\ UNCHANGED <<netVars, worked, passes, overrun>>
    BY <2>1, <2>2 DEF netVars, Running, Counts, Timers, Done, Asleep
  <2>3. CASE /\ worked /\ passes + 1 < MaxPasses
             /\ phase' = "drain" /\ Deliver(now)
             /\ worked' = FALSE /\ passes' = passes + 1 /\ UNCHANGED overrun
    <3>1. Counts'
      BY <1>0, <2>1, <2>3 DEF Running, Counts
    <3> QED BY <1>1, <2>1, <2>3, <3>1 DEF Running, Timers, Done
  <2>4. CASE /\ worked /\ passes + 1 >= MaxPasses
             /\ phase' = "idle" /\ overrun' = TRUE
             /\ passes' = passes + 1 /\ UNCHANGED <<netVars, worked>>
    <3>1. Counts'
      BY <1>0, <2>1, <2>4 DEF Running, Counts
    <3> QED BY <2>1, <2>4, <3>1 DEF netVars, Running, Timers, Done
  <2> QED BY <1>6, <2>2, <2>3, <2>4 DEF PassEnds
<1> QED BY <1>2, <1>3, <1>4, <1>5, <1>6 DEF Settle

(* What holds of a world in every state.                                   *)
WorldInv == Timed /\ OnAir /\ Received /\ Flags /\ Running

LEMMA WorldInvStep == WorldInv /\ [WorldNext]_worldVars => WorldInv'
<1> SUFFICES ASSUME WorldInv, [WorldNext]_worldVars PROVE WorldInv'
  OBVIOUS
<1>1. Timed' /\ OnAir' /\ Received'
  BY TimedStep, NetStep DEF WorldInv
<1>4. Flags'
  BY FlagsStep DEF WorldInv
<1>2. ASSUME UNCHANGED worldVars
      PROVE  Running'
  <2>1. UNCHANGED <<powered, inFlight, inbox, now, phase, timer, due, worked, passes, overrun, ops>>
    BY <1>2 DEF worldVars, netVars, deviceVars, passVars
  <2> QED BY <2>1 DEF WorldInv, Running, Counts, Timers, Done, Asleep
<1>3. Running'
  BY <1>2, JumpKeepsRunning, ScriptKeepsRunning, SettleKeepsRunning DEF WorldInv, WorldNext
<1> QED BY <1>1, <1>3, <1>4 DEF WorldInv

LEMMA WorldInvHolds == WorldSpec => []WorldInv
<1>1. WorldInit => WorldInv
  <2>1. WorldInit => Flags
    BY Zenon DEF WorldInit, Flags, Phases
  <2> QED BY <2>1, TimedInitially, NetInitially, RunningInitially DEF WorldInv
<1> QED BY <1>1, WorldInvStep, PTL DEF WorldSpec

(* Nothing that was due is left between two instants, unless the limit on  *)
(* passes cut it short: for every core, script and network.                *)
THEOREM NothingIsLeftLate == WorldSpec => []NothingIsLate
<1>1. WorldInv => NothingIsLate
  BY DEF WorldInv, Running, Done, Asleep, NothingIsLate
<1> QED BY <1>1, WorldInvHolds, PTL

-----------------------------------------------------------------------------
(* Flash.                                                                  *)

Flash(s) ==
  /\ IsFiniteSet(DOMAIN s.entries)
  /\ \A k \in DOMAIN s.entries : s.entries[k] \in Nat
  /\ s.used = Content(s) /\ s.used <= Capacity

Stored == \E S : storage \in [Node -> S] /\ \A s \in S : Flash(s)

LEMMA BlankIsFlash == Flash(Blank)
<1>1. Blank.used = 0 /\ DOMAIN Blank.entries = {}
  BY DEF Blank
<1> DEFINE w == [k \in DOMAIN Blank.entries |-> EntryCost(Blank.entries[k])]
<1>2. Content(Blank) = SumFunctionOnSet(w, {})
  <2>1. DOMAIN w = {}
    BY <1>1
  <2> QED BY <2>1, Zenon DEF Content, SumFunction
<1>3. w \in [{} -> Nat]
  BY <1>1
<1>4. IsFiniteSet({})
  BY FS_EmptySet
<1> HIDE DEF w
<1>5. SumFunctionOnSet(w, {}) = 0
  BY <1>3, <1>4, SumOfSome
<1> QED BY <1>1, <1>2, <1>4, <1>5, StorageAssumption DEF Flash

(* What two stores with the same values under some keys take for those.    *)
LEMMA ContentIs ==
  ASSUME NEW s, IsFiniteSet(DOMAIN s.entries), \A k \in DOMAIN s.entries : s.entries[k] \in Nat
  PROVE  /\ Content(s) \in Nat
         /\ \A k \in DOMAIN s.entries : EntryCost(s.entries[k]) \in Nat
         /\ \A k : \A t :
              /\ IsFiniteSet(DOMAIN t.entries) /\ \A j \in DOMAIN t.entries : t.entries[j] \in Nat
              /\ DOMAIN t.entries = DOMAIN s.entries \ {k}
              /\ \A j \in DOMAIN t.entries : t.entries[j] = s.entries[j]
              => Content(s) = OldCost(s, k) + Content(t)
<1> DEFINE D == DOMAIN s.entries
           w == [k \in D |-> EntryCost(s.entries[k])]
<1>1. \A k \in D : EntryCost(s.entries[k]) \in Nat
  BY StorageAssumption DEF EntryCost
<1>2. w \in [D -> Nat]
  BY <1>1
<1>3. Content(s) = SumFunctionOnSet(w, D)
  BY DEF Content, SumFunction
<1>4. Content(s) \in Nat
  <2> HIDE DEF w
  <2> QED BY <1>2, <1>3, SumOfSome
<1>5. ASSUME NEW k, NEW t,
             IsFiniteSet(DOMAIN t.entries), \A j \in DOMAIN t.entries : t.entries[j] \in Nat,
             DOMAIN t.entries = D \ {k},
             \A j \in DOMAIN t.entries : t.entries[j] = s.entries[j]
      PROVE  Content(s) = OldCost(s, k) + Content(t)
  <2> DEFINE E == D \ {k}
             v == [j \in E |-> EntryCost(t.entries[j])]
  <2>1. Content(t) = SumFunctionOnSet(v, E)
    BY <1>5 DEF Content, SumFunction
  <2>2. v \in [E -> Nat] /\ \A j \in E : w[j] = v[j]
    BY <1>1, <1>5
  <2>3. E \subseteq D /\ IsFiniteSet(E) /\ E \subseteq E /\ IsFiniteSet(D)
    BY <1>5
  <2>4. SumFunctionOnSet(w, E) = SumFunctionOnSet(v, E)
    <3> HIDE DEF E, v, w, D
    <3> QED BY <1>2, <2>2, <2>3, SumSame
  <2>5. CASE k \in D
    <3>1. w[k] = OldCost(s, k)
      BY <2>5 DEF OldCost
    <3> HIDE DEF w, v
    <3>2. SumFunctionOnSet(w, D) = w[k] + SumFunctionOnSet(w, D \ {k})
      BY <1>2, <2>5, SumAdd
    <3> QED BY <1>3, <2>1, <2>4, <3>1, <3>2
  <2>6. CASE k \notin D
    <3>1. E = D /\ OldCost(s, k) = 0
      BY <2>6 DEF OldCost
    <3>2. Content(s) = Content(t)
      BY <1>3, <2>1, <2>4, <3>1, Zenon
    <3> QED BY <1>4, <3>1, <3>2
  <2> QED BY <2>5, <2>6
<1> QED BY <1>1, <1>4, <1>5

LEMMA ErasedIsFlash ==
  ASSUME NEW s, Flash(s), NEW k
  PROVE  /\ Flash(Erased(s, k))
         /\ Erased(s, k).used = s.used - OldCost(s, k)
         /\ OldCost(s, k) \in Nat
<1> DEFINE D == DOMAIN s.entries
           t == Erased(s, k)
<1>1. /\ DOMAIN t.entries = D \ {k} /\ t.used = s.used - OldCost(s, k)
      /\ \A j \in D \ {k} : t.entries[j] = s.entries[j]
  BY DEF Erased, Restrict
<1>2. IsFiniteSet(D) /\ (\A j \in D : s.entries[j] \in Nat)
  BY DEF Flash
<1>3. IsFiniteSet(DOMAIN t.entries) /\ \A j \in DOMAIN t.entries : t.entries[j] \in Nat
  BY <1>1, <1>2, FS_Subset
<1> HIDE DEF t
<1>4. /\ Content(s) \in Nat /\ Content(t) \in Nat
      /\ Content(s) = OldCost(s, k) + Content(t)
  BY <1>1, <1>2, <1>3, ContentIs
<1>5. OldCost(s, k) \in Nat
  BY <1>2, ContentIs DEF OldCost
<1> QED BY <1>1, <1>3, <1>4, <1>5, StorageAssumption DEF Flash, t

LEMMA WrittenIsFlash ==
  ASSUME NEW s, Flash(s), NEW k, NEW len \in Nat
  PROVE  Flash(Written(s, k, len))
<1> DEFINE D == DOMAIN s.entries
           e == Erased(s, k)
           t == Written(s, k, len)
<1>1. CASE ~ (len <= MaxValueLen /\ Projected(s, k, len) <= Capacity)
  BY <1>1 DEF Written
<1>2. CASE len <= MaxValueLen /\ Projected(s, k, len) <= Capacity
  <2>1. /\ DOMAIN t.entries = D \cup {k} /\ t.used = Projected(s, k, len)
        /\ \A j \in D \cup {k} : t.entries[j] = IF j = k THEN len ELSE s.entries[j]
    BY <1>2 DEF Written
  <2>2. IsFiniteSet(D) /\ (\A j \in D : s.entries[j] \in Nat)
    BY DEF Flash
  <2>3. IsFiniteSet(DOMAIN t.entries) /\ \A j \in DOMAIN t.entries : t.entries[j] \in Nat
    BY <2>1, <2>2, FS_AddElement
  <2>4. DOMAIN e.entries = D \ {k} /\ \A j \in D \ {k} : e.entries[j] = s.entries[j]
    BY DEF Erased, Restrict
  <2>5. /\ Flash(e) /\ e.used = s.used - OldCost(s, k)
        /\ IsFiniteSet(DOMAIN e.entries) /\ \A j \in DOMAIN e.entries : e.entries[j] \in Nat
    BY ErasedIsFlash DEF Flash
  <2>6. /\ DOMAIN e.entries = DOMAIN t.entries \ {k}
        /\ \A j \in DOMAIN e.entries : e.entries[j] = t.entries[j]
    BY <2>1, <2>4
  <2>7. OldCost(t, k) = EntryCost(len) /\ EntryCost(len) \in Nat
    BY <2>1, StorageAssumption DEF OldCost, EntryCost
  <2>8. Content(e) \in Nat
    BY <2>5, ContentIs
  <2> HIDE DEF e, t
  <2>9. Content(t) = OldCost(t, k) + Content(e)
    BY <2>3, <2>5, <2>6, ContentIs
  <2>10. t.used = e.used + EntryCost(len)
    BY <2>1, <2>5 DEF Projected
  <2>11. t.used = Content(t)
    <3>1. e.used = Content(e)
      BY <2>5 DEF Flash
    <3> QED BY <2>7, <2>8, <2>9, <2>10, <3>1
  <2> QED BY <1>2, <2>1, <2>3, <2>11 DEF Flash, t
<1> QED BY <1>1, <1>2

LEMMA StoredStep ==
  ASSUME Stored, [WorldNext]_worldVars
  PROVE  Stored'
<1>1. PICK S : storage \in [Node -> S] /\ \A s \in S : Flash(s)
  BY DEF Stored
<1>2. ASSUME NEW n \in Node, NEW t, Flash(t), storage' = [storage EXCEPT ![n] = t]
      PROVE  Stored'
  <2> DEFINE T == S \cup {t}
  <2>1. storage' \in [Node -> T]
    BY <1>1, <1>2
  <2>2. \A s \in T : Flash(s)
    BY <1>1, <1>2
  <2> QED BY <2>1, <2>2, Zenon DEF Stored
<1>3. ASSUME UNCHANGED storage
      PROVE  Stored'
  BY <1>1, <1>3 DEF Stored
<1>4. ASSUME NEW n \in Node, NEW wipe, Revive(n, wipe)
      PROVE  Stored'
  BY <1>2, <1>3, <1>4, BlankIsFlash DEF Revive
<1>5. ASSUME NEW n \in Node, NEW k, StorageOp(n, k)
      PROVE  Stored'
  <2>1. Flash(storage[n])
    BY <1>1
  <2>2. CASE \E len \in Length : storage' = [storage EXCEPT ![n] = Written(@, k, len)]
    BY <1>2, <2>1, <2>2, WrittenIsFlash, WorldAssumption
  <2>3. CASE storage' = [storage EXCEPT ![n] = Erased(@, k)]
    BY <1>2, <2>1, <2>3, ErasedIsFlash
  <2> QED BY <1>5, <2>2, <2>3 DEF StorageOp
<1>6. CASE Apply
  <2>1. ASSUME NEW n, NEW asks, TickOp(n, asks)
        PROVE  UNCHANGED storage
    BY <2>1 DEF TickOp
  <2>2. ASSUME NEW n, Kill(n) \/ ClockOp(n)
        PROVE  UNCHANGED storage
    BY <2>2 DEF Kill, ClockOp
  <2>3. NetOp => UNCHANGED storage
    BY DEF NetOp, deviceVars
  <2> QED BY <1>3, <1>4, <1>5, <1>6, <2>1, <2>2, <2>3 DEF Apply
<1>7. CASE NextInstant \/ Finish
  BY <1>3, <1>7 DEF NextInstant, Finish
<1>8. CASE Settle
  BY <1>3, <1>8 DEF Settle, StartSettling, CollectTimers, PassEnds, ReceiveNext, FireNext, deviceVars
<1>9. CASE UNCHANGED worldVars
  BY <1>3, <1>9 DEF worldVars, deviceVars
<1> QED BY <1>6, <1>7, <1>8, <1>9 DEF WorldNext

(* Types; the silence of a device that is off, the order of what is read   *)
(* and the account of the flash: for every script, network and core.       *)
THEOREM WorldTypeCorrect == WorldSpec => []WorldTypeOK
<1>1. WorldInit => Stored
  <2> SUFFICES ASSUME WorldInit PROVE Stored
    OBVIOUS
  <2> DEFINE S == {Blank}
  <2>1. storage = [n \in Node |-> Blank]
    BY DEF WorldInit
  <2>2. storage \in [Node -> S]
    BY <2>1
  <2>3. \A s \in S : Flash(s)
    BY BlankIsFlash
  <2> HIDE DEF S
  <2>4. \E T : storage \in [Node -> T] /\ \A s \in T : Flash(s)
    BY <2>2, <2>3, Zenon
  <2> QED BY <2>4, Zenon DEF Stored
<1>2. Stored /\ [WorldNext]_worldVars => Stored'
  BY StoredStep
<1>3. WorldInv /\ Stored => WorldTypeOK
  <2> SUFFICES ASSUME WorldInv, Stored PROVE WorldTypeOK
    OBVIOUS
  <2>1. /\ phase \in {"idle", "op", "ops", "drain", "fire", "over"}
        /\ worked \in BOOLEAN /\ overrun \in BOOLEAN
    BY Zenon DEF WorldInv, Flags, Phases
  <2>2. /\ now \in 0 .. Duration /\ ops \in 0 .. Ops /\ passes \in 0 .. MaxPasses
        /\ due \subseteq powered /\ powered \subseteq Node
        /\ inFlight \subseteq Packet
        /\ \A p \in inFlight : p.life = life[p.to] /\ p.to \in powered
    BY DEF WorldInv, Timed, Running, Counts, Timers, OnAir
  <2>3. ASSUME NEW n \in Node
        PROVE  /\ timer[n] \in Nat \cup {Never}
               /\ n \notin powered => timer[n] = Never /\ inbox[n] = <<>>
               /\ \A i \in DOMAIN inbox[n] : inbox[n][i].to = n /\ inbox[n][i].life = life[n]
               /\ \A i, j \in DOMAIN inbox[n] : i < j => Earlier(inbox[n][i], inbox[n][j])
               /\ storage[n].used = Content(storage[n]) /\ storage[n].used <= Capacity
               /\ clock[n].owed \in -OwedMax .. OwedMax
    <3>1. timer[n] \in Nat \cup {Never} /\ (n \notin powered => timer[n] = Never)
      BY DEF WorldInv, Running, Timers
    <3>2. Queue(n, inbox[n])
      BY DEF WorldInv, Received
    <3>3. Flash(storage[n])
      BY DEF Stored
    <3>4. clock[n] \in Clock
      BY DEF WorldInv, Timed
    <3>5. /\ n \notin powered => inbox[n] = <<>>
          /\ \A i \in DOMAIN inbox[n] : inbox[n][i].to = n /\ inbox[n][i].life = life[n]
          /\ \A i, j \in DOMAIN inbox[n] : i < j => Earlier(inbox[n][i], inbox[n][j])
      BY <3>2 DEF Queue
    <3>6. storage[n].used = Content(storage[n]) /\ storage[n].used <= Capacity
      BY <3>3 DEF Flash
    <3>7. clock[n].owed \in -OwedMax .. OwedMax
      BY <3>4 DEF Clock
    <3> QED BY <3>1, <3>5, <3>6, <3>7
  <2> QED BY <2>1, <2>2, <2>3, Zenon DEF WorldTypeOK
<1> QED BY <1>1, <1>2, <1>3, WorldInvHolds, PTL DEF WorldSpec
=============================================================================
