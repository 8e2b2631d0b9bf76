----------------------------- MODULE NodeProofs -----------------------------
(***************************************************************************)
(* NodeMesh implements ElectionMesh: what is proved of devices that run    *)
(* nothing but the election holds of whole devices.                        *)
(***************************************************************************)
EXTENDS NodeMesh, FiniteSetTheorems, TLAPS

Election == INSTANCE ElectionProofs WITH
  net <- TicksOf(net), Endless <- TRUE, Budget <- 1, budget <- 1

(* A datagram is a frame around a body, and a tick names its sender.       *)
Framed(p) ==
  /\ p = [from |-> p.from, to |-> p.to, body |-> p.body, copy |-> p.copy]
  /\ p.body.type = "tick" => p.body.who.uuid = p.from

(* Finitely many datagrams are in flight, so that fewer of them are ticks. *)
NetInv ==
  /\ up \subseteq Node
  /\ asleep \subseteq Node
  /\ IsFiniteSet(net)
  /\ \A p \in net : Framed(p)

-----------------------------------------------------------------------------
(* Datagrams.                                                              *)

LEMMA DatagramsAreFinite ==
  ASSUME NEW from, NEW dests, NEW body, up \subseteq Node
  PROVE  IsFiniteSet(Datagrams(from, dests, body))
<1> DEFINE R == Reached(from, dests)
           D == Datagrams(from, dests, body)
           f == [b \in R |-> [from |-> from, to |-> b, body |-> body, copy |-> 1]]
<1>1. IsFiniteSet(R)
  BY NodeAssumption, FS_Subset DEF Reached
<1>2. f \in Surjection(R, D)
  BY DEF Surjection, Datagrams
<1> QED
  BY <1>1, <1>2, FS_Surjection

LEMMA DatagramsAreFramed ==
  ASSUME NEW from, NEW dests, NEW body,
         body.type = "tick" => body.who.uuid = from,
         NEW p \in Datagrams(from, dests, body)
  PROVE  Framed(p) /\ p.body = body
BY DEF Datagrams, Framed

(* What handlers send besides ticks.                                       *)
LEMMA RequestsAreNoTicks ==
  ASSUME up \subseteq Node, NEW n, NEW wants, NEW outstanding
  PROVE  /\ IsFiniteSet(Requests(n, wants, outstanding))
         /\ \A p \in Requests(n, wants, outstanding) :
              Framed(p) /\ p.body.type # "tick"
<1> DEFINE b == [type |-> "request", t1 |-> pending'[n]]
<1>1. b.type = "request"
  OBVIOUS
<1> HIDE DEF b
<1>2. CASE Requests(n, wants, outstanding) = {}
  BY <1>2, FS_EmptySet
<1>3. CASE Requests(n, wants, outstanding) = Datagrams(n, {master'[n]}, b)
  BY <1>1, <1>3, DatagramsAreFinite, DatagramsAreFramed
<1> QED
  BY <1>2, <1>3 DEF Requests, b

LEMMA AnswersAreNoTicks ==
  ASSUME up \subseteq Node, NEW n, NEW dests, NEW t
  PROVE  LET D == Datagrams(n, dests, [type |-> "response", t1 |-> t])
         IN  /\ IsFiniteSet(D)
             /\ \A p \in D : Framed(p) /\ p.body.type # "tick"
<1> DEFINE b == [type |-> "response", t1 |-> t]
<1>1. b.type = "response"
  OBVIOUS
<1> HIDE DEF b
<1>2. /\ IsFiniteSet(Datagrams(n, dests, b))
      /\ \A p \in Datagrams(n, dests, b) : Framed(p) /\ p.body.type # "tick"
  BY <1>1, DatagramsAreFinite, DatagramsAreFramed
<1> QED
  BY <1>2 DEF b

LEMMA TicksAreTicks ==
  ASSUME up \subseteq Node, NEW n
  PROVE  /\ IsFiniteSet(Ticks(n))
         /\ \A p \in Ticks(n) : Framed(p) /\ p.body.type = "tick"
<1> DEFINE b == [type |-> "tick", who |-> Me(n), epoch |-> epoch'[n]]
<1>1. b.type = "tick" /\ b.who.uuid = n
  BY DEF Me
<1>2. Ticks(n) = Datagrams(n, Node, b)
  BY DEF Ticks
<1> HIDE DEF b
<1> QED
  BY <1>1, <1>2, DatagramsAreFinite, DatagramsAreFramed

(* A handler that takes datagrams and sends framed ones keeps the          *)
(* invariant; the ticks of the network change by the ticks among them, and *)
(* are no more than the network has room for.                              *)
LEMMA ExchangeKeeps ==
  ASSUME NetInv, NEW taken, NEW sends, Exchange(taken, sends),
         IsFiniteSet(sends), \A p \in sends : Framed(p)
  PROVE  /\ NetInv'
         /\ TicksOf(net') = (TicksOf(net) \ TicksOf(taken)) \cup TicksOf(sends)
         /\ Cardinality(TicksOf(net')) <= MaxInFlight
         /\ asleep' = asleep \ {p.to : p \in taken}
         /\ UNCHANGED <<up, side>>
<1>1. net' = (net \ taken) \cup sends /\ Cardinality(net') <= MaxInFlight
  BY DEF Exchange
<1>2. IsFiniteSet(net')
  BY <1>1, FS_Difference, FS_Union DEF NetInv
<1>3. Cardinality(TicksOf(net')) <= Cardinality(net')
  BY <1>2, FS_Subset DEF TicksOf
<1>4. Cardinality(TicksOf(net')) \in Nat /\ Cardinality(net') \in Nat
  BY <1>2, FS_Subset, FS_CardinalityType DEF TicksOf
<1>5. Cardinality(TicksOf(net')) <= MaxInFlight
  BY <1>1, <1>3, <1>4, FabricAssumption
<1> QED
  BY <1>1, <1>2, <1>5 DEF NetInv, Framed, TicksOf, Exchange

-----------------------------------------------------------------------------
(* Each step of the mesh of nodes is one of the mesh of elections, or one  *)
(* it does not see.                                                        *)

MeshStep == [Mesh!MeshNext]_Mesh!meshVars

Unseen == UNCHANGED <<electionVars, up, asleep, side, TicksOf(net)>>

LEMMA UnseenIsStutter == Unseen => MeshStep
BY DEF Unseen, MeshStep, Mesh!meshVars, Mesh!electionVars, Mesh!fabricVars, electionVars

LEMMA SameCardinality ==
  ASSUME NEW S
  PROVE  Mesh!Cardinality(S) = Cardinality(S)
BY DEF Mesh!Cardinality, Cardinality, Mesh!IsFiniteSet, IsFiniteSet

(* The nodes run the election itself: its operators mean the same in both. *)
LEMMA SameTimer ==
  ASSUME NEW n
  PROVE  /\ Mesh!ElectionOnTimer(n) <=> ElectionOnTimer(n)
         /\ Mesh!ElectionDue(n) <=> ElectionDue(n)
         /\ Mesh!Announces(n) <=> Announces(n)
<1>1. /\ Mesh!StandDue(n) <=> StandDue(n)
      /\ Mesh!SettleDue(n) <=> SettleDue(n)
      /\ Mesh!TickDue(n) <=> TickDue(n)
  BY DEF StandDue, Mesh!StandDue, SettleDue, Mesh!SettleDue, TickDue, Mesh!TickDue
<1>2. Mesh!Beaten(n) <=> Beaten(n)
  BY DEF Beaten, Mesh!Beaten, Beats, Mesh!Beats, Me, Mesh!Me, None, Mesh!None
<1>3. Mesh!Stand(n) <=> Stand(n)
  BY <1>1 DEF Stand, Mesh!Stand, None, Mesh!None
<1>4. Mesh!Settle(n) <=> Settle(n)
  BY <1>1, <1>2 DEF Settle, Mesh!Settle, Assume, Mesh!Assume, StepBack, Mesh!StepBack
<1>5. Mesh!SendTick(n) <=> SendTick(n)
  BY <1>1 DEF SendTick, Mesh!SendTick
<1> QED
  BY <1>1, <1>2, <1>3, <1>4, <1>5
  DEF ElectionOnTimer, Mesh!ElectionOnTimer, ElectionDue, Mesh!ElectionDue,
      Announces, Mesh!Announces

LEMMA SameTick ==
  ASSUME NEW n, NEW who, NEW ep
  PROVE  Mesh!ElectionOnTick(n, who, ep) <=> ElectionOnTick(n, who, ep)
<1>1. Mesh!Beats(who, Mesh!Me(n)) <=> Beats(who, Me(n))
  BY DEF Beats, Mesh!Beats, Me, Mesh!Me
<1>2. Mesh!FollowerHears(n) <=> FollowerHears(n)
  BY DEF FollowerHears, Mesh!FollowerHears
<1>3. Mesh!CandidateHears(n, who) <=> CandidateHears(n, who)
  BY <1>1 DEF CandidateHears, Mesh!CandidateHears, Beats, Mesh!Beats, None, Mesh!None
<1>4. Mesh!CandidateConcedes(n, who) <=> CandidateConcedes(n, who)
  BY <1>1 DEF CandidateConcedes, Mesh!CandidateConcedes, None, Mesh!None
<1>5. Mesh!LeaderHearsWorse(n, who) <=> LeaderHearsWorse(n, who)
  BY <1>1 DEF LeaderHearsWorse, Mesh!LeaderHearsWorse
<1>6. Mesh!LeaderHearsBetter(n, who) <=> LeaderHearsBetter(n, who)
  BY <1>1 DEF LeaderHearsBetter, Mesh!LeaderHearsBetter
<1>7. Mesh!LeaderYields(n, who) <=> LeaderYields(n, who)
  BY <1>1 DEF LeaderYields, Mesh!LeaderYields
<1> QED
  BY <1>2, <1>3, <1>4, <1>5, <1>6, <1>7 DEF ElectionOnTick, Mesh!ElectionOnTick

LEMMA OnTimerRefines ==
  ASSUME NetInv, NEW n \in Node, OnTimer(n)
  PROVE  NetInv' /\ MeshStep
<1> DEFINE T == IF Announces(n) THEN Ticks(n) ELSE {}
           Q == Requests(n, TimerWantsProbe(n), StillPending(n))
<1>1. /\ IsFiniteSet(T) /\ \A p \in T : Framed(p) /\ p.body.type = "tick"
  BY TicksAreTicks, FS_EmptySet DEF NetInv
<1>2. /\ IsFiniteSet(Q) /\ \A p \in Q : Framed(p) /\ p.body.type # "tick"
  BY RequestsAreNoTicks DEF NetInv
<1>3. Exchange({}, T \cup Q)
  BY DEF OnTimer
<1>4. TicksOf(T \cup Q) = T /\ TicksOf({}) = {}
  BY <1>1, <1>2 DEF TicksOf
<1>5. IsFiniteSet(T \cup Q)
  BY <1>1, <1>2, FS_Union
<1> HIDE DEF Q
<1>6. /\ NetInv'
      /\ TicksOf(net') = TicksOf(net) \cup T
      /\ Cardinality(TicksOf(net')) <= MaxInFlight
      /\ UNCHANGED <<up, asleep, side>>
  <2> HIDE DEF T
  <2>1. asleep' = asleep \ {p.to : p \in {}}
    BY <1>3 DEF Exchange
  <2>2. asleep' = asleep
    BY <2>1
  <2>3. \A p \in T \cup Q : Framed(p)
    BY <1>1, <1>2
  <2>4. /\ NetInv'
        /\ TicksOf(net') = (TicksOf(net) \ TicksOf({})) \cup TicksOf(T \cup Q)
        /\ Cardinality(TicksOf(net')) <= MaxInFlight
        /\ UNCHANGED <<up, side>>
    BY <2>3, <1>3, <1>5, ExchangeKeeps
  <2> QED
    BY <2>2, <2>4, <1>4
<1>7. CASE ElectionOnTimer(n)
  <2>1. Mesh!ElectionOnTimer(n) /\ (Mesh!Announces(n) <=> Announces(n))
    BY <1>7, SameTimer
  <2>2. Mesh!Ticks(n) = Ticks(n)
    BY DEF Mesh!Ticks, Ticks, Mesh!Datagrams, Datagrams, Mesh!Reached, Reached,
           Mesh!Together, Together, Mesh!Me, Me
  <2>3. Mesh!Exchange({}, T)
    BY <1>6, SameCardinality DEF Mesh!Exchange
  <2>4. Mesh!OnTimer(n)
    BY <2>1, <2>2, <2>3 DEF OnTimer, Mesh!OnTimer
  <2> QED
    BY <1>6, <2>4 DEF MeshStep, Mesh!MeshNext, Mesh!PowerAndTimers
<1>8. CASE ~ ElectionDue(n) /\ UNCHANGED electionVars
  <2>1. T = {}
    BY <1>8 DEF Announces, ElectionDue
  <2> QED
    BY <1>6, <1>8, <2>1, UnseenIsStutter DEF Unseen
<1> QED
  BY <1>7, <1>8 DEF OnTimer, ElectionTurn

(* A datagram that moves no election, and answers that are no ticks: to    *)
(* the election it is nothing, or it wakes the device it reaches.          *)
LEMMA Unheard ==
  ASSUME NetInv, NEW p \in net, p.body.type # "tick", UNCHANGED electionVars,
         NEW sends, Exchange({p}, sends), IsFiniteSet(sends),
         \A q \in sends : Framed(q) /\ q.body.type # "tick"
  PROVE  NetInv' /\ MeshStep
<1>1. TicksOf({p}) = {} /\ TicksOf(sends) = {}
  BY DEF TicksOf
<1>2. /\ NetInv' /\ UNCHANGED <<up, side>>
      /\ asleep' = asleep \ {q.to : q \in {p}}
      /\ TicksOf(net') = (TicksOf(net) \ TicksOf({p})) \cup TicksOf(sends)
  BY ExchangeKeeps
<1>3. {q.to : q \in {p}} = {p.to}
  OBVIOUS
<1>4. CASE p.to \in asleep
  <2>1. p.to \in Node
    BY <1>4 DEF NetInv
  <2>2. Mesh!Wake(p.to)
    BY <1>1, <1>2, <1>3, <1>4 DEF Mesh!Wake, Mesh!electionVars, electionVars
  <2> QED
    BY <1>2, <2>1, <2>2 DEF MeshStep, Mesh!MeshNext, Mesh!PowerAndTimers
<1>5. CASE p.to \notin asleep
  BY <1>1, <1>2, <1>3, <1>5, UnseenIsStutter DEF Unseen
<1> QED
  BY <1>4, <1>5

(* A tick is heard by the election, whatever the node sends because of it. *)
LEMMA Heard ==
  ASSUME NetInv, NEW p \in net, p.body.type = "tick",
         \/ ElectionOnTick(p.to, p.body.who, p.body.epoch)
         \/ p.from = p.to /\ UNCHANGED electionVars,
         NEW sends, Exchange({p}, sends), IsFiniteSet(sends),
         \A q \in sends : Framed(q) /\ q.body.type # "tick"
  PROVE  NetInv' /\ MeshStep
<1>1. TicksOf({p}) = {p} /\ TicksOf(sends) = {} /\ p \in TicksOf(net)
  BY DEF TicksOf
<1>2. /\ NetInv' /\ UNCHANGED <<up, side>>
      /\ asleep' = asleep \ {q.to : q \in {p}}
      /\ TicksOf(net') = (TicksOf(net) \ TicksOf({p})) \cup TicksOf(sends)
      /\ Cardinality(TicksOf(net')) <= MaxInFlight
  BY ExchangeKeeps
<1>3. Mesh!Exchange({p}, {})
  BY <1>1, <1>2, SameCardinality DEF Mesh!Exchange
<1>4. p.body.who.uuid = p.from
  BY DEF NetInv, Framed
<1>5. \/ Mesh!ElectionOnTick(p.to, p.body.who, p.body.epoch)
      \/ Mesh!ElectionOwnTick(p.to, p.body.who)
  BY <1>4, SameTick DEF Mesh!ElectionOwnTick, Mesh!electionVars, electionVars
<1>6. Mesh!OnDatagram(p)
  BY <1>3, <1>5 DEF Mesh!OnDatagram
<1> QED
  BY <1>1, <1>2, <1>6 DEF MeshStep, Mesh!MeshNext

LEMMA OnDatagramRefines ==
  ASSUME NetInv, NEW p \in net, OnDatagram(p)
  PROVE  NetInv' /\ MeshStep
<1>0. up \subseteq Node /\ IsFiniteSet({})
  BY FS_EmptySet DEF NetInv
<1>1. CASE OwnDatagram(p)
  <2>1. p.from = p.to /\ UNCHANGED electionVars /\ Exchange({p}, {})
    BY <1>1 DEF OwnDatagram
  <2>2. CASE p.body.type = "tick"
    BY <1>0, <2>1, <2>2, Heard
  <2>3. CASE p.body.type # "tick"
    BY <1>0, <2>1, <2>3, Unheard
  <2> QED
    BY <2>2, <2>3
<1>2. CASE OnTickMessage(p)
  <2>1. PICK wants :
          /\ p.body.type = "tick"
          /\ ElectionOnTick(p.to, p.body.who, p.body.epoch)
          /\ Exchange({p}, Requests(p.to, wants, pending[p.to]))
    BY <1>2, Zenon DEF OnTickMessage
  <2> QED
    BY <1>0, <2>1, RequestsAreNoTicks, Heard
<1>3. CASE OnSyncReq(p)
  <2> DEFINE D == Datagrams(p.to, {p.from}, [type |-> "response", t1 |-> p.body.t1])
  <2>1. /\ IsFiniteSet(D)
        /\ \A q \in D : Framed(q) /\ q.body.type # "tick"
    BY <1>0, AnswersAreNoTicks
  <2>2. p.body.type # "tick" /\ UNCHANGED electionVars /\ Exchange({p}, D)
    BY <1>3 DEF OnSyncReq
  <2> HIDE DEF D
  <2> QED
    BY <2>1, <2>2, Unheard
<1>4. CASE OnSyncResp(p)
  <2>1. p.body.type # "tick" /\ UNCHANGED electionVars
    BY <1>4 DEF OnSyncResp
  <2>2. CASE IgnoreSyncResp(p)
    BY <1>0, <2>1, <2>2, Unheard DEF IgnoreSyncResp
  <2>3. ASSUME NEW rtt \in RoundTrips, TakeSyncResp(p, rtt)
        PROVE  NetInv' /\ MeshStep
    BY <1>0, <2>1, <2>3, RequestsAreNoTicks, Unheard DEF TakeSyncResp
  <2> QED
    BY <1>4, <2>2, <2>3 DEF OnSyncResp
<1> QED
  BY <1>1, <1>2, <1>3, <1>4 DEF OnDatagram

LEMMA ElapseRefines ==
  ASSUME NetInv, Elapse
  PROVE  NetInv' /\ MeshStep
<1>1. NetInv'
  BY DEF Elapse, fabricVars, NetInv, Framed
<1>2. Mesh!ElectionAges
  BY DEF Elapse, ElectionAges, Mesh!ElectionAges, Older, Mesh!Older
<1>3. Prompt => TicksOf(net) = {} /\ \A n \in up \ asleep : ~ Mesh!ElectionDue(n)
  BY SameTimer DEF Elapse, Due, TicksOf
<1>4. UNCHANGED Mesh!fabricVars
  BY DEF Elapse, fabricVars, Mesh!fabricVars
<1> QED
  BY <1>1, <1>2, <1>3, <1>4 DEF Mesh!Elapse, MeshStep, Mesh!MeshNext

LEMMA PowerRefines ==
  ASSUME NetInv, NEW n \in Node,
         Resume(n) \/ \E c \in Capacity : Boot(n, c)
  PROVE  NetInv' /\ MeshStep
<1>1. PowerOn(n) /\ Mesh!PowerOn(n)
  BY DEF Resume, Boot, StartsOver, GoesOn, PowerOn, Mesh!PowerOn
<1>2. CASE Resume(n)
  <2>1. Mesh!Resume(n)
    BY <1>1, <1>2
    DEF Resume, Mesh!Resume, GoesOn, Mesh!GoesOn, electionVars, Mesh!electionVars
  <2>2. NetInv'
    BY <1>1, <1>2 DEF Resume, GoesOn, PowerOn, NetInv, Framed
  <2> QED
    BY <2>1, <2>2 DEF MeshStep, Mesh!MeshNext, Mesh!PowerAndTimers
<1>3. ASSUME NEW c \in Capacity, Boot(n, c)
      PROVE  NetInv' /\ Mesh!Boot(n, c)
  <2>1. Mesh!Boot(n, c)
    BY <1>1, <1>3 DEF Boot, NodeNew, ElectionNew, StartsOver, Mesh!Boot,
       Mesh!ElectionNew, Mesh!StartsOver, None, Mesh!None
  <2>2. NetInv'
    BY <1>1, <1>3 DEF Boot, StartsOver, PowerOn, NetInv, Framed
  <2> QED
    BY <2>1, <2>2
<1> QED
  BY <1>2, <1>3 DEF MeshStep, Mesh!MeshNext, Mesh!PowerAndTimers

LEMMA FaultRefines ==
  ASSUME NetInv, Fault
  PROVE  NetInv' /\ MeshStep
<1>0. UNCHANGED electionVars /\ UNCHANGED Mesh!electionVars
  BY DEF Fault, electionVars, Mesh!electionVars
<1>1. ASSUME NEW kind, Spend(kind)
      PROVE  Mesh!Spend(kind)
  BY <1>1 DEF Spend, Mesh!Spend
<1>2. ASSUME Mesh!Fault
      PROVE  MeshStep
  BY <1>2 DEF MeshStep, Mesh!MeshNext, Mesh!PowerAndTimers
<1>3. ASSUME NEW p \in net, Lose(p)
      PROVE  NetInv' /\ MeshStep
  <2>1. net' = net \ {p} /\ UNCHANGED <<up, asleep, side>> /\ Mesh!Spend("lose")
    BY <1>1, <1>3 DEF Lose
  <2>2. NetInv'
    BY <2>1, FS_Difference DEF NetInv, Framed
  <2>3. CASE p.body.type = "tick"
    <3>1. p \in TicksOf(net) /\ TicksOf(net') = TicksOf(net) \ {p}
      BY <2>1, <2>3 DEF TicksOf
    <3>2. Mesh!Lose(p)
      BY <2>1, <3>1 DEF Mesh!Lose
    <3> QED
      BY <1>0, <1>2, <2>2, <3>1, <3>2 DEF Mesh!Fault
  <2>4. CASE p.body.type # "tick"
    BY <1>0, <2>1, <2>2, <2>4, UnseenIsStutter DEF Unseen, TicksOf
  <2> QED
    BY <2>3, <2>4
<1>4. ASSUME NEW p \in net, Duplicate(p)
      PROVE  NetInv' /\ MeshStep
  <2> DEFINE q == [p EXCEPT !.copy = 2]
  <2>1. /\ net' = net \cup {q} /\ UNCHANGED <<up, asleep, side>> /\ Mesh!Spend("duplicate")
        /\ p.copy = 1 /\ Cardinality(net) < MaxInFlight
    BY <1>1, <1>4 DEF Duplicate
  <2>2. q.body = p.body /\ Framed(q)
    BY DEF NetInv, Framed
  <2>3. Cardinality(TicksOf(net)) < MaxInFlight
    <3>1. /\ Cardinality(TicksOf(net)) <= Cardinality(net)
          /\ Cardinality(TicksOf(net)) \in Nat /\ Cardinality(net) \in Nat
      BY FS_Subset, FS_CardinalityType DEF NetInv, TicksOf
    <3> QED
      BY <2>1, <3>1, FabricAssumption
  <2>4. NetInv'
    <3> HIDE DEF q
    <3>1. IsFiniteSet(net')
      BY <2>1, FS_AddElement DEF NetInv
    <3> QED
      BY <2>1, <2>2, <3>1 DEF NetInv, Framed
  <2>5. CASE p.body.type = "tick"
    <3>1. p \in TicksOf(net) /\ TicksOf(net') = TicksOf(net) \cup {q}
      <4> HIDE DEF q
      <4> QED
        BY <2>1, <2>2, <2>5 DEF TicksOf
    <3>2. Mesh!Duplicate(p)
      BY <2>1, <2>3, <3>1, SameCardinality DEF Mesh!Duplicate
    <3> QED
      BY <1>0, <1>2, <2>4, <3>1, <3>2 DEF Mesh!Fault
  <2>6. CASE p.body.type # "tick"
    <3>1. TicksOf(net') = TicksOf(net)
      <4> HIDE DEF q
      <4> QED
        BY <2>1, <2>2, <2>6 DEF TicksOf
    <3> QED
      BY <1>0, <2>1, <2>4, <3>1, UnseenIsStutter DEF Unseen
  <2> QED
    BY <2>5, <2>6
<1>5. ASSUME NEW left \in SUBSET Node, Split(left)
      PROVE  NetInv' /\ MeshStep
  <2>1. NetInv'
    BY <1>5 DEF Split, NetInv, Framed
  <2>2. Mesh!Split(left)
    BY <1>1, <1>5 DEF Split, Mesh!Split
  <2> QED
    BY <1>0, <1>2, <2>1, <2>2 DEF Mesh!Fault
<1>6. ASSUME NEW n \in Node, PowerOff(n)
      PROVE  NetInv' /\ MeshStep
  <2>1. NetInv'
    BY <1>6, FS_Subset DEF PowerOff, NetInv, Framed
  <2>2. Mesh!PowerOff(n)
    BY <1>1, <1>6 DEF PowerOff, Mesh!PowerOff, TicksOf
  <2> QED
    BY <1>0, <1>2, <2>1, <2>2 DEF Mesh!Fault
<1>7. CASE HealAll
  <2>1. NetInv'
    BY <1>7 DEF HealAll, NetInv, Framed
  <2>2. Mesh!HealAll
    BY <1>7 DEF HealAll, Mesh!HealAll
  <2> QED
    BY <1>0, <1>2, <2>1, <2>2 DEF Mesh!Fault
<1> QED
  BY <1>3, <1>4, <1>5, <1>6, <1>7 DEF Fault

-----------------------------------------------------------------------------
LEMMA NetInitially == NodeInit => NetInv
BY FS_EmptySet DEF NodeInit, FabricInit, NetInv

LEMMA NodeStep ==
  ASSUME NetInv, [NodeNext]_nodeVars
  PROVE  NetInv' /\ MeshStep
<1>1. CASE UNCHANGED nodeVars
  BY <1>1, UnseenIsStutter DEF nodeVars, fabricVars, NetInv, Framed, Unseen
<1> QED
  BY <1>1, OnTimerRefines, OnDatagramRefines, ElapseRefines, PowerRefines,
     FaultRefines
  DEF NodeNext

(* Whatever the devices do to synchronise their clocks, and whatever       *)
(* becomes of their probes, the election they run is that of ElectionMesh. *)
THEOREM NodesElect == NodeSafety => ImplementsElection
<1>1. NodeInit => Mesh!MeshInit
  BY DEF NodeInit, FabricInit, ElectionInit, Mesh!MeshInit, Mesh!FabricInit,
         Mesh!ElectionInit, None, Mesh!None, TicksOf
<1>2. NetInv /\ [NodeNext]_nodeVars => NetInv' /\ MeshStep
  BY NodeStep
<1> QED
  BY <1>1, <1>2, NetInitially, PTL
  DEF NodeSafety, ImplementsElection, Mesh!MeshSafety, MeshStep

-----------------------------------------------------------------------------
(* What was proved of the election is true of nodes.                       *)

(* The constants of the mesh of elections are as its proofs assume.        *)
LEMMA AssumptionsHold ==
  /\ Node \subseteq Nat /\ Election!IsFiniteSet(Node)
  /\ Capacity \subseteq Nat
  /\ FollowerTimeout \in Nat \ {0}
  /\ CandidateSettle \in 1 .. FollowerTimeout
  /\ TickInterval \in Nat \ {0}
  /\ YieldHysteresis \in Nat \ {0}
  /\ EpochMax \in Nat \ {0}
  /\ Faults \subseteq Election!FaultKind
  /\ 1 \in Nat
  /\ TRUE \in BOOLEAN
  /\ Crowd \in Nat
  /\ Loopback \in BOOLEAN
  /\ MaxInFlight \in Nat
  /\ Prompt \in BOOLEAN
BY NodeAssumption, ElectionAssumption, FabricAssumption, NodeMeshAssumption
DEF Election!FaultKind, FaultKind, Election!IsFiniteSet, IsFiniteSet

(* ElectionProofs is about the mesh that NodeMesh is compared with.        *)
LEMMA OneMesh == MeshStep => [Election!MeshNext]_Election!meshVars
BY Zenon
DEF MeshStep, Mesh!Beats, Election!Beats, Mesh!Me, Election!Me, Mesh!None,
    Election!None, Mesh!Older, Election!Older, Mesh!StandDue,
    Election!StandDue, Mesh!SettleDue, Election!SettleDue, Mesh!TickDue,
    Election!TickDue, Mesh!ElectionDue, Election!ElectionDue, Mesh!Stand,
    Election!Stand, Mesh!Beaten, Election!Beaten, Mesh!Assume,
    Election!Assume, Mesh!StepBack, Election!StepBack, Mesh!Settle,
    Election!Settle, Mesh!SendTick, Election!SendTick, Mesh!ElectionOnTimer,
    Election!ElectionOnTimer, Mesh!Announces, Election!Announces,
    Mesh!ElectionAges, Election!ElectionAges, Mesh!FollowerHears,
    Election!FollowerHears, Mesh!CandidateHears, Election!CandidateHears,
    Mesh!CandidateConcedes, Election!CandidateConcedes, Mesh!LeaderHearsWorse,
    Election!LeaderHearsWorse, Mesh!LeaderHearsBetter,
    Election!LeaderHearsBetter, Mesh!LeaderYields, Election!LeaderYields,
    Mesh!ElectionOnTick, Election!ElectionOnTick, Mesh!ElectionOwnTick,
    Election!ElectionOwnTick, Mesh!ElectionNew, Election!ElectionNew,
    Mesh!electionVars, Election!electionVars, Mesh!Together,
    Election!Together, Mesh!Reached, Election!Reached, Mesh!Datagrams,
    Election!Datagrams, Mesh!Exchange, Election!Exchange, Mesh!Spend,
    Election!Spend, Mesh!Lose, Election!Lose, Mesh!Duplicate,
    Election!Duplicate, Mesh!Split, Election!Split, Mesh!HealAll,
    Election!HealAll, Mesh!PowerOff, Election!PowerOff, Mesh!PowerOn, Mesh!StartsOver,
    Election!StartsOver, Mesh!GoesOn, Election!GoesOn, Mesh!Wake, Election!Wake,
    Election!PowerOn, Mesh!fabricVars, Election!fabricVars, Mesh!meshVars,
    Election!meshVars, Mesh!Ticks, Election!Ticks, Mesh!OnTimer,
    Election!OnTimer, Mesh!OnDatagram, Election!OnDatagram, Mesh!Elapse,
    Election!Elapse, Mesh!Boot, Election!Boot, Mesh!Resume, Election!Resume,
    Mesh!Fault, Election!Fault, Mesh!PowerAndTimers, Election!PowerAndTimers,
    Mesh!MeshNext, Election!MeshNext, Mesh!Cardinality, Election!Cardinality,
    Mesh!IsFiniteSet, Election!IsFiniteSet

(* However they synchronise, whole devices that are prompt, on a network   *)
(* that delivers, never have two leaders.                                  *)
THEOREM NodesHaveOneLeader ==
  Election!Timely /\ NodeSafety => [](\A m, n \in Leaders : m = n)
<1> SUFFICES ASSUME Election!Timely
             PROVE  NodeSafety => [](\A m, n \in Leaders : m = n)
  OBVIOUS
<1> DEFINE Inv == NetInv /\ Election!MeshTypeOK /\ Election!TimelyInv
           Step == [Election!MeshNext]_Election!meshVars
<1>1. NodeInit => Inv
  <2> SUFFICES ASSUME NodeInit PROVE Inv
    OBVIOUS
  <2>1. Election!MeshInit
    BY DEF NodeInit, FabricInit, ElectionInit, Election!MeshInit, Election!FabricInit,
           Election!ElectionInit, None, Election!None, TicksOf
  <2>2. Election!MeshTypeOK
    BY <2>1, AssumptionsHold, Election!TypeInitially
  <2>3. Election!TimelyInv
    BY <2>1, <2>2, AssumptionsHold, Election!TimelyInitially
  <2>4. NetInv
    BY NetInitially
  <2> QED
    BY <2>2, <2>3, <2>4
<1>2. Inv /\ [NodeNext]_nodeVars => Inv'
  <2> SUFFICES ASSUME Inv, [NodeNext]_nodeVars PROVE Inv'
    OBVIOUS
  <2>1. NetInv' /\ Step
    BY NodeStep, OneMesh
  <2>2. Election!MeshTypeOK'
    BY <2>1, AssumptionsHold, Election!TypeStep
  <2>3. Election!TimelyInv'
    BY <2>1, <2>2, AssumptionsHold, Election!TimelyStep
  <2> QED
    BY <2>1, <2>2, <2>3
<1>3. Inv => \A m, n \in Leaders : m = n
  BY AssumptionsHold, Election!TimelyLeadersAreOne DEF Leaders, Election!Leaders
<1>. QED
  BY <1>1, <1>2, <1>3, PTL DEF NodeSafety
=============================================================================
