--------------------------- MODULE ElectionProofs ---------------------------
(***************************************************************************)
(* Proofs about ElectionMesh, for every set of devices and of scores, all  *)
(* timeouts, any faults and both settings of Prompt.                       *)
(***************************************************************************)
EXTENDS ElectionMesh, FiniteSetTheorems, TLAPS

-----------------------------------------------------------------------------
(* The order of candidacies.                                               *)

LEMMA CandidacyIsNat ==
  ASSUME NEW a \in Candidacy
  PROVE  a.capacity \in Nat /\ a.uuid \in Nat
BY ElectionAssumption, NodeAssumption DEF Candidacy

(* Of two candidacies at most one wins: devices that compare the same two  *)
(* never both stay (election.rs:52).                                       *)
LEMMA BeatsAsymmetric ==
  ASSUME NEW a \in Candidacy, NEW b \in Candidacy, Beats(a, b)
  PROVE  ~ Beats(b, a)
BY CandidacyIsNat DEF Beats

(* Of two candidacies of different devices one wins: the election has no   *)
(* ties.                                                                   *)
LEMMA BeatsTotal ==
  ASSUME NEW a \in Candidacy, NEW b \in Candidacy, a.uuid # b.uuid
  PROVE  Beats(a, b) \/ Beats(b, a)
BY CandidacyIsNat DEF Beats

(* Winning is transitive: with the two lemmas above, a finite set of       *)
(* candidacies has exactly one that wins against all others.               *)
LEMMA BeatsTransitive ==
  ASSUME NEW a \in Candidacy, NEW b \in Candidacy, NEW c \in Candidacy,
         Beats(a, b), Beats(b, c)
  PROVE  Beats(a, c)
BY CandidacyIsNat DEF Beats

(* No candidacy is the value that stands for the absence of one.           *)
LEMMA NoneIsNoCandidacy == None \notin Candidacy
BY ElectionAssumption DEF None, Candidacy

-----------------------------------------------------------------------------
(* Type correctness.                                                       *)

LEMMA MeType ==
  ASSUME ElectionTypeOK, NEW n \in Node
  PROVE  Me(n) \in Candidacy
BY DEF ElectionTypeOK, Me, Candidacy

LEMMA OnTickType ==
  ASSUME ElectionTypeOK, NEW n \in Node, NEW who \in Candidacy, NEW ep \in Epoch,
         ElectionOnTick(n, who, ep)
  PROVE  ElectionTypeOK'
<1> USE ElectionAssumption DEF ElectionTypeOK
<1>1. /\ epoch' \in [Node -> Epoch]
      /\ UNCHANGED <<cap, sent>>
  BY DEF ElectionOnTick
<1>2. CASE FollowerHears(n)
  BY <1>1, <1>2 DEF FollowerHears
<1>3. CASE CandidateHears(n, who)
  BY <1>1, <1>3 DEF CandidateHears
<1>4. CASE CandidateConcedes(n, who)
  BY <1>1, <1>4 DEF CandidateConcedes, Role
<1>5. CASE LeaderHearsWorse(n, who)
  BY <1>1, <1>5 DEF LeaderHearsWorse
<1>6. CASE LeaderHearsBetter(n, who)
  BY <1>1, <1>6 DEF LeaderHearsBetter
<1>7. CASE LeaderYields(n, who)
  BY <1>1, <1>7 DEF LeaderYields, Role
<1>. QED
  BY <1>2, <1>3, <1>4, <1>5, <1>6, <1>7 DEF ElectionOnTick

LEMMA OnTimerType ==
  ASSUME ElectionTypeOK, NEW n \in Node, ElectionOnTimer(n)
  PROVE  ElectionTypeOK'
<1> USE ElectionAssumption DEF ElectionTypeOK
<1>1. CASE Stand(n)
  BY <1>1 DEF Stand, Role
<1>2. CASE Settle(n)
  <2>1. CASE Beaten(n)
    BY <1>2, <2>1 DEF Settle, StepBack, Role
  <2>2. CASE ~ Beaten(n)
    BY <1>2, <2>2 DEF Settle, Assume, Role, Epoch
  <2>. QED
    BY <2>1, <2>2
<1>3. CASE SendTick(n)
  BY <1>3 DEF SendTick
<1>. QED
  BY <1>1, <1>2, <1>3 DEF ElectionOnTimer

LEMMA AgesType ==
  ASSUME ElectionTypeOK, ElectionAges
  PROVE  ElectionTypeOK'
BY ElectionAssumption DEF ElectionTypeOK, ElectionAges, Older

(* What a device multicasts is a set of well-formed ticks that name it.    *)
LEMMA TicksType ==
  ASSUME ElectionTypeOK, epoch' \in [Node -> Epoch], up \subseteq Node, NEW n \in Node
  PROVE  \A p \in Ticks(n) : p \in TickDatagram /\ p.body.who.uuid = p.from
BY MeType DEF Ticks, Datagrams, Reached, TickDatagram, Tick, Me

LEMMA TickOfDatagram ==
  ASSUME MeshTypeOK, NEW p \in net
  PROVE  /\ p.to \in Node
         /\ p.body.who \in Candidacy
         /\ p.body.epoch \in Epoch
BY DEF MeshTypeOK, TickDatagram, Tick

LEMMA TypeInitially == MeshInit => MeshTypeOK
BY ElectionAssumption, FabricAssumption
DEF MeshInit, ElectionInit, FabricInit, MeshTypeOK, ElectionTypeOK, Role, Epoch

LEMMA TypeStep == MeshTypeOK /\ [MeshNext]_meshVars => MeshTypeOK'
<1> SUFFICES ASSUME MeshTypeOK, [MeshNext]_meshVars
             PROVE  MeshTypeOK'
  OBVIOUS
<1>1. ASSUME NEW n \in Node, OnTimer(n)
      PROVE  MeshTypeOK'
  <2>1. ElectionTypeOK'
    BY <1>1, OnTimerType DEF OnTimer, MeshTypeOK
  <2>2. \A p \in Ticks(n) : p \in TickDatagram /\ p.body.who.uuid = p.from
    BY <2>1, TicksType DEF MeshTypeOK, ElectionTypeOK
  <2>. QED
    BY <1>1, <2>1, <2>2 DEF OnTimer, Exchange, MeshTypeOK
<1>2. ASSUME NEW n \in Node, Resume(n)
      PROVE  MeshTypeOK'
  BY <1>2 DEF Resume, GoesOn, PowerOn, MeshTypeOK, ElectionTypeOK, electionVars
<1>3. ASSUME NEW n \in Node, NEW c \in Capacity, Boot(n, c)
      PROVE  MeshTypeOK'
  <2>1. ElectionTypeOK'
    BY <1>3, ElectionAssumption
    DEF Boot, ElectionNew, MeshTypeOK, ElectionTypeOK, Role, Epoch
  <2>. QED
    BY <1>3, <2>1 DEF Boot, StartsOver, PowerOn, MeshTypeOK
<1>4. ASSUME NEW p \in net, OnDatagram(p)
      PROVE  MeshTypeOK'
  <2>1. ElectionTypeOK'
    <3>1. CASE ElectionOnTick(p.to, p.body.who, p.body.epoch)
      BY <3>1, TickOfDatagram, OnTickType DEF MeshTypeOK
    <3>2. CASE ElectionOwnTick(p.to, p.body.who)
      BY <3>2 DEF ElectionOwnTick, electionVars, MeshTypeOK, ElectionTypeOK
    <3>. QED
      BY <1>4, <3>1, <3>2 DEF OnDatagram
  <2>. QED
    BY <1>4, <2>1 DEF OnDatagram, Exchange, MeshTypeOK
<1>5. CASE Elapse
  BY <1>5, AgesType DEF Elapse, fabricVars, MeshTypeOK
<1>6. CASE Fault
  <2>1. ElectionTypeOK'
    BY <1>6 DEF Fault, electionVars, MeshTypeOK, ElectionTypeOK
  <2>2. ASSUME NEW p \in net, Lose(p)
        PROVE  MeshTypeOK'
    BY <2>1, <2>2, FabricAssumption DEF Lose, Spend, MeshTypeOK
  <2>3. ASSUME NEW p \in net, Duplicate(p)
        PROVE  MeshTypeOK'
    <3> DEFINE q == [p EXCEPT !.copy = 2]
    <3>1. q \in TickDatagram /\ q.body.who.uuid = q.from
      BY DEF MeshTypeOK, TickDatagram
    <3>2. net' = net \cup {q} /\ UNCHANGED <<up, asleep, side>> /\ budget' \in 0 .. Budget
      BY <2>3, FabricAssumption DEF Duplicate, Spend, MeshTypeOK
    <3> HIDE DEF q
    <3>. QED
      BY <2>1, <3>1, <3>2 DEF MeshTypeOK
  <2>4. ASSUME NEW left \in SUBSET Node, Split(left)
        PROVE  MeshTypeOK'
    BY <2>1, <2>4, FabricAssumption DEF Split, Spend, MeshTypeOK
  <2>5. ASSUME NEW n \in Node, PowerOff(n)
        PROVE  MeshTypeOK'
    BY <2>1, <2>5, FabricAssumption DEF PowerOff, Spend, MeshTypeOK
  <2>6. CASE HealAll
    BY <2>1, <2>6 DEF HealAll, MeshTypeOK
  <2>. QED
    BY <1>6, <2>2, <2>3, <2>4, <2>5, <2>6 DEF Fault
<1>7. CASE UNCHANGED meshVars
  BY <1>7 DEF meshVars, electionVars, fabricVars, MeshTypeOK, ElectionTypeOK
<1>8. ASSUME NEW n \in Node, Wake(n)
      PROVE  MeshTypeOK'
  BY <1>8 DEF Wake, MeshTypeOK, ElectionTypeOK, electionVars
<1>. QED
  BY <1>1, <1>2, <1>3, <1>4, <1>5, <1>6, <1>7, <1>8 DEF MeshNext, PowerAndTimers

(* Variables hold values of their types in every reachable state.          *)
THEOREM TypeCorrect == MeshSafety => []MeshTypeOK
BY TypeInitially, TypeStep, PTL DEF MeshSafety

-----------------------------------------------------------------------------
(* A candidate was not beaten.                                             *)

Unbeaten(n) == role[n] = "candidate" => ~ Beaten(n)

(* A device the election of which does not move stays unbeaten.            *)
LEMMA UnbeatenFrame ==
  ASSUME NEW m \in Node, Unbeaten(m),
         role'[m] = role[m], best'[m] = best[m], cap'[m] = cap[m]
  PROVE  Unbeaten(m)'
BY DEF Unbeaten, Beaten, Me

(* A device that is no candidate, or remembers nobody, is unbeaten.        *)
LEMMA UnbeatenFresh ==
  ASSUME NEW m \in Node, role'[m] # "candidate" \/ best'[m] = None
  PROVE  Unbeaten(m)'
BY DEF Unbeaten, Beaten

LEMMA OnTickUnbeaten ==
  ASSUME ElectionTypeOK, NEW n \in Node, NEW who \in Candidacy, NEW ep \in Epoch,
         ElectionOnTick(n, who, ep), NEW m \in Node, Unbeaten(m)
  PROVE  Unbeaten(m)'
<1> USE DEF ElectionTypeOK
<1>1. cap' = cap
  BY DEF ElectionOnTick
<1>2. CASE FollowerHears(n) \/ LeaderHearsWorse(n, who) \/ LeaderHearsBetter(n, who)
  BY <1>1, <1>2, UnbeatenFrame
  DEF FollowerHears, LeaderHearsWorse, LeaderHearsBetter
<1>3. CASE CandidateHears(n, who)
  <2>1. CASE m = n
    <3>1. \/ best'[n] = who
          \/ best'[n] = best[n] /\ role[n] = "candidate"
      BY <1>3 DEF CandidateHears
    <3>2. ~ Beats(who, Me(n)) /\ role' = role
      BY <1>3 DEF CandidateHears
    <3>. QED
      BY <1>1, <2>1, <3>1, <3>2 DEF Unbeaten, Beaten, Me
  <2>2. CASE m # n
    BY <1>1, <1>3, <2>2, UnbeatenFrame DEF CandidateHears
  <2>. QED
    BY <2>1, <2>2
<1>4. CASE CandidateConcedes(n, who)
  <2>1. CASE m = n
    BY <1>4, <2>1, UnbeatenFresh DEF CandidateConcedes
  <2>2. CASE m # n
    BY <1>1, <1>4, <2>2, UnbeatenFrame DEF CandidateConcedes
  <2>. QED
    BY <2>1, <2>2
<1>5. CASE LeaderYields(n, who)
  <2>1. CASE m = n
    BY <1>5, <2>1, UnbeatenFresh DEF LeaderYields
  <2>2. CASE m # n
    BY <1>1, <1>5, <2>2, UnbeatenFrame DEF LeaderYields
  <2>. QED
    BY <2>1, <2>2
<1>. QED
  BY <1>2, <1>3, <1>4, <1>5 DEF ElectionOnTick

LEMMA OnTimerUnbeaten ==
  ASSUME ElectionTypeOK, NEW n \in Node, ElectionOnTimer(n),
         NEW m \in Node, Unbeaten(m)
  PROVE  Unbeaten(m)'
<1> USE DEF ElectionTypeOK
<1>1. CASE Stand(n)
  <2>1. CASE m = n
    BY <1>1, <2>1, UnbeatenFresh DEF Stand
  <2>2. CASE m # n
    BY <1>1, <2>2, UnbeatenFrame DEF Stand
  <2>. QED
    BY <2>1, <2>2
<1>2. CASE Settle(n)
  <2>1. CASE m = n
    BY <1>2, <2>1, UnbeatenFresh DEF Settle, StepBack, Assume
  <2>2. CASE m # n
    BY <1>2, <2>2, UnbeatenFrame DEF Settle, StepBack, Assume
  <2>. QED
    BY <2>1, <2>2
<1>3. CASE SendTick(n)
  BY <1>3, UnbeatenFrame DEF SendTick
<1>. QED
  BY <1>1, <1>2, <1>3 DEF ElectionOnTimer

(* What a candidate remembers never beats it, so a candidate that settles  *)
(* takes the role: the branch of on_timer in which it was beaten           *)
(* (election.rs:184) is dead code.                                         *)
THEOREM CandidateIsUnbeaten == MeshSafety => []CandidateUnbeaten
<1> DEFINE Inv == \A m \in Node : Unbeaten(m)
<1>1. MeshInit => Inv
  BY DEF MeshInit, ElectionInit, Unbeaten
<1>2. MeshTypeOK /\ Inv /\ [MeshNext]_meshVars => Inv'
  <2> SUFFICES ASSUME MeshTypeOK, Inv, [MeshNext]_meshVars, NEW m \in Node
               PROVE  Unbeaten(m)'
    OBVIOUS
  <2>0. ElectionTypeOK /\ Unbeaten(m)
    BY DEF MeshTypeOK
  <2>1. ASSUME NEW n \in Node, OnTimer(n)
        PROVE  Unbeaten(m)'
    BY <2>0, <2>1, OnTimerUnbeaten DEF OnTimer
  <2>2. ASSUME NEW n \in Node, NEW c \in Capacity, Boot(n, c)
        PROVE  Unbeaten(m)'
    <3>1. CASE m = n
      BY <2>0, <2>2, <3>1, UnbeatenFresh DEF Boot, ElectionNew, ElectionTypeOK
    <3>2. CASE m # n
      BY <2>0, <2>2, <3>2, UnbeatenFrame DEF Boot, ElectionNew, ElectionTypeOK
    <3>. QED
      BY <3>1, <3>2
  <2>3. ASSUME NEW p \in net, OnDatagram(p)
        PROVE  Unbeaten(m)'
    <3>1. CASE ElectionOnTick(p.to, p.body.who, p.body.epoch)
      BY <2>0, <3>1, TickOfDatagram, OnTickUnbeaten
    <3>2. CASE ElectionOwnTick(p.to, p.body.who)
      BY <2>0, <3>2, UnbeatenFrame DEF ElectionOwnTick, electionVars
    <3>. QED
      BY <2>3, <3>1, <3>2 DEF OnDatagram
  <2>4. CASE Elapse
    BY <2>0, <2>4, UnbeatenFrame DEF Elapse, ElectionAges
  <2>5. CASE UNCHANGED electionVars
    BY <2>0, <2>5, UnbeatenFrame DEF electionVars
  <2>. QED
    BY <2>1, <2>2, <2>3, <2>4, <2>5
    DEF MeshNext, PowerAndTimers, Resume, Wake, Fault, meshVars
<1>3. Inv => CandidateUnbeaten
  BY DEF Unbeaten, CandidateUnbeaten
<1>. QED
  BY <1>1, <1>2, <1>3, TypeCorrect, PTL DEF MeshSafety

-----------------------------------------------------------------------------
(* The strongest device keeps the role.                                    *)

(* Nothing a device that beats every other candidacy hears from another    *)
(* device takes the role from it.                                          *)
LEMMA StrongestUnmoved ==
  ASSUME ElectionTypeOK, NEW n \in Node, NEW who \in Candidacy, NEW ep \in Epoch,
         ElectionOnTick(n, who, ep), Strongest(n), role[n] = "leader"
  PROVE  role'[n] = "leader"
<1>1. who.uuid \in Node \ {n} /\ who.capacity \in Capacity
  BY DEF ElectionOnTick, Candidacy
<1>2. who = [capacity |-> who.capacity, uuid |-> who.uuid]
  BY DEF Candidacy
<1>3. Beats(Me(n), who)
  BY <1>1, <1>2 DEF Strongest
<1>4. ~ Beats(who, Me(n))
  BY <1>3, MeType, BeatsAsymmetric
<1>5. LeaderHearsWorse(n, who)
  BY <1>4 DEF ElectionOnTick, FollowerHears, CandidateHears, CandidateConcedes,
              LeaderHearsBetter, LeaderYields
<1>. QED
  BY <1>5 DEF LeaderHearsWorse

(* A device that beats every candidacy another device can claim leads, once *)
(* it leads, until it is rebooted.                                          *)
THEOREM StrongestLeads == MeshSafety => StrongestKeepsRole
<1> DEFINE Keeps(n) ==
      role[n] = "leader" /\ role'[n] # "leader" =>
        ~Strongest(n) \/ \E c \in Capacity : Boot(n, c)
<1>1. MeshTypeOK /\ [MeshNext]_meshVars => \A n \in Node : Keeps(n)
  <2> SUFFICES ASSUME MeshTypeOK, [MeshNext]_meshVars, NEW n \in Node,
                      Strongest(n), role[n] = "leader"
               PROVE  role'[n] = "leader" \/ \E c \in Capacity : Boot(n, c)
    OBVIOUS
  <2>0. ElectionTypeOK
    BY DEF MeshTypeOK
  <2>1. ASSUME NEW m \in Node, OnTimer(m)
        PROVE  role'[n] = "leader"
    BY <2>0, <2>1 DEF OnTimer, ElectionOnTimer, Stand, StandDue, Settle, SettleDue,
                      StepBack, Assume, SendTick, ElectionTypeOK
  <2>2. ASSUME NEW m \in Node, NEW c \in Capacity, Boot(m, c)
        PROVE  role'[n] = "leader" \/ Boot(n, c)
    BY <2>0, <2>2 DEF Boot, ElectionNew, ElectionTypeOK
  <2>3. ASSUME NEW p \in net, OnDatagram(p)
        PROVE  role'[n] = "leader"
    <3>1. CASE ElectionOwnTick(p.to, p.body.who)
      BY <3>1 DEF ElectionOwnTick, electionVars
    <3>2. CASE ElectionOnTick(p.to, p.body.who, p.body.epoch) /\ p.to = n
      BY <2>0, <3>2, TickOfDatagram, StrongestUnmoved
    <3>3. CASE ElectionOnTick(p.to, p.body.who, p.body.epoch) /\ p.to # n
      BY <2>0, <3>3 DEF ElectionOnTick, FollowerHears, CandidateHears,
         CandidateConcedes, LeaderHearsWorse, LeaderHearsBetter, LeaderYields,
         ElectionTypeOK
    <3>. QED
      BY <2>3, <3>1, <3>2, <3>3 DEF OnDatagram
  <2>4. CASE Elapse
    BY <2>4 DEF Elapse, ElectionAges
  <2>5. CASE UNCHANGED electionVars
    BY <2>5 DEF electionVars
  <2>. QED
    BY <2>1, <2>2, <2>3, <2>4, <2>5
    DEF MeshNext, PowerAndTimers, Resume, Wake, Fault, meshVars
<1>. QED
  BY <1>1, TypeCorrect, PTL DEF MeshSafety, StrongestKeepsRole

-----------------------------------------------------------------------------
(* At most one leader.                                                     *)
(*                                                                         *)
(* Timers and datagrams are prompt, and the network delivers; devices are  *)
(* switched on and off at will, and datagrams copied.  A follower waits    *)
(* longer than a leader is silent and longer than a candidate stands       *)
(* (election.rs:25: three seconds against one and two).                    *)

Timely ==
  /\ Prompt
  /\ Faults \subseteq {"off", "duplicate"}
  /\ TickInterval < FollowerTimeout
  /\ CandidateSettle < FollowerTimeout

OnAir(m, n) == \E p \in net : p.from = m /\ p.to = n

(* A tick in flight is from this unit of time: it names its sender as it   *)
(* is, unless that one was booted since, and a candidate that sent one     *)
(* has just stood.                                                         *)
Current(p) ==
  p.from \in up =>
    /\ \/ p.body.who = Me(p.from)
       \/ role[p.from] = "follower" /\ since[p.from] = 0
    /\ role[p.from] = "candidate" => since[p.from] = 0

Standing(m) == role[m] = "candidate" => since[m] <= CandidateSettle

(* Followers have heard a candidate, or are about to.                      *)
Told(m, n) ==
  role[m] = "candidate" /\ role[n] = "follower" =>
    since[n] <= since[m] \/ OnAir(m, n)

(* Two candidates stood in the same unit of time, and the tick that makes  *)
(* one of them concede is on its way.                                      *)
Rivals(m, n) ==
  role[m] = "candidate" /\ role[n] = "candidate" =>
    /\ since[m] = 0
    /\ Beats(Me(m), Me(n)) => OnAir(m, n)

(* Everybody else follows a leader, and has heard it since its last tick   *)
(* or is about to.                                                         *)
Obeyed(m, n) ==
  role[m] = "leader" =>
    /\ role[n] = "follower"
    /\ \/ since[n] <= sent[m]
       \/ OnAir(m, n) /\ since[n] < FollowerTimeout

Bound(m, n) == Told(m, n) /\ Rivals(m, n) /\ Obeyed(m, n)

TimelyInv ==
  /\ MeshTypeOK
  /\ side = {} /\ asleep = {}
  /\ \A p \in net : Current(p)
  /\ \A m \in up : Standing(m)
  /\ \A m, n \in up : m # n => Bound(m, n)

LEMMA AgesAreNat ==
  ASSUME MeshTypeOK, NEW n \in Node
  PROVE  since[n] \in Nat /\ sent[n] \in Nat /\ sent[n] <= TickInterval
BY ElectionAssumption DEF MeshTypeOK, ElectionTypeOK

(* A follower of a leader does not stand, nor does anybody else.           *)
LEMMA NobodyStandsNow ==
  ASSUME Timely, TimelyInv, NEW k \in up, StandDue(k), NEW m \in up
  PROVE  role[m] # "leader"
<1>0. up \subseteq Node
  BY DEF TimelyInv, MeshTypeOK
<1>1. SUFFICES ASSUME role[m] = "leader" PROVE FALSE
  OBVIOUS
<1>2. m # k
  BY <1>1 DEF StandDue
<1>3. Obeyed(m, k)
  BY <1>2 DEF TimelyInv, Bound
<1>4. since[k] < FollowerTimeout
  BY <1>0, <1>1, <1>3, AgesAreNat, ElectionAssumption DEF Obeyed, Timely, TimelyInv
<1>. QED
  BY <1>0, <1>4, AgesAreNat, ElectionAssumption DEF StandDue, TimelyInv

(* Whoever stands while another stands has that one's tick to hear, and    *)
(* that one stood in the same unit of time.                                *)
LEMMA CandidatesMeet ==
  ASSUME Timely, TimelyInv, NEW k \in up, StandDue(k), NEW m \in up,
         role[m] = "candidate"
  PROVE  OnAir(m, k) /\ since[m] = 0
<1>0. up \subseteq Node
  BY DEF TimelyInv, MeshTypeOK
<1>1. m # k /\ role[k] = "follower"
  BY DEF StandDue
<1>2. Told(m, k) /\ Standing(m)
  BY <1>1 DEF TimelyInv, Bound
<1>3. ~ (since[k] <= since[m])
  BY <1>0, <1>2, AgesAreNat, ElectionAssumption
  DEF StandDue, Standing, Timely, TimelyInv
<1>4. OnAir(m, k)
  BY <1>1, <1>2, <1>3 DEF Told
<1>. QED
  BY <1>4 DEF OnAir, TimelyInv, Current

(* Whoever takes the role is alone with followers that it just reached.    *)
LEMMA SettlersAreAlone ==
  ASSUME Timely, TimelyInv, NEW k \in up, SettleDue(k), NEW n \in up, n # k
  PROVE  role[n] = "follower" /\ since[n] < FollowerTimeout
<1>0. up \subseteq Node /\ ElectionTypeOK
  BY DEF TimelyInv, MeshTypeOK
<1>1. since[k] # 0
  BY <1>0, AgesAreNat, ElectionAssumption DEF SettleDue, TimelyInv
<1>2. Bound(k, n) /\ Bound(n, k) /\ Standing(k)
  BY DEF TimelyInv
<1>3. role[n] = "follower"
  BY <1>0, <1>1, <1>2 DEF SettleDue, Bound, Rivals, Obeyed, ElectionTypeOK, Role
<1>4. ~ OnAir(k, n)
  BY <1>1 DEF OnAir, TimelyInv, Current, SettleDue
<1>5. since[n] <= since[k] /\ since[k] <= CandidateSettle
  BY <1>2, <1>3, <1>4 DEF Bound, Told, Standing, SettleDue
<1>. QED
  BY <1>0, <1>3, <1>5, AgesAreNat, ElectionAssumption DEF Timely, TimelyInv

(* With the mesh whole, a multicast gets to everybody that is powered.     *)
LEMMA MulticastArrives ==
  ASSUME MeshTypeOK, side = {}, NEW k \in up, Exchange({}, Ticks(k))
  PROVE  /\ net \subseteq net'
         /\ \A n \in up : n # k => OnAir(k, n)'
         /\ \A p \in net' : p \in net \/ (p.from = k /\ p.body.who = Me(k))
<1>1. net' = net \cup Ticks(k)
  BY DEF Exchange
<1>2. \A p \in Ticks(k) : p.from = k /\ p.body.who = Me(k)
  BY DEF Ticks, Datagrams
<1>3. ASSUME NEW n \in up, n # k
      PROVE  \E p \in Ticks(k) : p.from = k /\ p.to = n
  <2> DEFINE b == [type |-> "tick", who |-> Me(k), epoch |-> epoch'[k]]
             q == [from |-> k, to |-> n, body |-> b, copy |-> 1]
  <2>1. n \in Reached(k, Node)
    BY <1>3 DEF Reached, Together, MeshTypeOK
  <2>2. q \in Ticks(k)
    BY <2>1 DEF Ticks, Datagrams
  <2>. QED
    BY <2>2
<1>. QED
  BY <1>1, <1>2, <1>3 DEF OnAir

(* A device that follows from now on, whatever it was, with nothing but    *)
(* ticks to itself taken from the air, disturbs nobody.                    *)
LEMMA FallingBack ==
  ASSUME Timely, TimelyInv, MeshTypeOK', NEW k \in Node,
         role' = [role EXCEPT ![k] = "follower"],
         since' = [since EXCEPT ![k] = 0],
         cap' = cap, sent' = sent, up' = up, side' = side, asleep' = {},
         net' \subseteq net, \A p \in net : p \in net' \/ p.to = k
  PROVE  TimelyInv'
<1>0. /\ ElectionTypeOK /\ up \subseteq Node
  BY DEF TimelyInv, MeshTypeOK
<1>1. \A p \in net' : Current(p)'
  BY <1>0 DEF Current, TimelyInv, Me, ElectionTypeOK
<1>2. \A m \in up : Standing(m)'
  BY <1>0 DEF Standing, TimelyInv, ElectionTypeOK
<1>3. ASSUME NEW m \in up, NEW n \in up, m # n
      PROVE  Bound(m, n)'
  <2>0. Bound(m, n) /\ m \in Node /\ n \in Node
    BY <1>0, <1>3 DEF TimelyInv
  <2>1. CASE m # k /\ n # k
    <3>1. OnAir(m, n) => OnAir(m, n)'
      BY <2>1 DEF OnAir
    <3>. QED
      BY <1>0, <2>0, <2>1, <3>1
      DEF Bound, Told, Rivals, Obeyed, Me, ElectionTypeOK
  <2>2. CASE m = k
    BY <1>0, <2>0, <2>2 DEF Bound, Told, Rivals, Obeyed, ElectionTypeOK
  <2>3. CASE n = k
    <3>1. since'[n] = 0 /\ role'[n] = "follower" /\ since'[m] \in Nat /\ sent'[m] \in Nat
      BY <1>0, <2>0, <2>3, AgesAreNat, <1>3 DEF ElectionTypeOK, TimelyInv
    <3>. QED
      BY <3>1 DEF Bound, Told, Rivals, Obeyed
  <2>. QED
    BY <2>1, <2>2, <2>3
<1>. QED
  BY <1>0, <1>1, <1>2, <1>3 DEF TimelyInv

LEMMA TimelyOnTimer ==
  ASSUME Timely, TimelyInv, MeshTypeOK', NEW k \in Node, OnTimer(k)
  PROVE  TimelyInv'
<1>0. /\ ElectionTypeOK /\ up \subseteq Node /\ k \in up
      /\ side = {} /\ UNCHANGED <<up, side>> /\ asleep' = {} /\ cap' = cap
  BY DEF TimelyInv, MeshTypeOK, OnTimer, Exchange, ElectionOnTimer, Stand, Settle,
         StepBack, Assume, SendTick
<1>1. CASE Stand(k)
  <2>1. /\ role' = [role EXCEPT ![k] = "candidate"]
        /\ since' = [since EXCEPT ![k] = 0]
        /\ UNCHANGED <<cap, sent>>
        /\ StandDue(k)
    BY <1>1 DEF Stand
  <2>2. Exchange({}, Ticks(k))
    BY <2>1 DEF OnTimer, Announces
  <2>3. /\ net \subseteq net'
        /\ \A n \in up : n # k => OnAir(k, n)'
        /\ \A p \in net' : p \in net \/ (p.from = k /\ p.body.who = Me(k))
    BY <1>0, <2>2, MulticastArrives DEF TimelyInv
  <2>4. \A m, n \in up : OnAir(m, n) => OnAir(m, n)'
    BY <2>3 DEF OnAir
  <2>5. \A p \in net' : Current(p)'
    <3> SUFFICES ASSUME NEW p \in net' PROVE Current(p)'
      OBVIOUS
    <3>1. CASE p.from = k
      <4>1. p.body.who = Me(k)
        <5>1. since[k] # 0 /\ role[k] = "follower"
          BY <2>1, ElectionAssumption DEF StandDue
        <5>. QED
          BY <1>0, <2>3, <3>1, <5>1 DEF TimelyInv, Current
      <4>. QED
        BY <1>0, <2>1, <3>1, <4>1 DEF Current, Me, ElectionTypeOK
    <3>2. CASE p.from # k
      BY <1>0, <2>1, <2>3, <3>2 DEF TimelyInv, Current, Me, ElectionTypeOK
    <3>. QED
      BY <3>1, <3>2
  <2>6. \A m \in up : Standing(m)'
    BY <1>0, <2>1, ElectionAssumption DEF Standing, TimelyInv, ElectionTypeOK
  <2>7. ASSUME NEW m \in up, NEW n \in up, m # n
        PROVE  Bound(m, n)'
    <3>0. Bound(m, n) /\ m \in Node /\ n \in Node
      BY <1>0, <2>7 DEF TimelyInv
    <3>1. CASE m # k /\ n # k
      BY <1>0, <2>1, <2>4, <3>0, <3>1
      DEF Bound, Told, Rivals, Obeyed, Me, ElectionTypeOK
    <3>2. CASE m = k
      BY <1>0, <2>1, <2>3, <2>7, <3>0, <3>2
      DEF Bound, Told, Rivals, Obeyed, ElectionTypeOK
    <3>3. CASE n = k
      <4>1. role[m] # "leader"
        BY <2>1, <3>3, NobodyStandsNow
      <4>2. role[m] = "candidate" => OnAir(m, n)' /\ since[m] = 0
        BY <2>1, <2>4, <3>3, CandidatesMeet
      <4>. QED
        BY <1>0, <2>1, <2>7, <3>0, <3>3, <4>1, <4>2
        DEF Bound, Told, Rivals, Obeyed, ElectionTypeOK
    <3>. QED
      BY <3>1, <3>2, <3>3
  <2>. QED
    BY <1>0, <2>5, <2>6, <2>7 DEF TimelyInv
<1>2. CASE Settle(k) /\ ~ Beaten(k)
  <2>1. /\ role' = [role EXCEPT ![k] = "leader"]
        /\ since' = [since EXCEPT ![k] = 0]
        /\ sent' = [sent EXCEPT ![k] = 0]
        /\ SettleDue(k)
    BY <1>2 DEF Settle, Assume
  <2>2. Exchange({}, Ticks(k))
    BY <1>2, <2>1 DEF OnTimer, Announces
  <2>3. /\ net \subseteq net'
        /\ \A n \in up : n # k => OnAir(k, n)'
        /\ \A p \in net' : p \in net \/ (p.from = k /\ p.body.who = Me(k))
    BY <1>0, <2>2, MulticastArrives DEF TimelyInv
  <2>4. \A m, n \in up : OnAir(m, n) => OnAir(m, n)'
    BY <2>3 DEF OnAir
  <2>5. \A p \in net' : Current(p)'
    BY <1>0, <2>1, <2>3 DEF Current, TimelyInv, Me, ElectionTypeOK, SettleDue
  <2>6. \A m \in up : Standing(m)'
    BY <1>0, <2>1 DEF Standing, TimelyInv, ElectionTypeOK
  <2>7. ASSUME NEW m \in up, NEW n \in up, m # n
        PROVE  Bound(m, n)'
    <3>0. Bound(m, n) /\ m \in Node /\ n \in Node
      BY <1>0, <2>7 DEF TimelyInv
    <3>1. \A j \in up : j # k => role'[j] = "follower" /\ since'[j] < FollowerTimeout
      BY <1>0, <2>1, SettlersAreAlone DEF ElectionTypeOK
    <3>2. role'[k] = "leader"
      BY <1>0, <2>1 DEF ElectionTypeOK
    <3>. QED
      BY <2>3, <2>7, <3>1, <3>2 DEF Bound, Told, Rivals, Obeyed
  <2>. QED
    BY <1>0, <2>5, <2>6, <2>7 DEF TimelyInv
<1>3. CASE Settle(k) /\ Beaten(k)
  <2>1. /\ role' = [role EXCEPT ![k] = "follower"]
        /\ since' = [since EXCEPT ![k] = 0]
        /\ sent' = sent
        /\ SettleDue(k)
    BY <1>3 DEF Settle, StepBack
  <2>2. net' = net
    BY <1>3, <2>1 DEF OnTimer, Announces, Exchange, StandDue, TickDue, SettleDue
  <2>. QED
    BY <1>0, <2>1, <2>2, FallingBack
<1>4. CASE SendTick(k)
  <2>1. /\ UNCHANGED <<role, since>>
        /\ sent' = [sent EXCEPT ![k] = 0]
        /\ TickDue(k)
    BY <1>4 DEF SendTick
  <2>2. Exchange({}, Ticks(k))
    BY <2>1 DEF OnTimer, Announces
  <2>3. /\ net \subseteq net'
        /\ \A n \in up : n # k => OnAir(k, n)'
        /\ \A p \in net' : p \in net \/ (p.from = k /\ p.body.who = Me(k))
    BY <1>0, <2>2, MulticastArrives DEF TimelyInv
  <2>4. \A m, n \in up : OnAir(m, n) => OnAir(m, n)'
    BY <2>3 DEF OnAir
  <2>5. \A p \in net' : Current(p)'
    BY <1>0, <2>1, <2>3 DEF Current, TimelyInv, Me, TickDue
  <2>6. \A m \in up : Standing(m)'
    BY <1>0, <2>1 DEF Standing, TimelyInv
  <2>7. ASSUME NEW m \in up, NEW n \in up, m # n
        PROVE  Bound(m, n)'
    <3>0. Bound(m, n) /\ m \in Node /\ n \in Node
      BY <1>0, <2>7 DEF TimelyInv
    <3>1. CASE m # k
      BY <1>0, <2>1, <2>4, <3>0, <3>1
      DEF Bound, Told, Rivals, Obeyed, Me, ElectionTypeOK
    <3>2. CASE m = k
      <4>1. role[m] = "leader" /\ Obeyed(m, n)
        BY <2>1, <3>0, <3>2 DEF TickDue, Bound
      <4>2. since[n] < FollowerTimeout
        BY <3>0, <4>1, AgesAreNat, ElectionAssumption DEF Obeyed, Timely, TimelyInv
      <4>. QED
        BY <2>1, <2>3, <2>7, <3>2, <4>1, <4>2 DEF Bound, Told, Rivals, Obeyed
    <3>. QED
      BY <3>1, <3>2
  <2>. QED
    BY <1>0, <2>5, <2>6, <2>7 DEF TimelyInv
<1>. QED
  BY <1>1, <1>2, <1>3, <1>4 DEF OnTimer, ElectionOnTimer

(* A device that stays what it is takes a tick from the air: only a tick   *)
(* that was to make it concede or follow mattered.                         *)
LEMMA HearingInPlace ==
  ASSUME TimelyInv, MeshTypeOK', NEW p \in net,
         UNCHANGED <<cap, role, since, sent, up, side>>, asleep' = {}, net' = net \ {p},
         \/ p.from = p.to
         \/ role[p.to] # "follower" /\ ~ Beats(p.body.who, Me(p.to))
         \/ role[p.to] = "leader"
  PROVE  TimelyInv'
<1>1. \A q \in net' : Current(q)'
  BY DEF Current, TimelyInv, Me
<1>2. \A m \in up : Standing(m)'
  BY DEF Standing, TimelyInv
<1>3. ASSUME NEW m \in up, NEW n \in up, m # n
      PROVE  Bound(m, n)'
  <2>0. Bound(m, n)
    BY <1>3 DEF TimelyInv
  <2>1. CASE p.from = m /\ p.to = n
    <3>1. role[m] = "candidate" => p.body.who = Me(m)
      BY <2>1 DEF TimelyInv, Current
    <3>2. role[n] # "follower"
      BY <1>3, <2>1
    <3>. QED
      BY <1>3, <2>0, <2>1, <3>1, <3>2 DEF Bound, Told, Rivals, Obeyed, Me
  <2>2. CASE ~ (p.from = m /\ p.to = n)
    <3>1. OnAir(m, n) => OnAir(m, n)'
      BY <2>2 DEF OnAir
    <3>. QED
      BY <2>0, <3>1 DEF Bound, Told, Rivals, Obeyed, Me
  <2>. QED
    BY <2>1, <2>2
<1>. QED
  BY <1>1, <1>2, <1>3 DEF TimelyInv

LEMMA TimelyOnDatagram ==
  ASSUME Timely, TimelyInv, MeshTypeOK', NEW p \in net, OnDatagram(p)
  PROVE  TimelyInv'
<1> DEFINE k == p.to
           who == p.body.who
<1>0. /\ ElectionTypeOK /\ k \in Node /\ who.uuid = p.from
      /\ UNCHANGED <<up, side>> /\ asleep' = {} /\ net' = net \ {p}
  BY TickOfDatagram DEF TimelyInv, MeshTypeOK, OnDatagram, Exchange
<1>1. CASE ElectionOwnTick(k, who)
  BY <1>0, <1>1, HearingInPlace DEF ElectionOwnTick, electionVars
<1>2. CASE ElectionOnTick(k, who, p.body.epoch)
  <2>1. cap' = cap /\ sent' = sent
    BY <1>2 DEF ElectionOnTick
  <2>2. CASE \/ FollowerHears(k) \/ CandidateConcedes(k, who) \/ LeaderYields(k, who)
    <3>1. /\ role' = [role EXCEPT ![k] = "follower"]
          /\ since' = [since EXCEPT ![k] = 0]
      BY <1>0, <2>2 DEF FollowerHears, CandidateConcedes, LeaderYields, ElectionTypeOK
    <3>. QED
      BY <1>0, <2>1, <3>1, FallingBack
  <2>3. CASE \/ CandidateHears(k, who) \/ LeaderHearsWorse(k, who)
             \/ LeaderHearsBetter(k, who)
    <3>1. /\ UNCHANGED <<role, since>>
          /\ role[k] = "leader" \/ (role[k] # "follower" /\ ~ Beats(who, Me(k)))
      BY <2>3 DEF CandidateHears, LeaderHearsWorse, LeaderHearsBetter
    <3>. QED
      BY <1>0, <2>1, <3>1, HearingInPlace
  <2>. QED
    BY <1>2, <2>2, <2>3 DEF ElectionOnTick
<1>. QED
  BY <1>1, <1>2 DEF OnDatagram

LEMMA TimelyBoot ==
  ASSUME Timely, TimelyInv, MeshTypeOK', NEW k \in Node, NEW c \in Capacity, Boot(k, c)
  PROVE  TimelyInv'
<1>0. /\ ElectionTypeOK /\ up \subseteq Node /\ k \notin up /\ up' = up \cup {k}
      /\ cap' = [cap EXCEPT ![k] = c]
      /\ role' = [role EXCEPT ![k] = "follower"]
      /\ since' = [since EXCEPT ![k] = 0]
      /\ sent' = [sent EXCEPT ![k] = TickInterval]
      /\ UNCHANGED <<side, net>> /\ asleep' = {}
  BY DEF TimelyInv, MeshTypeOK, Boot, StartsOver, PowerOn, ElectionNew
<1>1. \A q \in net' : Current(q)'
  BY <1>0 DEF Current, TimelyInv, Me, ElectionTypeOK
<1>2. \A m \in up' : Standing(m)'
  BY <1>0 DEF Standing, TimelyInv, ElectionTypeOK
<1>3. ASSUME NEW m \in up', NEW n \in up', m # n
      PROVE  Bound(m, n)'
  <2>0. m \in Node /\ n \in Node
    BY <1>0
  <2>1. CASE m # k /\ n # k
    <3>1. Bound(m, n)
      BY <1>0, <1>3, <2>1 DEF TimelyInv
    <3>2. OnAir(m, n) => OnAir(m, n)'
      BY <1>0 DEF OnAir
    <3>. QED
      BY <1>0, <2>0, <2>1, <3>1, <3>2
      DEF Bound, Told, Rivals, Obeyed, Me, ElectionTypeOK
  <2>2. CASE m = k
    BY <1>0, <2>0, <2>2 DEF Bound, Told, Rivals, Obeyed, ElectionTypeOK
  <2>3. CASE n = k
    <3>1. since'[n] = 0 /\ role'[n] = "follower" /\ since'[m] \in Nat /\ sent'[m] \in Nat
      BY <1>0, <1>3, <2>0, <2>3, AgesAreNat DEF ElectionTypeOK, TimelyInv
    <3>. QED
      BY <3>1 DEF Bound, Told, Rivals, Obeyed
  <2>. QED
    BY <2>1, <2>2, <2>3
<1>. QED
  BY <1>0, <1>1, <1>2, <1>3 DEF TimelyInv

(* Time passes only over a silent network with nothing due: all ages that  *)
(* the invariant compares grow alike.                                      *)
LEMMA TimelyElapse ==
  ASSUME Timely, TimelyInv, MeshTypeOK', Elapse
  PROVE  TimelyInv'
<1>0. /\ ElectionTypeOK /\ up \subseteq Node /\ net = {}
      /\ UNCHANGED <<cap, role, up, asleep, side, net>>
      /\ \A m \in up : ~ SettleDue(m) /\ ~ TickDue(m)
  BY DEF TimelyInv, MeshTypeOK, Timely, Elapse, ElectionAges, fabricVars, ElectionDue
<1>1. ASSUME NEW m \in up
      PROVE  /\ since'[m] = Older(since[m], FollowerTimeout)
             /\ sent'[m] = Older(sent[m], TickInterval)
             /\ since[m] \in Nat /\ sent[m] \in Nat
             /\ m \in Node
  BY <1>0, AgesAreNat DEF Elapse, ElectionAges, TimelyInv
<1>2. \A m \in up : Standing(m)'
  BY <1>0, <1>1, ElectionAssumption DEF Standing, SettleDue, TimelyInv, Older
<1>3. ASSUME NEW m \in up, NEW n \in up, m # n
      PROVE  Bound(m, n)'
  <2>0. Bound(m, n) /\ Bound(n, m) /\ ~ OnAir(m, n) /\ ~ OnAir(n, m)
    BY <1>0, <1>3 DEF TimelyInv, OnAir
  <2>1. Told(m, n)'
    BY <1>0, <1>1, <2>0, ElectionAssumption DEF Bound, Told, Older
  <2>2. Rivals(m, n)'
    <3>1. Beats(Me(m), Me(n)) \/ Beats(Me(n), Me(m))
      BY <1>0, <1>1, <1>3, MeType, BeatsTotal DEF Me
    <3>. QED
      BY <1>0, <2>0, <3>1 DEF Bound, Rivals
  <2>3. Obeyed(m, n)'
    <3>1. SUFFICES ASSUME role[m] = "leader"
                   PROVE  role[n] = "follower" /\ since'[n] <= sent'[m]
      BY <1>0 DEF Obeyed
    <3>2. role[n] = "follower" /\ since[n] <= sent[m]
      BY <2>0, <3>1 DEF Bound, Obeyed
    <3>3. ~ (sent[m] >= TickInterval)
      BY <1>0, <3>1 DEF TickDue
    <3>. QED
      BY <1>1, <3>2, <3>3, ElectionAssumption DEF Older
  <2>. QED
    BY <2>1, <2>2, <2>3 DEF Bound
<1>. QED
  BY <1>0, <1>2, <1>3 DEF TimelyInv

LEMMA TimelyFault ==
  ASSUME Timely, TimelyInv, MeshTypeOK', Fault
  PROVE  TimelyInv'
<1>0. ElectionTypeOK /\ up \subseteq Node /\ UNCHANGED <<cap, role, since, sent>>
  BY DEF TimelyInv, MeshTypeOK, Fault, electionVars
<1>1. ASSUME NEW k \in Node, PowerOff(k)
      PROVE  TimelyInv'
  <2>0. /\ up' = up \ {k} /\ net' = {p \in net : p.to # k}
        /\ UNCHANGED side /\ asleep' = {}
    BY <1>1 DEF PowerOff, TimelyInv
  <2>1. \A q \in net' : Current(q)'
    BY <1>0, <2>0 DEF Current, TimelyInv, Me
  <2>2. \A m \in up' : Standing(m)'
    BY <1>0, <2>0 DEF Standing, TimelyInv
  <2>3. ASSUME NEW m \in up', NEW n \in up', m # n
        PROVE  Bound(m, n)'
    <3>1. Bound(m, n)
      BY <2>0, <2>3 DEF TimelyInv
    <3>2. OnAir(m, n) => OnAir(m, n)'
      BY <2>0, <2>3 DEF OnAir
    <3>. QED
      BY <1>0, <3>1, <3>2 DEF Bound, Told, Rivals, Obeyed, Me
  <2>. QED
    BY <2>0, <2>1, <2>2, <2>3 DEF TimelyInv
<1>2. ASSUME NEW p \in net, Duplicate(p)
      PROVE  TimelyInv'
  <2> DEFINE q == [p EXCEPT !.copy = 2]
  <2>0. net' = net \cup {q} /\ UNCHANGED <<up, asleep, side>>
    BY <1>2 DEF Duplicate
  <2>1. q.from = p.from /\ q.to = p.to /\ q.body = p.body
    BY DEF TimelyInv, MeshTypeOK, TickDatagram
  <2> HIDE DEF q
  <2>2. \A r \in net' : Current(r)'
    BY <1>0, <2>0, <2>1 DEF Current, TimelyInv, Me
  <2>3. \A m \in up' : Standing(m)'
    BY <1>0, <2>0 DEF Standing, TimelyInv
  <2>4. ASSUME NEW m \in up', NEW n \in up', m # n
        PROVE  Bound(m, n)'
    <3>1. Bound(m, n)
      BY <2>0, <2>4 DEF TimelyInv
    <3>2. OnAir(m, n) => OnAir(m, n)'
      BY <2>0 DEF OnAir
    <3>. QED
      BY <1>0, <3>1, <3>2 DEF Bound, Told, Rivals, Obeyed, Me
  <2>. QED
    BY <2>0, <2>2, <2>3, <2>4 DEF TimelyInv
<1>. QED
  BY <1>1, <1>2 DEF Fault, Timely, TimelyInv, Lose, Split, HealAll, Spend

LEMMA TimelyInitially == MeshInit /\ MeshTypeOK => TimelyInv
BY DEF MeshInit, FabricInit, TimelyInv

LEMMA TimelyStep ==
  ASSUME Timely, TimelyInv, MeshTypeOK', [MeshNext]_meshVars
  PROVE  TimelyInv'
<1>1. ASSUME NEW n \in Node, Resume(n)
      PROVE  FALSE
  BY <1>1 DEF Resume, GoesOn, Timely
<1>2. ASSUME NEW n \in Node, Wake(n)
      PROVE  FALSE
  BY <1>2 DEF Wake, TimelyInv
<1>3. CASE UNCHANGED meshVars
  BY <1>3 DEF meshVars, electionVars, fabricVars, TimelyInv, Current, Standing,
              Bound, Told, Rivals, Obeyed, OnAir, Me
<1>. QED
  BY <1>1, <1>2, <1>3, TimelyOnTimer, TimelyOnDatagram, TimelyBoot, TimelyElapse,
     TimelyFault
  DEF MeshNext, PowerAndTimers

LEMMA TimelyHolds == Timely /\ MeshSafety => []TimelyInv
<1> SUFFICES ASSUME Timely PROVE MeshSafety => []TimelyInv
  OBVIOUS
<1>1. TimelyInv /\ MeshTypeOK' /\ [MeshNext]_meshVars => TimelyInv'
  BY TimelyStep
<1>. QED
  BY <1>1, TypeInitially, TypeCorrect, TimelyInitially, PTL DEF MeshSafety

LEMMA TimelyLeadersAreOne ==
  ASSUME TimelyInv, NEW m \in Leaders, NEW n \in Leaders
  PROVE  m = n
BY DEF Leaders, TimelyInv, Bound, Obeyed

(* In a mesh with prompt timers and a network that delivers, however       *)
(* devices come and go, two devices never lead at once.                    *)
THEOREM OneLeader == Timely /\ MeshSafety => []AtMostOneLeader
<1>1. TimelyInv => AtMostOneLeader
  <2> SUFFICES ASSUME TimelyInv
               PROVE  Cardinality(Leaders) <= 1
    BY DEF AtMostOneLeader
  <2>1. ASSUME NEW m \in Leaders, NEW n \in Leaders
        PROVE  m = n
    BY TimelyLeadersAreOne
  <2>2. CASE Leaders = {}
    BY <2>2, FS_EmptySet
  <2>3. CASE Leaders # {}
    <3>1. PICK m \in Leaders : TRUE
      BY <2>3
    <3>2. Leaders = {m}
      BY <2>1, <2>3, <3>1
    <3>3. Cardinality({m}) = 1
      BY FS_Singleton
    <3>. QED
      BY <3>2, <3>3
  <2>. QED
    BY <2>2, <2>3
<1>. QED
  BY <1>1, TimelyHolds, PTL

(* In such a mesh nobody stands while a powered device leads.              *)
THEOREM NobodyStands == Timely /\ MeshSafety => NobodyStandsAgainstLeader
<1> SUFFICES ASSUME Timely PROVE MeshSafety => NobodyStandsAgainstLeader
  OBVIOUS
<1> DEFINE Undisturbed ==
      \A n \in up : role[n] # "candidate" /\ role'[n] = "candidate" => Leaders = {}
<1>1. TimelyInv /\ [MeshNext]_meshVars => Undisturbed
  <2> SUFFICES ASSUME TimelyInv, [MeshNext]_meshVars, NEW n \in up,
                      role[n] # "candidate", role'[n] = "candidate"
               PROVE  Leaders = {}
    OBVIOUS
  <2>0. ElectionTypeOK /\ up \subseteq Node
    BY DEF TimelyInv, MeshTypeOK
  <2>1. ASSUME NEW k \in Node, OnTimer(k)
        PROVE  k = n /\ StandDue(n)
    BY <2>0, <2>1 DEF OnTimer, ElectionOnTimer, Stand, Settle, StepBack, Assume,
                      SendTick, ElectionTypeOK
  <2>2. ASSUME NEW k \in Node, NEW c \in Capacity, Boot(k, c)
        PROVE  FALSE
    BY <2>0, <2>2 DEF Boot, ElectionNew, ElectionTypeOK
  <2>3. ASSUME NEW p \in net, OnDatagram(p)
        PROVE  FALSE
    BY <2>0, <2>3 DEF OnDatagram, ElectionOwnTick, electionVars, ElectionOnTick,
       FollowerHears, CandidateHears, CandidateConcedes, LeaderHearsWorse,
       LeaderHearsBetter, LeaderYields, ElectionTypeOK
  <2>4. role' # role
    OBVIOUS
  <2>5. StandDue(n)
    BY <2>1, <2>2, <2>3, <2>4
    DEF MeshNext, PowerAndTimers, Resume, Wake, Fault, Elapse, ElectionAges, meshVars,
        electionVars
  <2>. QED
    BY <2>5, NobodyStandsNow DEF Leaders
<1>. QED
  BY <1>1, TimelyHolds, PTL DEF NobodyStandsAgainstLeader, MeshSafety
=============================================================================
