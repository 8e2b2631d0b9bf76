----------------------------- MODULE SimNetwork -----------------------------
(***************************************************************************)
(* The simulated network as it is (net.rs): datagrams with the moment they *)
(* are due, a queue per device for what has arrived, links cut in pairs,   *)
(* multicast groups, and the fault model that decides on each datagram.    *)
(* Fabric is the abstraction of it that the mesh modules use.              *)
(***************************************************************************)
EXTENDS Integers, FiniteSets, Sequences, FiniteSetsExt, Sorted

CONSTANTS
  Node,         \* the devices, by their ids
  Group,        \* multicast groups
  FaultModels   \* the fault models a script may choose from

(* The per mille rates are kept as whether the thing may happen at all.    *)
FaultModel ==
  [lossy : BOOLEAN, twice : BOOLEAN, latency : Nat, jitter : Nat, behind : Nat]
Perfect ==
  [lossy |-> FALSE, twice |-> FALSE, latency |-> 0, jitter |-> 0, behind |-> 0]

ASSUME NetworkAssumption ==
  /\ Node \subseteq Nat /\ IsFiniteSet(Node)
  /\ FaultModels \subseteq FaultModel

VARIABLES
  powered,   \* devices that are switched on
  inFlight,  \* datagrams on the air
  inbox,     \* per device, what arrived and was not read yet
  nextSeq,   \* datagrams sent so far, copies included
  cut,       \* pairs that cannot talk
  joined,    \* per group, the devices that joined
  faults,    \* the fault model in force
  life       \* how often each device was killed (for the properties only)

netVars == <<powered, inFlight, inbox, nextSeq, cut, joined, faults, life>>

NetInit ==
  /\ powered = Node
  /\ inFlight = {}
  /\ inbox = [n \in Node |-> <<>>]
  /\ nextSeq = 0
  /\ cut = {}
  /\ joined = [g \in Group |-> {}]
  /\ faults \in FaultModels \cup {Perfect}
  /\ life = [n \in Node |-> 0]

-----------------------------------------------------------------------------
OnTime == faults.latency .. (faults.latency + faults.jitter)

(* What becomes of a datagram: the delay of each of its copies. *)
Copies ==
  LET delays == OnTime \cup {d + faults.behind : d \in OnTime}
  IN  (IF faults.lossy THEN {<<>>} ELSE {})
        \cup {<<d>> : d \in delays}
        \cup (IF faults.twice THEN delays \X OnTime ELSE {})

Reachable(a, targets) == {b \in targets \cap powered : {a, b} \notin cut}

(* The copy s is sent before r: the target with the lower id goes first. *)
SentBefore(s, r) == s[1] < r[1] \/ (s[1] = r[1] /\ s[2] < r[2])

(* The network after a sent to the targets; copies are numbered as they go. *)
Transmit(a, targets, now) ==
  \E copies \in [Reachable(a, targets) -> Copies] :
    LET sent == {s \in Reachable(a, targets) \X {1, 2} : s[2] \in DOMAIN copies[s[1]]}
        place(s) == 1 + Cardinality({r \in sent : SentBefore(r, s)})
    IN  /\ inFlight' = inFlight \cup
             {[from |-> a, to |-> s[1], at |-> now + copies[s[1]][s[2]],
               seq |-> nextSeq + place(s), life |-> life[s[1]]] : s \in sent}
        /\ nextSeq' = nextSeq + Cardinality(sent)

(* A device that is off gets an error instead. *)
SendTo(a, targets, now) ==
  /\ IF a \in powered THEN Transmit(a, targets, now)
     ELSE UNCHANGED <<inFlight, nextSeq>>
  /\ UNCHANGED <<powered, inbox, cut, joined, faults, life>>

Join(n, g) ==
  /\ joined' = IF n \in powered THEN [joined EXCEPT ![g] = @ \cup {n}] ELSE joined
  /\ UNCHANGED <<powered, inFlight, inbox, nextSeq, cut, faults, life>>

(* Variant: what is on the air towards a dead device stays there. *)
PowerDownKeeps(n) ==
  /\ powered' = powered \ {n}
  /\ inbox' = [inbox EXCEPT ![n] = <<>>]
  /\ life' = [life EXCEPT ![n] = @ + 1]
  /\ UNCHANGED <<inFlight, nextSeq, cut, joined, faults>>

PowerDown(n) ==
  /\ powered' = powered \ {n}
  /\ inbox' = [inbox EXCEPT ![n] = <<>>]
  /\ inFlight' = {p \in inFlight : p.to # n}
  /\ life' = [life EXCEPT ![n] = @ + 1]
  /\ UNCHANGED <<nextSeq, cut, joined, faults>>

PowerUp(n) ==
  /\ powered' = powered \cup {n}
  /\ UNCHANGED <<inFlight, inbox, nextSeq, cut, joined, faults, life>>

Links(pairs) ==
  /\ cut' = pairs
  /\ UNCHANGED <<powered, inFlight, inbox, nextSeq, joined, faults, life>>

Partition(a, b) == Links(cut \cup {{a, b}})
Heal(a, b) == Links(cut \ {{a, b}})
HealAll == Links({})
Split(left, right) == Links(cut \cup {{a, b} : a \in left, b \in right})

SetFaults(f) ==
  /\ faults' = f
  /\ UNCHANGED <<powered, inFlight, inbox, nextSeq, cut, joined, life>>

Earlier(p, q) == p.at < q.at \/ (p.at = q.at /\ p.seq < q.seq)

(* The datagrams of S as they are read. *)
Arrivals(S) == InOrder(S, Earlier)

(* What is due by now goes into the inboxes, in the order it is due. *)
Deliver(now) ==
  LET due == {p \in inFlight : p.at <= now}
  IN  /\ inFlight' = inFlight \ due
      /\ inbox' = [n \in Node |->
           inbox[n] \o Arrivals({p \in due : p.to = n /\ n \in powered})]
      /\ UNCHANGED <<powered, nextSeq, cut, joined, faults, life>>

Recv(n) ==
  /\ n \in powered /\ inbox[n] # <<>>
  /\ inbox' = [inbox EXCEPT ![n] = Tail(@)]
  /\ UNCHANGED <<powered, inFlight, nextSeq, cut, joined, faults, life>>
=============================================================================
