------------------------------- MODULE Records -------------------------------
(***************************************************************************)
(* The replicated records (lumen-device, records.rs): the hybrid logical   *)
(* clock, who may sign what, the store and the gossip that reconciles two  *)
(* stores.  Controllers, which people edit with, and devices, which        *)
(* describe themselves, keep a store each and gossip with one another.     *)
(*                                                                         *)
(* What a record says is left out.  A node has one identity key at a time  *)
(* and gets a new one when it is wiped, so the key in a record also tells  *)
(* apart two edits that one author made with equal clocks.                 *)
(***************************************************************************)
EXTENDS Integers, FiniteSets, Sequences, Functions

CONSTANTS
  Controller,   (* uuids of the nodes that may write any scene             *)
  Device,       (* uuids of the nodes that may write their own record      *)
  Scene,        (* ids of what controllers write                           *)
  PerMs,        (* edits a clock tells apart in one millisecond            *)
  HlcMax,       (* the largest clock: the u64 saturates there              *)
  WallMax,      (* bound on the wall time, in milliseconds                 *)
  Budget,       (* bound on wipes, revocations and lost connections        *)
  MaxQueue      (* bound on the messages under way when a round begins     *)

ASSUME RecordsAssumption ==
  /\ Controller \subseteq Nat /\ Device \subseteq Nat /\ Scene \subseteq Nat
  /\ Controller \cap Device = {} /\ Scene \cap Device = {}
  /\ IsFiniteSet(Controller \cup Device)
  /\ PerMs \in Nat \ {0}
  /\ HlcMax \in Nat /\ WallMax \in Nat /\ WallMax * PerMs <= HlcMax
  /\ Budget \in Nat /\ MaxQueue \in Nat

VARIABLES
  store,    (* the records a node holds, at most one per id                *)
  clock,    (* the largest clock it has seen                               *)
  trust,    (* the key it takes each author to have, or NoKey              *)
  key,      (* the key a node signs with                                   *)
  link,     (* the messages on the way from one node to another, in order  *)
  budget    (* wipes, revocations and lost connections left                *)

recordVars == <<store, clock, trust, key, link, budget>>

Node == Controller \cup Device
Id == Scene \cup Device
Hlc == 0 .. HlcMax
Wall == 0 .. WallMax
Key == 0 .. Budget
NoKey == -1
Record == [id : Id, hlc : Hlc, author : Node, key : Key]
DigestEntry == [id : Id, hlc : Hlc]
Message ==
  [type : {"digest"}, entries : SUBSET DigestEntry]
    \cup [type : {"pull"}, ids : SUBSET Id]
    \cup [type : {"push"}, records : SUBSET Record]

-----------------------------------------------------------------------------
(***************************************************************************)
(* Hlc: wall time in the high bits, a counter in the low ones.             *)
(***************************************************************************)
WallMs(h) == h \div PerMs
Later(a, b) == IF a > b THEN a ELSE b

(* The next stamp, later than h even if the wall clock went back. *)
HlcTick(h, wall) ==
  IF wall > WallMs(h) THEN wall * PerMs
  ELSE IF h < HlcMax THEN h + 1 ELSE HlcMax

(* Variant: what peers stamped is not taken in. *)
ObserveNothing(h, other, wall) == h

(* A stamp later than both h and the clock of a record just taken. *)
Observe(h, other, wall) ==
  HlcTick(Later(h, other), Later(wall, WallMs(Later(h, other))))

(***************************************************************************)
(* Record::supersedes and Store::accept.                                   *)
(***************************************************************************)
(* Variant: the author counts before the clock. *)
AuthorFirst(r, other) ==
  \/ r.author > other.author
  \/ r.author = other.author /\ r.hlc > other.hlc

(* Last writer wins; the author breaks a tie. *)
Supersedes(r, other) ==
  \/ r.hlc > other.hlc
  \/ r.hlc = other.hlc /\ r.author > other.author

Held(n, id) == {h \in store[n] : h.id = id}

(* Node n takes r for genuine: a device describes only itself, anything    *)
(* else is a controller's, and the signature is by the key it knows.       *)
Authorised(n, r) ==
  /\ IF r.id \in Device THEN r.author = r.id ELSE r.author \in Controller
  /\ trust[n][r.author] = r.key

(* Variant: the last to arrive wins. *)
TakesAny(n, r) == Authorised(n, r)

Takes(n, r) ==
  /\ \A h \in Held(n, r.id) : Supersedes(r, h)
  /\ Authorised(n, r)

(* Store::accept by a node whose clock stands at h.  A refused record      *)
(* leaves no trace: it does not move the clock either.                     *)
Accept(n, r, h, wall) ==
  IF Takes(n, r)
  THEN /\ store' = [store EXCEPT ![n] = (@ \ Held(n, r.id)) \cup {r}]
       /\ clock' = [clock EXCEPT ![n] = Observe(h, r.hlc, wall)]
  ELSE /\ clock' = [clock EXCEPT ![n] = h]
       /\ UNCHANGED store

-----------------------------------------------------------------------------
RecordsInit ==
  /\ store = [n \in Node |-> {}]
  /\ clock = [n \in Node |-> 0]
  /\ trust = [n \in Node |-> [a \in Node |-> 0]]
  /\ key = [n \in Node |-> 0]
  /\ link = [l \in Node \X Node |-> <<>>]
  /\ budget = Budget

(* A node stamps an edit and puts it in its own store. *)
Edit(n, id, wall) ==
  [id |-> id, hlc |-> HlcTick(clock[n], wall), author |-> n, key |-> key[n]]

Write(n, id, wall) ==
  /\ IF n \in Device THEN id = n ELSE id \in Scene
  /\ UNCHANGED <<trust, key, link, budget>>
  /\ Accept(n, Edit(n, id, wall), HlcTick(clock[n], wall), wall)

(***************************************************************************)
(* A round of gossip: a digest is answered by one pull, and by a push of   *)
(* what the sender is behind on; a pull is answered by pushes.             *)
(***************************************************************************)
Digest(n) == {[id |-> r.id, hlc |-> r.hlc] : r \in store[n]}

(* Store::wanted: what is not held, and what is newer than what is held. *)
Wanted(n, entries) ==
  {e.id : e \in {e \in entries : \A h \in Held(n, e.id) : e.hlc > h.hlc}}

(* The push half of Store::reconcile. *)
Ahead(n, entries) ==
  {r \in store[n] : \A e \in entries : e.id = r.id => r.hlc > e.hlc}

Pull(ids) == IF ids = {} THEN <<>> ELSE <<[type |-> "pull", ids |-> ids]>>

Push(records) ==
  IF records = {} THEN <<>> ELSE <<[type |-> "push", records |-> records]>>

MessagesUnderWay == SumFunction([l \in DOMAIN link |-> Len(link[l])])

Gossip(n, m) ==
  /\ n # m
  /\ MessagesUnderWay <= MaxQueue
  /\ link' = [link EXCEPT ![<<n, m>>] =
       Append(@, [type |-> "digest", entries |-> Digest(n)])]
  /\ UNCHANGED <<store, clock, trust, key, budget>>

(* m takes the first message from n and answers with the ones in reply. *)
Reply(n, m, reply) ==
  link' = [[link EXCEPT ![<<n, m>>] = Tail(@)] EXCEPT ![<<m, n>>] = @ \o reply]

OnDigest(n, m, p) ==
  /\ p.type = "digest"
  /\ Reply(n, m, Pull(Wanted(m, p.entries)) \o Push(Ahead(m, p.entries)))
  /\ UNCHANGED <<store, clock, trust, key, budget>>

(* Store::collect: an id that is not held is skipped. *)
OnPull(n, m, p) ==
  /\ p.type = "pull"
  /\ Reply(n, m, Push({r \in store[m] : r.id \in p.ids}))
  /\ UNCHANGED <<store, clock, trust, key, budget>>

(* The records of a push are taken one by one. *)
OnPush(n, m, p, wall) ==
  /\ p.type = "push"
  /\ \E r \in p.records :
       /\ Accept(m, r, clock[m], wall)
       /\ link' = [link EXCEPT ![<<n, m>>] = Push(p.records \ {r}) \o Tail(@)]
  /\ UNCHANGED <<trust, key, budget>>

OnMessage(n, m) ==
  /\ link[<<n, m>>] # <<>>
  /\ LET p == Head(link[<<n, m>>]) IN
       OnDigest(n, m, p) \/ OnPull(n, m, p) \/ \E wall \in Wall : OnPush(n, m, p, wall)

(***************************************************************************)
(* Authority, and what goes wrong.                                         *)
(***************************************************************************)

(* authorise_controller, register_device: n learns the key a has now. *)
Pair(n, a) ==
  /\ trust[n][a] # key[a]
  /\ trust' = [trust EXCEPT ![n][a] = key[a]]
  /\ UNCHANGED <<store, clock, key, link, budget>>

Spend == budget > 0 /\ budget' = budget - 1

(* revoke_controller: what applying a revocation does locally. *)
Revoke(n, c) ==
  /\ Spend
  /\ c \in Controller
  /\ trust' = [trust EXCEPT ![n][c] = NoKey]
  /\ UNCHANGED <<store, clock, key, link>>

(* The connection breaks with what is on it. *)
Disconnect(n, m) ==
  /\ Spend
  /\ link' = [l \in Node \X Node |-> IF {n, m} = {l[1], l[2]} THEN <<>> ELSE link[l]]
  /\ UNCHANGED <<store, clock, trust, key>>

(* The node comes back with new stores and a new key. *)
Wipe(n) ==
  /\ Spend
  /\ store' = [store EXCEPT ![n] = {}]
  /\ clock' = [clock EXCEPT ![n] = 0]
  /\ key' = [key EXCEPT ![n] = @ + 1]
  /\ trust' = [trust EXCEPT ![n] =
       [a \in Node |-> IF a = n THEN key[n] + 1 ELSE NoKey]]
  /\ link' = [l \in Node \X Node |-> IF n \in {l[1], l[2]} THEN <<>> ELSE link[l]]

RecordsNext ==
  \/ \E n \in Node, id \in Id, wall \in Wall : Write(n, id, wall)
  \/ \E n, m \in Node : Gossip(n, m) \/ OnMessage(n, m) \/ Disconnect(n, m)
  \/ \E n, m \in Node : Pair(n, m) \/ Revoke(n, m)
  \/ \E n \in Node : Wipe(n)

RecordsSafety == RecordsInit /\ [][RecordsNext]_recordVars

(* Replication is "ordered and retransmitted" (lib.rs:103), so a message   *)
(* arrives unless the connection breaks, and every node gossips with every *)
(* other again and again.  Nothing obliges anyone to write.                *)
RecordsFairness ==
  \A n, m \in Node :
    WF_recordVars(OnMessage(n, m)) /\ SF_recordVars(Gossip(n, m))

RecordsSpec == RecordsSafety /\ RecordsFairness

-----------------------------------------------------------------------------
(* Every variable has its type; a store has one record per id, and a       *)
(* node's clock is not behind any record it holds.                         *)
RecordsTypeOK ==
  /\ store \in [Node -> SUBSET Record]
  /\ clock \in [Node -> Hlc]
  /\ trust \in [Node -> [Node -> Key \cup {NoKey}]]
  /\ key \in [Node -> Key]
  /\ link \in [Node \X Node -> Seq(Message)]
  /\ budget \in 0 .. Budget
  /\ \A n \in Node : budget + key[n] <= Budget
  /\ \A n \in Node : \A r, h \in store[n] : r.id = h.id => r = h

ClockCoversStore == \A n \in Node : \A r \in store[n] : r.hlc <= clock[n]

(* A new edit wins against everything its author has seen, whatever the    *)
(* wall clocks of the two authors say (records.rs:132), unless the clock   *)
(* has run out or the author's own node does not take it for genuine.      *)
FreshEditWins ==
  [][\A n \in Node, id \in Id, wall \in Wall :
       LET r == Edit(n, id, wall) IN
         clock[n] < HlcMax /\ Write(n, id, wall) /\ Authorised(n, r) =>
           /\ r \in store'[n]
           /\ \A m \in Node : \A h \in store[m] :
                h.id = id /\ h.hlc <= clock[n] => Supersedes(r, h)]_recordVars

(* As long as nobody is wiped, the newest version of a record that any     *)
(* node holds is not lost, whatever arrives late or out of order.          *)
Versions(id) == {r \in UNION {store[n] : n \in Node} : r.id = id}

EditsSurvive ==
  [][store' # store /\ key' = key =>
       \A id \in Id : \A r \in Versions(id) :
         \E s \in Versions(id)' : s = r \/ Supersedes(s, r)]_recordVars

(* Gossip comes to rest: once every node takes every record held for       *)
(* genuine, all digests become and stay equal.                             *)
Undisputed == \A n, m \in Node : \A r \in store[m] : Authorised(n, r)

DigestsAgree ==
  <>[](Undisputed => \A n, m \in Node : Digest(n) = Digest(m))

(* "A hybrid logical clock is unique to the edit that produced it, so two  *)
(* records sharing one are the same record" (records.rs:395).              *)
EqualClocksSameRecord ==
  \A n, m \in Node : \A r \in store[n], s \in store[m] :
    r.id = s.id /\ r.hlc = s.hlc => r = s
=============================================================================
