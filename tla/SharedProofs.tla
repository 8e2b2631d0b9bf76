---------------------------- MODULE SharedProofs ----------------------------
(***************************************************************************)
(* Theorems about what is shared.  The devices of a mesh share replicated  *)
(* records (Records; for any controllers, devices and scenes and any range *)
(* of the clock) and channels (Channels; for any producers, lease, hold    *)
(* and range of sequence numbers), the cores of a device the LEDs of a     *)
(* frame (Shards; for any number of cores and LEDs, any sources,           *)
(* coverings, faults and pictures).                                        *)
(***************************************************************************)
EXTENDS Records, Channels, Shards, FiniteSetTheorems, TLAPS

-----------------------------------------------------------------------------
(* The arithmetic of the packed clock.                                     *)

(* Whole milliseconds count for more than any counter. *)
LEMMA LaterMillisecond ==
  ASSUME NEW h \in Nat, NEW wall \in Nat, wall > WallMs(h)
  PROVE  wall * PerMs > h
<1>1. PerMs \in Nat /\ PerMs > 0
  BY RecordsAssumption
<1>2. PICK q \in Int : q = h \div PerMs
  BY <1>1
<1>3. h < (q + 1) * PerMs
  BY <1>1, <1>2
<1>4. wall >= q + 1
  BY <1>2 DEF WallMs
<1>5. (q + 1) * PerMs <= wall * PerMs
  BY <1>1, <1>4
<1> QED BY <1>1, <1>3, <1>5

LEMMA WallMsIsNat == ASSUME NEW h \in Nat PROVE WallMs(h) \in Nat
BY RecordsAssumption DEF WallMs

(* A tick stays in range, and is later than what it starts from until the  *)
(* range is used up.                                                       *)
LEMMA TickAdvances ==
  ASSUME NEW h \in Hlc, NEW wall \in Nat, wall \in Wall \/ wall = WallMs(h)
  PROVE  /\ HlcTick(h, wall) \in Hlc
         /\ HlcTick(h, wall) >= h
         /\ h < HlcMax => HlcTick(h, wall) > h
<1>1. h \in Nat /\ HlcMax \in Nat /\ h <= HlcMax /\ PerMs \in Nat
  BY RecordsAssumption DEF Hlc
<1>2. CASE wall > WallMs(h)
  <2>1. wall \in Wall /\ WallMax \in Nat /\ wall <= WallMax
    BY <1>1, <1>2, WallMsIsNat, RecordsAssumption DEF Wall
  <2>2. wall * PerMs <= WallMax * PerMs
    BY <1>1, <2>1
  <2>3. wall * PerMs \in Nat /\ wall * PerMs <= HlcMax
    BY <1>1, <2>1, <2>2, RecordsAssumption
  <2>4. wall * PerMs > h
    BY <1>1, <1>2, LaterMillisecond
  <2> QED BY <1>1, <1>2, <2>3, <2>4 DEF HlcTick, Hlc
<1>3. CASE ~ (wall > WallMs(h))
  BY <1>1, <1>3 DEF HlcTick, Hlc
<1> QED BY <1>2, <1>3

LEMMA ObserveAdvances ==
  ASSUME NEW h \in Hlc, NEW other \in Hlc, NEW wall \in Wall
  PROVE  Observe(h, other, wall) \in Hlc /\ Observe(h, other, wall) >= h
           /\ Observe(h, other, wall) >= other
<1> DEFINE top == Later(h, other)
           w == Later(wall, WallMs(top))
<1>1. top \in Hlc /\ top >= h /\ top >= other
  BY DEF Later, Hlc
<1>2. WallMs(top) \in Nat /\ wall \in Nat
  BY <1>1, WallMsIsNat, RecordsAssumption DEF Hlc, Wall
<1>3. w \in Nat /\ (w \in Wall \/ w = WallMs(top))
  BY <1>2 DEF Later
<1>4. HlcTick(top, w) \in Hlc /\ HlcTick(top, w) >= top
  BY <1>1, <1>3, TickAdvances
<1> HIDE DEF w, top
<1>5. Observe(h, other, wall) = HlcTick(top, w)
  BY DEF Observe, w, top
<1> QED BY <1>1, <1>4, <1>5, RecordsAssumption DEF Hlc

-----------------------------------------------------------------------------
(* Type correctness, by action.                                            *)

OnePerId(records) == \A r, h \in records : r.id = h.id => r = h

LEMMA AcceptType ==
  ASSUME RecordsTypeOK, NEW n \in Node, NEW r \in Record, NEW h \in Hlc,
         NEW wall \in Wall, Accept(n, r, h, wall)
  PROVE  /\ store' \in [Node -> SUBSET Record]
         /\ clock' \in [Node -> Hlc]
         /\ \A m \in Node : OnePerId(store'[m])
<1> DEFINE kept == store[n] \ Held(n, r.id)
<1>1. r.hlc \in Hlc
  BY DEF Record
<1>2. Observe(h, r.hlc, wall) \in Hlc
  BY <1>1, ObserveAdvances
<1>3. CASE Takes(n, r)
  <2>1. /\ store' = [store EXCEPT ![n] = kept \cup {r}]
        /\ clock' = [clock EXCEPT ![n] = Observe(h, r.hlc, wall)]
    BY <1>3 DEF Accept
  <2>2. kept \cup {r} \in SUBSET Record
    BY DEF RecordsTypeOK
  <2>3. OnePerId(kept \cup {r})
    BY DEF RecordsTypeOK, OnePerId, Held
  <2>4. \A m \in Node : OnePerId(store[m])
    BY DEF RecordsTypeOK, OnePerId
  <2> HIDE DEF kept
  <2> QED BY <1>2, <2>1, <2>2, <2>3, <2>4 DEF RecordsTypeOK
<1>4. CASE ~ Takes(n, r)
  BY <1>4 DEF Accept, RecordsTypeOK, OnePerId
<1> QED BY <1>3, <1>4

LEMMA EditType ==
  ASSUME RecordsTypeOK, NEW n \in Node, NEW id \in Id, NEW wall \in Wall
  PROVE  Edit(n, id, wall) \in Record /\ HlcTick(clock[n], wall) \in Hlc
<1>1. clock[n] \in Hlc /\ key[n] \in Key /\ wall \in Nat
  BY RecordsAssumption DEF RecordsTypeOK, Wall
<1>2. HlcTick(clock[n], wall) \in Hlc
  BY <1>1, TickAdvances
<1> QED BY <1>1, <1>2 DEF Edit, Record

LEMMA ReplyType ==
  ASSUME NEW n \in Node, NEW m \in Node, NEW reply \in Seq(Message),
         link \in [Node \X Node -> Seq(Message)],
         link[<<n, m>>] # <<>>, Reply(n, m, reply)
  PROVE  link' \in [Node \X Node -> Seq(Message)]
<1>1. <<n, m>> \in Node \X Node /\ <<m, n>> \in Node \X Node
  OBVIOUS
<1>2. Tail(link[<<n, m>>]) \in Seq(Message)
  BY <1>1
<1> DEFINE taken == [link EXCEPT ![<<n, m>>] = Tail(@)]
<1>3. taken \in [Node \X Node -> Seq(Message)]
  BY <1>1, <1>2
<1>4. taken[<<m, n>>] \o reply \in Seq(Message)
  BY <1>1, <1>3
<1>5. link' = [taken EXCEPT ![<<m, n>>] = @ \o reply]
  BY DEF Reply
<1> HIDE DEF taken
<1> QED BY <1>1, <1>3, <1>4, <1>5

LEMMA MessageTypes ==
  /\ \A ids \in SUBSET Id : Pull(ids) \in Seq(Message)
  /\ \A records \in SUBSET Record : Push(records) \in Seq(Message)
<1>1. ASSUME NEW ids \in SUBSET Id PROVE Pull(ids) \in Seq(Message)
  <2>1. [type |-> "pull", ids |-> ids] \in Message
    BY DEF Message
  <2> QED BY <2>1 DEF Pull
<1>2. ASSUME NEW records \in SUBSET Record PROVE Push(records) \in Seq(Message)
  <2>1. [type |-> "push", records |-> records] \in Message
    BY DEF Message
  <2> QED BY <2>1 DEF Push
<1> QED BY <1>1, <1>2

LEMMA DigestType ==
  ASSUME RecordsTypeOK, NEW n \in Node PROVE Digest(n) \in SUBSET DigestEntry
BY DEF RecordsTypeOK, Digest, DigestEntry, Record

LEMMA RecordsInitType == RecordsInit => RecordsTypeOK
BY RecordsAssumption DEF RecordsInit, RecordsTypeOK, Hlc, Key

LEMMA RecordsTypeStep == RecordsTypeOK /\ [RecordsNext]_recordVars => RecordsTypeOK'
<1> SUFFICES ASSUME RecordsTypeOK, [RecordsNext]_recordVars PROVE RecordsTypeOK'
  OBVIOUS
<1> USE DEF RecordsTypeOK
<1>1. ASSUME NEW n \in Node, NEW id \in Id, NEW wall \in Wall, Write(n, id, wall)
      PROVE  RecordsTypeOK'
  <2>1. Edit(n, id, wall) \in Record /\ HlcTick(clock[n], wall) \in Hlc
    BY EditType
  <2>2. /\ store' \in [Node -> SUBSET Record]
        /\ clock' \in [Node -> Hlc]
        /\ \A m \in Node : OnePerId(store'[m])
    BY <1>1, <2>1, AcceptType DEF Write
  <2> QED BY <1>1, <2>2 DEF Write, OnePerId
<1>2. ASSUME NEW n \in Node, NEW m \in Node, Gossip(n, m)
      PROVE  RecordsTypeOK'
  <2>1. [type |-> "digest", entries |-> Digest(n)] \in Message
    BY DigestType DEF Message
  <2>2. link' \in [Node \X Node -> Seq(Message)]
    BY <1>2, <2>1 DEF Gossip
  <2> QED BY <1>2, <2>2 DEF Gossip
<1>3. ASSUME NEW n \in Node, NEW m \in Node, OnMessage(n, m)
      PROVE  RecordsTypeOK'
  <2> DEFINE p == Head(link[<<n, m>>])
  <2>1. link[<<n, m>>] \in Seq(Message) /\ link[<<n, m>>] # <<>> /\ p \in Message
    BY <1>3 DEF OnMessage
  <2>2. \/ OnDigest(n, m, p) \/ OnPull(n, m, p)
        \/ \E wall \in Wall : OnPush(n, m, p, wall)
    BY <1>3 DEF OnMessage
  <2> HIDE DEF p
  <2>3. CASE OnDigest(n, m, p)
    <3>1. p.entries \in SUBSET DigestEntry
      BY <2>1, <2>3 DEF OnDigest, Message
    <3>2. Wanted(m, p.entries) \in SUBSET Id /\ Ahead(m, p.entries) \in SUBSET Record
      BY <3>1 DEF Wanted, Ahead, DigestEntry
    <3>3. Pull(Wanted(m, p.entries)) \o Push(Ahead(m, p.entries)) \in Seq(Message)
      BY <3>2, MessageTypes
    <3>4. link' \in [Node \X Node -> Seq(Message)]
      BY <2>1, <2>3, <3>3, ReplyType DEF OnDigest
    <3> QED BY <2>3, <3>4 DEF OnDigest
  <2>4. CASE OnPull(n, m, p)
    <3>1. Push({r \in store[m] : r.id \in p.ids}) \in Seq(Message)
      BY MessageTypes
    <3>2. link' \in [Node \X Node -> Seq(Message)]
      BY <2>1, <2>4, <3>1, ReplyType DEF OnPull
    <3> QED BY <2>4, <3>2 DEF OnPull
  <2>5. ASSUME NEW wall \in Wall, OnPush(n, m, p, wall)
        PROVE  RecordsTypeOK'
    <3>1. PICK r \in p.records :
            /\ Accept(m, r, clock[m], wall)
            /\ link' = [link EXCEPT ![<<n, m>>] = Push(p.records \ {r}) \o Tail(@)]
      BY <2>5 DEF OnPush
    <3>2. p.records \in SUBSET Record
      BY <2>1, <2>5 DEF OnPush, Message
    <3>3. /\ store' \in [Node -> SUBSET Record]
          /\ clock' \in [Node -> Hlc]
          /\ \A k \in Node : OnePerId(store'[k])
      BY <3>1, <3>2, AcceptType
    <3>4. Push(p.records \ {r}) \in Seq(Message) /\ Tail(link[<<n, m>>]) \in Seq(Message)
      BY <2>1, <3>2, MessageTypes
    <3>5. link' \in [Node \X Node -> Seq(Message)]
      BY <3>1, <3>4
    <3> QED BY <2>5, <3>3, <3>5 DEF OnPush, OnePerId
  <2> QED BY <2>2, <2>3, <2>4, <2>5
<1>4. ASSUME NEW n \in Node, NEW m \in Node, Disconnect(n, m)
      PROVE  RecordsTypeOK'
  <2>1. link' \in [Node \X Node -> Seq(Message)]
    BY <1>4 DEF Disconnect
  <2>2. budget' \in 0 .. Budget /\ \A k \in Node : budget' + key[k] <= Budget
    <3>1. \A k \in Node : key[k] \in Nat
      BY DEF Key
    <3> QED BY <1>4, <3>1, RecordsAssumption DEF Disconnect, Spend
  <2> QED BY <1>4, <2>1, <2>2 DEF Disconnect
<1>5. ASSUME NEW n \in Node, NEW m \in Node, Pair(n, m)
      PROVE  RecordsTypeOK'
  BY <1>5 DEF Pair
<1>6. ASSUME NEW n \in Node, NEW m \in Node, Revoke(n, m)
      PROVE  RecordsTypeOK'
  <2>1. trust' \in [Node -> [Node -> Key \cup {NoKey}]]
    BY <1>6 DEF Revoke
  <2>2. budget' \in 0 .. Budget /\ \A k \in Node : budget' + key[k] <= Budget
    <3>1. \A k \in Node : key[k] \in Nat
      BY DEF Key
    <3> QED BY <1>6, <3>1, RecordsAssumption DEF Revoke, Spend
  <2> QED BY <1>6, <2>1, <2>2 DEF Revoke
<1>7. ASSUME NEW n \in Node, Wipe(n)
      PROVE  RecordsTypeOK'
  <2>1. budget \in Nat /\ budget > 0 /\ budget' = budget - 1 /\ Budget \in Nat
    BY <1>7, RecordsAssumption DEF Wipe, Spend
  <2>2. key[n] + 1 \in Key /\ \A m \in Node : key[m] \in Nat
    BY <2>1 DEF Key
  <2>3. key' \in [Node -> Key] /\ \A m \in Node : budget' + key'[m] <= Budget
    BY <1>7, <2>1, <2>2 DEF Wipe
  <2>4. trust' \in [Node -> [Node -> Key \cup {NoKey}]]
    BY <1>7, <2>2 DEF Wipe
  <2>5. link' \in [Node \X Node -> Seq(Message)]
    BY <1>7 DEF Wipe
  <2>6. clock' \in [Node -> Hlc] /\ store' \in [Node -> SUBSET Record]
    BY <1>7, RecordsAssumption DEF Wipe, Hlc
  <2>7. \A m \in Node : \A r, h \in store'[m] : r.id = h.id => r = h
    BY <1>7 DEF Wipe
  <2> QED BY <2>1, <2>3, <2>4, <2>5, <2>6, <2>7
<1>8. CASE UNCHANGED recordVars
  BY <1>8 DEF recordVars
<1> QED BY <1>1, <1>2, <1>3, <1>4, <1>5, <1>6, <1>7, <1>8 DEF RecordsNext

(* Every reachable state of every mesh of record stores has its type: the  *)
(* clock saturates instead of wrapping, and a store never has two versions *)
(* of one record.                                                          *)
THEOREM RecordsTypeCorrect == RecordsSafety => []RecordsTypeOK
BY RecordsInitType, RecordsTypeStep, PTL DEF RecordsSafety

-----------------------------------------------------------------------------
(* The clock of a store and the records in it.                             *)

LEMMA AcceptCovers ==
  ASSUME RecordsTypeOK, ClockCoversStore, NEW n \in Node, NEW r \in Record,
         NEW h \in Hlc, NEW wall \in Wall, h >= clock[n], Accept(n, r, h, wall)
  PROVE  ClockCoversStore'
<1>1. r.hlc \in Hlc /\ clock[n] \in Hlc /\ HlcMax \in Nat
  BY RecordsAssumption DEF Record, RecordsTypeOK
<1>2. CASE Takes(n, r)
  <2> DEFINE new == Observe(h, r.hlc, wall)
             kept == store[n] \ Held(n, r.id)
  <2>1. new \in Hlc /\ new >= h /\ new >= r.hlc
    BY <1>1, ObserveAdvances
  <2>2. \A s \in kept \cup {r} : s.hlc <= new
    <3>1. \A s \in store[n] : s.hlc \in Hlc /\ s.hlc <= clock[n]
      BY DEF RecordsTypeOK, Record, ClockCoversStore
    <3> HIDE DEF new
    <3> QED BY <1>1, <2>1, <3>1 DEF Hlc
  <2>3. /\ store' = [store EXCEPT ![n] = kept \cup {r}]
        /\ clock' = [clock EXCEPT ![n] = new]
    BY <1>2 DEF Accept
  <2> HIDE DEF new, kept
  <2> QED BY <2>2, <2>3 DEF RecordsTypeOK, ClockCoversStore
<1>3. CASE ~ Takes(n, r)
  <2>1. \A s \in store[n] : s.hlc \in Hlc /\ s.hlc <= clock[n]
    BY DEF RecordsTypeOK, Record, ClockCoversStore
  <2>2. \A s \in store[n] : s.hlc <= h
    BY <1>1, <2>1 DEF Hlc
  <2> QED BY <1>3, <2>2 DEF Accept, RecordsTypeOK, ClockCoversStore
<1> QED BY <1>2, <1>3

(* The records in a push that is first on its link are records. *)
LEMMA PushedAreRecords ==
  ASSUME RecordsTypeOK, NEW n \in Node, NEW m \in Node, link[<<n, m>>] # <<>>,
         Head(link[<<n, m>>]).type = "push"
  PROVE  Head(link[<<n, m>>]).records \in SUBSET Record
<1>1. Head(link[<<n, m>>]) \in Message
  BY DEF RecordsTypeOK
<1> QED BY <1>1 DEF Message

LEMMA ClockCoversStep ==
  RecordsTypeOK /\ ClockCoversStore /\ [RecordsNext]_recordVars => ClockCoversStore'
<1> SUFFICES ASSUME RecordsTypeOK, ClockCoversStore, [RecordsNext]_recordVars
             PROVE  ClockCoversStore'
  OBVIOUS
<1>1. ASSUME NEW n \in Node, NEW id \in Id, NEW wall \in Wall, Write(n, id, wall)
      PROVE  ClockCoversStore'
  <2>1. clock[n] \in Hlc /\ wall \in Nat
    BY RecordsAssumption DEF RecordsTypeOK, Wall
  <2>2. HlcTick(clock[n], wall) >= clock[n]
    BY <2>1, TickAdvances
  <2> QED BY <1>1, <2>2, EditType, AcceptCovers DEF Write
<1>2. ASSUME NEW n \in Node, NEW m \in Node, OnMessage(n, m)
      PROVE  ClockCoversStore'
  <2> DEFINE p == Head(link[<<n, m>>])
  <2>1. CASE \E wall \in Wall : OnPush(n, m, p, wall)
    <3>1. PICK wall \in Wall, r \in p.records : Accept(m, r, clock[m], wall)
      BY <2>1 DEF OnPush
    <3>2. p.records \in SUBSET Record
      BY <1>2, <2>1, PushedAreRecords DEF OnMessage, OnPush
    <3>3. clock[m] \in Hlc /\ clock[m] >= clock[m]
      BY RecordsAssumption DEF RecordsTypeOK, Hlc
    <3> HIDE DEF p
    <3> QED BY <3>1, <3>2, <3>3, AcceptCovers
  <2>2. CASE OnDigest(n, m, p) \/ OnPull(n, m, p)
    BY <2>2 DEF OnDigest, OnPull, ClockCoversStore
  <2> QED BY <1>2, <2>1, <2>2 DEF OnMessage
<1>3. ASSUME NEW n \in Node, Wipe(n)
      PROVE  ClockCoversStore'
  BY <1>3 DEF Wipe, RecordsTypeOK, ClockCoversStore
<1>4. ASSUME NEW n \in Node, NEW m \in Node,
             Gossip(n, m) \/ Disconnect(n, m) \/ Pair(n, m) \/ Revoke(n, m)
      PROVE  ClockCoversStore'
  BY <1>4 DEF Gossip, Disconnect, Pair, Revoke, ClockCoversStore
<1>5. CASE UNCHANGED recordVars
  BY <1>5 DEF recordVars, ClockCoversStore
<1> QED BY <1>1, <1>2, <1>3, <1>4, <1>5 DEF RecordsNext

(* No node holds a record that is ahead of its clock. *)
THEOREM ClockIsAhead == RecordsSafety => []ClockCoversStore
<1>1. RecordsInit => ClockCoversStore
  BY DEF RecordsInit, ClockCoversStore
<1> QED BY <1>1, ClockCoversStep, RecordsTypeCorrect, PTL DEF RecordsSafety

(* A stamp taken at clock c supersedes every version up to c. *)
LEMMA FreshSupersedes ==
  ASSUME RecordsTypeOK, NEW n \in Node, NEW id \in Id, NEW wall \in Wall,
         clock[n] < HlcMax, NEW h \in Record, h.hlc <= clock[n]
  PROVE  Supersedes(Edit(n, id, wall), h)
<1>1. clock[n] \in Hlc /\ wall \in Nat /\ h.hlc \in Hlc
  BY RecordsAssumption DEF RecordsTypeOK, Wall, Record
<1>2. HlcTick(clock[n], wall) > clock[n] /\ HlcTick(clock[n], wall) \in Hlc
  BY <1>1, TickAdvances
<1>3. Edit(n, id, wall).hlc = HlcTick(clock[n], wall)
  BY DEF Edit
<1> QED BY <1>1, <1>2, <1>3, RecordsAssumption DEF Supersedes, Hlc

LEMMA FreshEditStep ==
  ASSUME RecordsTypeOK, ClockCoversStore, NEW n \in Node, NEW id \in Id,
         NEW wall \in Wall, clock[n] < HlcMax, Write(n, id, wall),
         Authorised(n, Edit(n, id, wall))
  PROVE  /\ Edit(n, id, wall) \in store'[n]
         /\ \A m \in Node : \A h \in store[m] :
              h.id = id /\ h.hlc <= clock[n] => Supersedes(Edit(n, id, wall), h)
<1> DEFINE r == Edit(n, id, wall)
<1>1. \A m \in Node : \A h \in store[m] : h \in Record
  BY DEF RecordsTypeOK
<1>2. \A m \in Node : \A h \in store[m] : h.hlc <= clock[n] => Supersedes(r, h)
  BY <1>1, FreshSupersedes
<1>3. r.id = id
  BY DEF Edit
<1>4. Takes(n, r)
  BY <1>2 DEF Takes, Held, ClockCoversStore
<1>5. store' = [store EXCEPT ![n] = (@ \ Held(n, r.id)) \cup {r}]
  BY <1>4 DEF Write, Accept
<1> HIDE DEF r
<1>6. r \in store'[n]
  BY <1>5 DEF RecordsTypeOK
<1> QED BY <1>2, <1>6 DEF r

(* A new edit wins against everything its author has seen, on every mesh   *)
(* and whatever the wall clocks say.                                       *)
THEOREM FreshEditsWin == RecordsSafety => FreshEditWins
<1> DEFINE Wins(n, id, wall) ==
      LET r == Edit(n, id, wall) IN
        clock[n] < HlcMax /\ Write(n, id, wall) /\ Authorised(n, r) =>
          /\ r \in store'[n]
          /\ \A m \in Node : \A h \in store[m] :
               h.id = id /\ h.hlc <= clock[n] => Supersedes(r, h)
<1>1. RecordsTypeOK /\ ClockCoversStore /\ [RecordsNext]_recordVars
        => [\A n \in Node, id \in Id, wall \in Wall : Wins(n, id, wall)]_recordVars
  BY FreshEditStep
<1> QED BY <1>1, RecordsTypeCorrect, ClockIsAhead, PTL DEF RecordsSafety, FreshEditWins

-----------------------------------------------------------------------------
(* Edits are not lost.                                                     *)

Kept(id) == \A r \in Versions(id) : \E s \in Versions(id)' : s = r \/ Supersedes(s, r)

LEMMA SameStoreKeeps ==
  ASSUME NEW id \in Id, UNCHANGED store PROVE Kept(id)
BY DEF Kept, Versions

LEMMA AcceptKeeps ==
  ASSUME RecordsTypeOK, NEW n \in Node, NEW new \in Record, NEW h \in Hlc,
         NEW wall \in Wall, Accept(n, new, h, wall), NEW id \in Id
  PROVE  Kept(id)
<1>1. CASE Takes(n, new)
  <2>1. store' = [store EXCEPT ![n] = (@ \ Held(n, new.id)) \cup {new}]
    BY <1>1 DEF Accept
  <2>2. ASSUME NEW m \in Node, NEW r \in store[m], r.id = id
        PROVE  \E s \in Versions(id)' : s = r \/ Supersedes(s, r)
    <3>1. CASE m = n /\ r \in Held(n, new.id)
      <4>1. Supersedes(new, r) /\ new.id = id
        BY <1>1, <2>2, <3>1 DEF Takes, Held
      <4>2. new \in store'[n]
        BY <2>1 DEF RecordsTypeOK
      <4> QED BY <4>1, <4>2 DEF Versions
    <3>2. CASE ~ (m = n /\ r \in Held(n, new.id))
      <4>1. r \in store'[m]
        BY <2>1, <3>2 DEF RecordsTypeOK
      <4> QED BY <2>2, <4>1 DEF Versions
    <3> QED BY <3>1, <3>2
  <2> QED BY <2>2 DEF Kept, Versions
<1>2. CASE ~ Takes(n, new)
  BY <1>2, SameStoreKeeps DEF Accept
<1> QED BY <1>1, <1>2

LEMMA EditsSurviveStep ==
  ASSUME RecordsTypeOK, RecordsNext, key' = key, NEW id \in Id PROVE Kept(id)
<1>1. ASSUME NEW n \in Node, NEW i \in Id, NEW wall \in Wall, Write(n, i, wall)
      PROVE  Kept(id)
  BY <1>1, EditType, AcceptKeeps DEF Write
<1>2. ASSUME NEW n \in Node, NEW m \in Node, OnMessage(n, m)
      PROVE  Kept(id)
  <2> DEFINE p == Head(link[<<n, m>>])
  <2>1. CASE \E wall \in Wall : OnPush(n, m, p, wall)
    <3>1. PICK wall \in Wall, r \in p.records : Accept(m, r, clock[m], wall)
      BY <2>1 DEF OnPush
    <3>2. p.records \in SUBSET Record
      BY <1>2, <2>1, PushedAreRecords DEF OnMessage, OnPush
    <3>3. clock[m] \in Hlc
      BY DEF RecordsTypeOK
    <3> HIDE DEF p
    <3> QED BY <3>1, <3>2, <3>3, AcceptKeeps
  <2>2. CASE OnDigest(n, m, p) \/ OnPull(n, m, p)
    BY <2>2, SameStoreKeeps DEF OnDigest, OnPull
  <2> QED BY <1>2, <2>1, <2>2 DEF OnMessage
<1>3. ASSUME NEW n \in Node, Wipe(n)
      PROVE  Kept(id)
  <2>1. key[n] \in Nat /\ key'[n] = key[n] + 1
    BY <1>3 DEF Wipe, RecordsTypeOK, Key
  <2> QED BY <2>1
<1>4. ASSUME NEW n \in Node, NEW m \in Node,
             Gossip(n, m) \/ Disconnect(n, m) \/ Pair(n, m) \/ Revoke(n, m)
      PROVE  Kept(id)
  BY <1>4, SameStoreKeeps DEF Gossip, Disconnect, Pair, Revoke
<1> QED BY <1>1, <1>2, <1>3, <1>4 DEF RecordsNext

(* As long as nobody is wiped, no mesh loses the newest version of a       *)
(* record, whatever messages are lost, late or out of order.               *)
THEOREM EditsAreNotLost == RecordsSafety => EditsSurvive
<1>1. RecordsTypeOK /\ [RecordsNext]_recordVars
        => [store' # store /\ key' = key =>
              \A id \in Id : \A r \in Versions(id) :
                \E s \in Versions(id)' : s = r \/ Supersedes(s, r)]_recordVars
  BY EditsSurviveStep DEF Kept
<1> QED BY <1>1, RecordsTypeCorrect, PTL DEF RecordsSafety, EditsSurvive

-----------------------------------------------------------------------------
(* The channel: distances between sequence numbers.                        *)

(* Division with a remainder, and the remainder is the only one. *)
LEMMA Division ==
  ASSUME NEW M \in Nat, M > 0, NEW a \in Int
  PROVE  /\ a % M \in 0..(M - 1)
         /\ a \div M \in Int
         /\ a = (M * (a \div M)) + (a % M)
<1>1. a % M \in 0..(M - 1)
  OBVIOUS
<1>2. a \div M \in Int
  OBVIOUS
<1>3. a = (M * (a \div M)) + (a % M)
  OBVIOUS
<1> QED BY <1>1, <1>2, <1>3

LEMMA Remainder ==
  ASSUME NEW M \in Nat, M > 0, NEW q \in Int, NEW r \in 0..(M - 1)
  PROVE  ((M * q) + r) % M = r
OBVIOUS

(* The distance between two numbers taken modulo M is their distance. *)
LEMMA Distance ==
  ASSUME NEW M \in Nat, M > 0, NEW n \in Nat, NEW v \in Nat
  PROVE  ((n % M) - (v % M)) % M = (n - v) % M
<1> DEFINE d == (n % M) - (v % M)
           q == (n \div M) - (v \div M)
<1>1. /\ n % M \in 0..(M - 1) /\ n \div M \in Int
      /\ v % M \in 0..(M - 1) /\ v \div M \in Int
  BY Division
<1>2. n = (M * (n \div M)) + (n % M) /\ v = (M * (v \div M)) + (v % M)
  BY Division
<1>3. d \in Int /\ q \in Int
  BY <1>1
<1>4. n - v = (M * q) + d
  BY <1>1, <1>2
<1>5. d % M \in 0..(M - 1) /\ d \div M \in Int /\ d = (M * (d \div M)) + (d % M)
  BY <1>3, Division
<1>6. n - v = (M * (q + (d \div M))) + (d % M)
  BY <1>3, <1>4, <1>5
<1>7. q + (d \div M) \in Int
  BY <1>3, <1>5
<1>8. ((M * (q + (d \div M))) + (d % M)) % M = d % M
  <2> HIDE DEF d, q
  <2> QED BY <1>5, <1>7, Remainder
<1>9. (n - v) % M = d % M
  <2> HIDE DEF d, q
  <2> QED BY <1>6, <1>8
<1> QED BY <1>9

LEMMA SeqType == ASSUME NEW n \in Nat PROVE SeqNo(n) \in Seqs /\ SeqNo(n) # NoSeq
<1>1. n % SeqSpace \in 0..(SeqSpace - 1)
  BY ChannelAssumption, Division
<1> QED BY <1>1 DEF SeqNo, Seqs, NoSeq

LEMMA HalfType == Half \in Nat /\ Half < SeqSpace
BY ChannelAssumption DEF Half

(* Numbers on the air are as far apart, modulo SeqSpace, as their frames. *)
LEMMA SeqDistance ==
  ASSUME NEW n \in Nat, NEW v \in Nat
  PROVE  (SeqNo(n) - SeqNo(v)) % SeqSpace = (n - v) % SeqSpace
<1>1. SeqSpace \in Nat /\ SeqSpace > 0
  BY ChannelAssumption
<1>2. ((n % SeqSpace) - (v % SeqSpace)) % SeqSpace = (n - v) % SeqSpace
  BY <1>1, Distance, Zenon
<1> QED BY <1>2, Zenon DEF SeqNo

(* A frame that comes late is not newer. *)
LEMMA LateIsNotNewer ==
  ASSUME NEW n \in Nat, NEW v \in Nat, n < v, v - n <= Delay
  PROVE  ~IsNewer(SeqNo(n), SeqNo(v))
<1>1. (SeqNo(n) - SeqNo(v)) % SeqSpace = (n - v) % SeqSpace
  BY SeqDistance
<1>2. CASE v - n = SeqSpace
  <2>1. Half = 0
    BY <1>2, ChannelAssumption, HalfType
  <2> QED BY <2>1, ChannelAssumption DEF Half
<1>3. CASE v - n # SeqSpace
  <2>1. v - n < SeqSpace /\ SeqSpace - (v - n) >= Half
    BY <1>3, ChannelAssumption, HalfType
  <2>2. n - v < 0 /\ n - v > -SeqSpace /\ n - v \in Int
    BY <2>1, ChannelAssumption
  <2>3. (n - v) % SeqSpace = (n - v) + SeqSpace
    BY <2>2, ChannelAssumption
  <2> QED BY <1>1, <2>1, <2>3, ChannelAssumption, HalfType DEF IsNewer
<1> QED BY <1>2, <1>3

(* A frame less than half of the numbers ahead is. *)
LEMMA AheadIsNewer ==
  ASSUME NEW n \in Nat, NEW v \in Nat, n - v \in 1..(Half - 1)
  PROVE  IsNewer(SeqNo(n), SeqNo(v))
<1>1. (SeqNo(n) - SeqNo(v)) % SeqSpace = (n - v) % SeqSpace
  BY SeqDistance
<1>2. n - v \in Int /\ n - v >= 1 /\ n - v < Half /\ n - v < SeqSpace
  BY HalfType, ChannelAssumption
<1>3. (n - v) % SeqSpace = n - v
  BY <1>2, ChannelAssumption
<1>4. SeqNo(n) # SeqNo(v)
  <2> SUFFICES ASSUME SeqNo(n) = SeqNo(v) PROVE FALSE
    OBVIOUS
  <2>1. SeqNo(n) - SeqNo(v) = 0
    BY SeqType DEF Seqs
  <2>2. 0 % SeqSpace = 0
    BY ChannelAssumption
  <2> QED BY <1>1, <1>2, <1>3, <2>1, <2>2
<1> QED BY <1>1, <1>2, <1>3, <1>4 DEF IsNewer

-----------------------------------------------------------------------------
LEMMA RenewType ==
  ASSUME NEW priority \in Priority, owner \in Owner, Renew(priority)
  PROVE  /\ owner' \in Owner
         /\ owner'.producer = owner.producer
         /\ owner'.last = owner.last
<1>1. Lease \in 0..Lease
  BY ChannelAssumption
<1>2. owner' = [producer |-> owner.producer, priority |-> priority,
                left |-> Lease, last |-> owner.last]
  BY DEF Renew, Owner
<1> QED BY <1>1, <1>2 DEF Owner

LEMMA TypeInit == ChannelInit => ChannelTypeOK
BY ChannelAssumption
  DEF ChannelInit, ChannelTypeOK, Unowned, Default, NoSeq

LEMMA TypeNext == ChannelTypeOK /\ [ChannelNext]_vars => ChannelTypeOK'
<1> SUFFICES ASSUME ChannelTypeOK, [ChannelNext]_vars
             PROVE  ChannelTypeOK'
  OBVIOUS
<1> USE ChannelAssumption DEF ChannelTypeOK
<1>1. ASSUME NEW p \in Producer, NEW priority \in Priority, Claim(p, priority)
      PROVE  ChannelTypeOK'
  <2>1. CASE Take(p, priority)
    <3>1. owner' \in Owner /\ owner'.last = NoSeq
      BY <2>1 DEF Take, Owner
    <3>2. value' = value /\ age' = age /\ sent' = sent /\ up' = up
      BY <1>1 DEF Claim
    <3> QED BY <3>1, <3>2
  <2>2. CASE Owns(p) /\ Renew(priority)
    <3>1. owner \in Owner
      BY <2>2 DEF Owns, Unowned
    <3>2. /\ owner' \in Owner
          /\ owner'.producer = owner.producer /\ owner'.last = owner.last
      BY <2>2, <3>1, RenewType
    <3>3. value' = value /\ age' = age /\ sent' = sent /\ up' = up
      BY <1>1 DEF Claim
    <3> QED BY <3>2, <3>3
  <2> QED BY <1>1, <2>1, <2>2 DEF Claim
<1>2. ASSUME NEW p \in Producer, Release(p)
      PROVE  ChannelTypeOK'
  BY <1>2 DEF Release, Unowned
<1>3. ASSUME NEW p \in Producer, Send(p)
      PROVE  ChannelTypeOK'
  <2>1. /\ sent' \in [Producer -> FirstFrame..LastFrame]
        /\ \A q \in Producer : sent[q] <= sent'[q]
    BY <1>3 DEF Send
  <2>2. owner.last # NoSeq => owner.producer \in Producer
    BY DEF Owner, Unowned
  <2>3. value'.n \in Nat
    BY <1>3 DEF Send, Frames, Default
  <2> QED BY <1>3, <2>1, <2>2, <2>3 DEF Send
<1>4. ASSUME NEW p \in Producer, Crash(p)
      PROVE  ChannelTypeOK'
  BY <1>4 DEF Crash
<1>5. ASSUME NEW p \in Producer, NEW n \in FirstFrame..sent[p], Publish(p, n)
      PROVE  ChannelTypeOK'
  <2>1. owner \in Owner
    BY <1>5 DEF Publish, Owns, Unowned
  <2>2. n \in Nat /\ n <= sent[p] /\ SeqNo(n) \in Seqs
    BY <1>5, SeqType
  <2>3. owner' \in Owner /\ owner'.producer = p /\ owner'.last = SeqNo(n)
    BY <1>5, <2>1, <2>2 DEF Publish, Owner, Owns
  <2> QED BY <1>5, <2>2, <2>3 DEF Publish, Frames
<1>6. CASE Advance
  BY <1>6 DEF Advance, Unowned
<1>7. CASE Elapse
  <2>1. owner' \in Owner \cup {Unowned}
    BY <1>7 DEF Elapse, Lower, Owner, Unowned
  <2>2. owner'.producer = owner.producer /\ owner'.last = owner.last
    BY <1>7 DEF Elapse, Owner, Unowned
  <2>3. age' \in 0..(2 * Hold)
    BY <1>7 DEF Elapse
  <2> QED BY <1>7, <2>1, <2>2, <2>3 DEF Elapse
<1>8. CASE Declare
  BY <1>8 DEF Declare, Unowned
<1>9. CASE UNCHANGED vars
  BY <1>9 DEF vars
<1> QED BY <1>1, <1>2, <1>3, <1>4, <1>5, <1>6, <1>7, <1>8, <1>9 DEF ChannelNext

(* Every state is of its type, and the sequence number kept for the owner  *)
(* is that of the frame shown, which the owner sent.                       *)
THEOREM ChannelTypeCorrect == ChannelSpec => []ChannelTypeOK
<1>1. ChannelInit => ChannelTypeOK
  BY TypeInit
<1>2. ChannelTypeOK /\ [ChannelNext]_vars => ChannelTypeOK'
  BY TypeNext
<1> QED BY <1>1, <1>2, PTL DEF ChannelSpec

-----------------------------------------------------------------------------
(* The newest frame of an owner is taken when it arrives, across the wrap  *)
(* of the number, unless half of the numbers went by unheard.              *)
THEOREM OwnersAreHeard == ChannelSpec => []FreshIsTaken
<1>1. ChannelTypeOK => FreshIsTaken
  <2> SUFFICES ASSUME ChannelTypeOK, owner.last # NoSeq,
                      sent[owner.producer] - value.n \in 1..(Half - 1)
               PROVE  IsNewer(SeqNo(sent[owner.producer]), owner.last)
    BY DEF FreshIsTaken, Half
  <2>1. owner.producer \in Producer
    BY DEF ChannelTypeOK, Owner, Unowned
  <2>2. sent[owner.producer] \in Nat /\ value.n \in Nat
    BY <2>1, ChannelAssumption DEF ChannelTypeOK
  <2>3. owner.last = SeqNo(value.n)
    BY DEF ChannelTypeOK
  <2> QED BY <2>2, <2>3, AheadIsNewer
<1> QED BY <1>1, ChannelTypeCorrect, PTL

(* Frames of an owner are shown in the order they were sent. *)
THEOREM FramesInOrder == ChannelSpec => LatestWins
<1> DEFINE InOrder ==
      owner.producer = owner'.producer /\ owner.last # NoSeq
        => owner'.last # NoSeq /\ value'.n >= value.n
<1>1. ChannelTypeOK /\ [ChannelNext]_vars => [InOrder]_vars
  <2> SUFFICES ASSUME ChannelTypeOK, ChannelNext,
                      owner.producer = owner'.producer, owner.last # NoSeq
               PROVE  owner'.last # NoSeq /\ value'.n >= value.n
    OBVIOUS
  <2> USE ChannelAssumption
  <2>1. owner.producer \in Producer /\ owner \in Owner /\ value.n \in Nat
    BY DEF ChannelTypeOK, Owner, Unowned
  <2>2. owner.producer # Nobody
    BY <2>1
  <2>3. ASSUME NEW p \in Producer, NEW priority \in Priority, Claim(p, priority)
        PROVE  owner'.last # NoSeq /\ value'.n >= value.n
    <3>1. value' = value
      BY <2>3 DEF Claim
    <3>2. owner' = [owner EXCEPT !.priority = priority, !.left = Lease]
      BY <2>2, <2>3 DEF Claim, Owns, Take, Renew
    <3> QED BY <2>1, <3>1, <3>2 DEF Owner
  <2>4. ASSUME NEW p \in Producer, Release(p) \/ Send(p) \/ Crash(p)
        PROVE  owner'.last # NoSeq /\ value'.n >= value.n
    BY <2>1, <2>2, <2>4 DEF Release, Send, Crash, Unowned
  <2>5. ASSUME NEW p \in Producer, NEW n \in FirstFrame..sent[p], Publish(p, n)
        PROVE  owner'.last # NoSeq /\ value'.n >= value.n
    <3>1. p = owner.producer /\ IsNewer(SeqNo(n), owner.last) /\ n >= sent[p] - Delay
      BY <2>5 DEF Publish, Owns, Arrives
    <3>2. n \in Nat /\ sent[p] \in Nat /\ owner.last = SeqNo(value.n)
          /\ value.n <= sent[p]
      BY <3>1 DEF ChannelTypeOK
    <3>3. ~(n < value.n)
      BY <2>1, <3>1, <3>2, LateIsNotNewer
    <3>4. owner'.last = SeqNo(n) /\ value'.n = n
      BY <2>1, <2>5 DEF Publish, Owner
    <3> QED BY <2>1, <3>2, <3>3, <3>4, SeqType
  <2>6. CASE Advance \/ Declare
    BY <2>2, <2>6 DEF Advance, Declare, Unowned
  <2>7. CASE Elapse
    BY <2>1, <2>7 DEF Elapse, Owner
  <2> QED BY <2>3, <2>4, <2>5, <2>6, <2>7 DEF ChannelNext
<1>2. ChannelSpec => [][ChannelNext]_vars
  BY PTL DEF ChannelSpec
<1> QED BY <1>1, <1>2, ChannelTypeCorrect, PTL DEF LatestWins

(* Only a frame that is taken makes the reading fresh again. *)
THEOREM NothingElseFreshens == ChannelSpec => OnlyFramesFreshen
<1> DEFINE Freshens ==
      Level' > Level => /\ owner'.producer = owner.producer
                        /\ owner'.last \notin {NoSeq, owner.last}
<1>1. ChannelTypeOK /\ [ChannelNext]_vars => [Freshens]_vars
  <2> SUFFICES ASSUME ChannelTypeOK, ChannelNext, Level' > Level
               PROVE  /\ owner'.producer = owner.producer
                      /\ owner'.last \notin {NoSeq, owner.last}
    OBVIOUS
  <2> USE ChannelAssumption
  <2>1. Level' > Level => age' < age
    <3>1. age \in 0..(2 * Hold) /\ age' \in 0..(2 * Hold)
      BY TypeNext DEF ChannelTypeOK
    <3> QED BY <3>1 DEF Level
  <2>2. \E p \in Producer : \E n \in FirstFrame..sent[p] : Publish(p, n)
    <3>1. age \in 0..(2 * Hold)
      BY DEF ChannelTypeOK
    <3> QED BY <2>1, <3>1 DEF ChannelNext, Claim, Release, Send, Crash, Advance, Elapse, Declare
  <2>3. PICK p \in Producer : \E n \in FirstFrame..sent[p] : Publish(p, n)
    BY <2>2
  <2>4. PICK n \in FirstFrame..sent[p] : Publish(p, n)
    BY <2>3
  <2>5. n \in Nat
    BY DEF ChannelTypeOK
  <2>6. owner \in Owner /\ owner'.producer = owner.producer /\ owner'.last = SeqNo(n)
    BY <2>4 DEF Publish, Owns, Unowned, Owner, ChannelTypeOK
  <2>7. owner.last = NoSeq \/ SeqNo(n) # owner.last
    BY <2>4 DEF Publish, IsNewer
  <2> QED BY <2>5, <2>6, <2>7, SeqType
<1>2. ChannelSpec => [][ChannelNext]_vars
  BY PTL DEF ChannelSpec
<1> QED BY <1>1, <1>2, ChannelTypeCorrect, PTL DEF OnlyFramesFreshen

-----------------------------------------------------------------------------
(* The cores of a device: the arithmetic of its shards.                    *)
LEMMA DivisionOfNat ==
  ASSUME NEW M \in Nat, M > 0, NEW a \in Nat
  PROVE  /\ a % M \in 0..(M - 1)
         /\ a \div M \in Nat
         /\ a = (M * (a \div M)) + (a % M)
<1>1. a % M \in 0..(M - 1)
  OBVIOUS
<1>2. a \div M \in Nat
  OBVIOUS
<1>3. a = (M * (a \div M)) + (a % M)
  OBVIOUS
<1> QED BY <1>1, <1>2, <1>3

LEMMA Product ==
  ASSUME NEW x \in Nat, NEW y \in Nat
  PROVE  /\ x * y \in Nat /\ x * y = y * x
         /\ x * (y + 1) = (x * y) + x
OBVIOUS

LEMMA Monotone ==
  ASSUME NEW x \in Nat, NEW y \in Nat, NEW z \in Nat, x <= y
  PROVE  z * x <= z * y
<1> DEFINE d == y - x
<1>1. d \in Nat /\ y = x + d
  OBVIOUS
<1>2. z * d \in Nat
  BY <1>1, Product
<1>3. z * (x + d) = (z * x) + (z * d)
  BY <1>1
<1>4. z * x \in Nat
  BY Product
<1> HIDE DEF d
<1> QED BY <1>1, <1>2, <1>3, <1>4

(* What is less than n times M is in one of n runs of length M. *)
LEMMA Quotient ==
  ASSUME NEW M \in Nat, NEW n \in Nat, NEW a \in Nat, a < M * n
  PROVE  \E q \in Nat : q < n /\ M * q <= a /\ a < (M * q) + M
<1>1. M > 0
  OBVIOUS
<1> DEFINE q == a \div M
<1>2. q \in Nat /\ a % M \in 0..(M - 1) /\ a = (M * q) + (a % M)
  BY <1>1, DivisionOfNat
<1>3. M * q \in Nat /\ M * n \in Nat
  BY <1>2, Product
<1>4. M * q <= a /\ a < (M * q) + M
  BY <1>2, <1>3
<1>5. q < n
  <2> SUFFICES ASSUME n <= q
               PROVE  FALSE
    BY <1>2
  <2> HIDE DEF q
  <2>1. M * n <= M * q
    BY <1>2, Monotone
  <2> QED BY <1>2, <1>3, <1>4, <2>1
<1> HIDE DEF q
<1> QED BY <1>2, <1>4, <1>5

-----------------------------------------------------------------------------
(* The runs of LEDs.                                                       *)
LEMMA RunType ==
  /\ Base \in Nat /\ Extra \in 0 .. (Cores - 1)
  /\ Strip = (Cores * Base) + Extra
BY DivisionOfNat, ShardsAssumption DEF Base, Extra

(* Where a run begins and ends. *)
LEMMA RunBounds ==
  ASSUME NEW core \in Core
  PROVE  /\ core \in Nat /\ core < Cores
         /\ Start(core) = (Base * core) + (IF core < Extra THEN core ELSE Extra)
         /\ Start(core) + Count(core) =
              (Base * (core + 1)) + (IF core + 1 < Extra THEN core + 1 ELSE Extra)
<1>1. core \in Nat /\ core < Cores
  BY ShardsAssumption DEF Core
<1>2. /\ core * Base = Base * core /\ Base * core \in Nat
      /\ Base * (core + 1) = (Base * core) + Base
  BY <1>1, RunType, Product
<1> QED BY <1>1, <1>2, RunType, ShardsAssumption DEF Start, Count

LEMMA EveryLedOwned ==
  ASSUME NEW led \in Led
  PROVE  \E core \in Core : Holds(core, led)
<1>1. led \in Nat /\ led < (Cores * Base) + Extra
  BY RunType, ShardsAssumption DEF Led
<1>0. Base \in Nat /\ Extra \in Nat /\ Extra < Cores /\ Cores \in Nat
  BY RunType, ShardsAssumption
<1>2. CASE led < (Base + 1) * Extra
  <2>1. PICK q \in Nat : q < Extra /\ (Base + 1) * q <= led /\ led < ((Base + 1) * q) + (Base + 1)
    <3>1. Base + 1 \in Nat /\ Extra \in Nat /\ led \in Nat
      BY <1>0, <1>1
    <3> QED BY <1>2, <3>1, Quotient, Zenon
  <2>2. (Base + 1) * q = (Base * q) + q /\ Base * q \in Nat
    BY <1>0
  <2>3. q \in Core
    BY <1>0, <2>1 DEF Core
  <2>4. Start(q) = (Base * q) + q /\ Count(q) = Base + 1
    BY <1>0, <2>1, <2>3, RunBounds DEF Count
  <2> QED BY <1>0, <1>1, <2>1, <2>2, <2>3, <2>4 DEF Holds
<1>3. CASE (Base + 1) * Extra <= led
  <2> DEFINE d == led - ((Base + 1) * Extra)
             n == Cores - Extra
  <2>1. /\ (Base + 1) * Extra = (Base * Extra) + Extra
        /\ Base * Extra \in Nat
        /\ Cores * Base = (Base * n) + (Base * Extra)
        /\ n \in Nat
    BY <1>0
  <2>2. d \in Nat /\ d < Base * n /\ Base * n \in Nat
    BY <1>0, <1>1, <1>3, <2>1
  <2> HIDE DEF n
  <2>3. PICK q \in Nat : q < n /\ Base * q <= d /\ d < (Base * q) + Base
    <3> HIDE DEF d
    <3> QED BY <1>0, <2>1, <2>2, Quotient
  <2>4. Extra + q \in Core
    BY <1>0, <2>3 DEF Core, n
  <2>5. Base * (Extra + q) = (Base * Extra) + (Base * q) /\ Base * q \in Nat
    BY <1>0
  <2>6. Start(Extra + q) = (Base * Extra) + (Base * q) + Extra /\ Count(Extra + q) = Base
    BY <1>0, <2>4, <2>5, RunBounds DEF Count
  <2> QED BY <1>0, <1>1, <2>1, <2>3, <2>4, <2>5, <2>6 DEF Holds
<1> QED BY <1>0, <1>1, <1>2, <1>3

LEMMA RunsApart ==
  ASSUME NEW c \in Core, NEW d \in Core, c < d
  PROVE  Start(c) + Count(c) <= Start(d)
<1>1. c \in Nat /\ d \in Nat /\ c + 1 <= d
  BY RunBounds
<1>2. Base * (c + 1) <= Base * d /\ Base * (c + 1) \in Nat /\ Base * d \in Nat
  BY <1>1, RunType, Monotone, Product
<1> QED BY <1>1, <1>2, RunBounds, RunType

(* Every LED is rendered by exactly one core, however many there are and   *)
(* however they divide the strip.                                          *)
THEOREM EveryLedOnce ==
  \A led \in Led : /\ \E core \in Core : Holds(core, led)
                   /\ \A c, d \in Core : Holds(c, led) /\ Holds(d, led) => c = d
<1>1. ASSUME NEW led \in Led, NEW c \in Core, NEW d \in Core,
             Holds(c, led), Holds(d, led), c < d
      PROVE  FALSE
  <2>1. Start(c) + Count(c) <= Start(d)
    BY <1>1, RunsApart
  <2>2. Start(c) + Count(c) \in Int /\ Start(d) \in Int /\ led \in Int
    BY RunBounds, RunType, Product DEF Led
  <2> QED BY <1>1, <2>1, <2>2 DEF Holds
<1>2. \A c, d \in Core : c \in Int /\ d \in Int
  BY RunBounds
<1> QED BY <1>1, <1>2, EveryLedOwned

-----------------------------------------------------------------------------
(* The invariant: as long as the one core has not rendered, what the cores *)
(* that have rendered show and remember is what it is going to.            *)
Sides == {"whole", "split"}
After(s, led) == Prev(Whole, s, led, Len(layers))

Shape ==
  /\ layers \in Layers \cup {<<>>} /\ fault \in Faults \cup {NoFault}
  /\ covers \in Coverings
  /\ todo \subseteq Renderer /\ tainted \subseteq Source
  /\ trail \in [Renderer -> [Led -> [Source -> 0 .. (Trail - 1)]]]
  /\ out = [d \in Sides |-> [led \in Led |-> out[d][led]]]
  /\ report \in [Sides -> SUBSET Source]

Phases ==
  /\ todo # {} => Whole \in todo /\ layers # <<>>
  /\ todo = {} /\ layers = <<>> => out = Dark /\ report = [d \in Sides |-> {}]
  /\ \A s \in Source, led \in Led : <<s, led>> \in fault.pixel => s \in tainted

Remembered ==
  \A core \in Core, led \in Led, s \in Source :
    /\ ~ Holds(core, led) => trail[core][led][s] = 0
    /\ Holds(core, led) /\ s \notin tainted =>
         /\ core \in todo \/ todo = {} => trail[core][led][s] = trail[Whole][led][s]
         /\ core \notin todo /\ todo # {} => trail[core][led][s] = After(s, led)

Shown ==
  \A core \in Core, led \in Led :
    Holds(core, led) =>
      /\ todo # {} => out["whole"][led] = <<>>
      /\ core \in todo => out["split"][led] = <<>>
      /\ Clean(led) /\ core \notin todo /\ todo # {}
           => out["split"][led] = Colour(Whole, led)
      /\ Clean(led) /\ todo = {} => out["split"][led] = out["whole"][led]

Reported ==
  /\ todo # {} => /\ report["whole"] = {}
                  /\ \A s \in Source : s \in report["split"]
                       <=> \E core \in Core \ todo : s \in Contributed(core)
  /\ todo = {} => /\ report["whole"] \subseteq report["split"]
                  /\ \A s \in report["split"] : s \in tainted \/ s \in report["whole"]

ShardsInv == Shape /\ Phases /\ Remembered /\ Shown /\ Reported

-----------------------------------------------------------------------------
LEMMA OwnedType ==
  /\ Owned(Whole) = Led
  /\ \A core \in Core : Owned(core) = {led \in Led : Holds(core, led)}
  /\ \A core \in Core : core # Whole /\ core \in Renderer
BY ShardsAssumption DEF Owned, Core, Renderer

LEMMA StrokesType ==
  ASSUME NEW r, NEW s, NEW led, NEW n \in Nat
  PROVE  Strokes(r, s, led, n) \in Nat
<1> DEFINE K == {k \in 1 .. n : layers[k].source = s /\ Lands(r, s, led)}
<1>1. IsFiniteSet(1 .. n)
  BY FS_Interval
<1>2. IsFiniteSet(K)
  BY <1>1, FS_Subset
<1> QED BY <1>2, FS_CardinalityType DEF Strokes

LEMMA LayersType ==
  ASSUME layers \in Layers \cup {<<>>}
  PROVE  /\ Len(layers) \in Nat
         /\ DOMAIN layers = 1 .. Len(layers)
         /\ \A k \in DOMAIN layers : layers[k].source \in Source
<1>1. CASE layers = <<>>
  BY <1>1
<1>2. CASE layers \in Layers
  <2>1. PICK n \in 1 .. MaxLayers : layers \in [1 .. n -> Layer]
    BY <1>2 DEF Layers
  <2>2. n \in Nat /\ layers \in Seq(Layer) /\ Len(layers) = n
    BY <2>1, ShardsAssumption
  <2> QED BY <2>1, <2>2 DEF Layer
<1> QED BY <1>1, <1>2

LEMMA PrevType ==
  ASSUME Shape, NEW r \in Renderer, NEW s \in Source, NEW led \in Led, NEW n \in Nat
  PROVE  Prev(r, s, led, n) \in 0 .. (Trail - 1)
<1>1. trail[r][led][s] \in 0 .. (Trail - 1)
  BY DEF Shape
<1>2. Strokes(r, s, led, n) \in Nat
  BY StrokesType
<1> QED BY <1>1, <1>2, DivisionOfNat, ShardsAssumption DEF Prev

(* A source that does not fault on a pixel lands on the same LEDs.         *)
LEMMA LandsSame ==
  ASSUME NEW core \in Core, NEW s, NEW led \in Led, Holds(core, led),
         \A l \in Led : <<s, l>> \notin fault.pixel
  PROVE  Lands(core, s, led) <=> Lands(Whole, s, led)
BY OwnedType DEF Lands

(* One that does lands on no fewer.                                        *)
LEMMA LandsMore ==
  ASSUME NEW core \in Core, NEW s, NEW led \in Led, Holds(core, led),
         Lands(Whole, s, led)
  PROVE  Lands(core, s, led)
BY OwnedType DEF Lands

LEMMA PrevSame ==
  ASSUME Shape, Phases, Remembered, NEW core \in Core, core \in todo,
         NEW s \in Source \ tainted, NEW led \in Led, Holds(core, led), NEW n \in Nat
  PROVE  Prev(core, s, led, n) = Prev(Whole, s, led, n)
<1>1. Lands(core, s, led) <=> Lands(Whole, s, led)
  BY LandsSame DEF Phases
<1>2. Strokes(core, s, led, n) = Strokes(Whole, s, led, n)
  BY <1>1 DEF Strokes
<1>3. trail[core][led][s] = trail[Whole][led][s]
  BY DEF Remembered
<1> QED BY <1>2, <1>3 DEF Prev

LEMMA ColourSame ==
  ASSUME Shape, Phases, Remembered, Shown, NEW core \in Core, core \in todo,
         NEW led \in Led, Holds(core, led), Clean(led)
  PROVE  Colour(core, led) = Colour(Whole, led)
<1>1. ASSUME NEW k \in DOMAIN layers
      PROVE  Paints(core, led)[k] = Paints(Whole, led)[k]
  <2> DEFINE s == layers[k].source
  <2>1. s \in Source /\ k \in Nat /\ k - 1 \in Nat
    BY LayersType DEF Shape
  <2>2. CASE led \notin ToSet(covers[s])
    BY <2>2 DEF Paints, Lands
  <2>3. CASE led \in ToSet(covers[s])
    <3>1. s \notin tainted
      BY <2>3 DEF Clean
    <3>2. Lands(core, s, led) <=> Lands(Whole, s, led)
      BY <2>1, <3>1, LandsSame DEF Phases
    <3>3. Prev(core, s, led, k - 1) = Prev(Whole, s, led, k - 1)
      BY <2>1, <3>1, PrevSame
    <3>4. Place(core, s, led) = Place(Whole, s, led)
      BY DEF Place
    <3> QED BY <3>2, <3>3, <3>4 DEF Paints
  <2> QED BY <2>2, <2>3
<1>2. Paints(core, led) = Paints(Whole, led)
  BY <1>1 DEF Paints
<1>3. out["split"][led] = <<>> /\ out["whole"][led] = <<>>
  BY DEF Shown
<1> QED BY <1>2, <1>3, OwnedType DEF Colour, Side

-----------------------------------------------------------------------------
(* A core renders: the other cores, and what the one core is going to do,  *)
(* are left alone.                                                         *)
LEMMA CoreRenders ==
  ASSUME ShardsInv, NEW core \in Core, RenderShard(core)
  PROVE  ShardsInv'
<1> USE DEF ShardsInv
<1>0. /\ core \in todo /\ Whole \in todo /\ core # Whole
      /\ Whole \in todo' /\ todo' = todo \ {core}
      /\ UNCHANGED <<layers, covers, fault, tainted>>
  BY OwnedType DEF RenderShard, Phases, frameVars
<1>1. /\ out'["whole"] = out["whole"]
      /\ \A led \in Led : out'["split"][led] =
           IF Holds(core, led) THEN Colour(core, led) ELSE out["split"][led]
      /\ out' = [d \in Sides |-> [led \in Led |-> out'[d][led]]]
  BY OwnedType DEF RenderShard, Side, Shape, Sides
<1>2. /\ trail' \in [Renderer -> [Led -> [Source -> 0 .. (Trail - 1)]]]
      /\ \A r \in Renderer \ {core} : trail'[r] = trail[r]
      /\ \A led \in Led, s \in Source : trail'[core][led][s] =
           IF Holds(core, led) THEN Prev(core, s, led, Len(layers)) ELSE trail[core][led][s]
  <2>1. Len(layers) \in Nat
    BY LayersType DEF Shape
  <2>2. \A led \in Led, s \in Source : Prev(core, s, led, Len(layers)) \in 0 .. (Trail - 1)
    BY <2>1, OwnedType, PrevType
  <2> QED BY <2>2, OwnedType DEF RenderShard, Shape
<1>3. /\ report'["whole"] = report["whole"]
      /\ report'["split"] = report["split"] \cup Contributed(core)
      /\ report' \in [Sides -> SUBSET Source]
  BY OwnedType DEF RenderShard, Side, Shape, Sides, Contributed
<1>4. \A r, s, led : Lands(r, s, led)' <=> Lands(r, s, led)
  BY <1>0 DEF Lands, Owned, Before, Place
<1>5. ASSUME NEW s, NEW led, NEW n
      PROVE  Prev(Whole, s, led, n)' = Prev(Whole, s, led, n)
  <2>1. Lands(Whole, s, led)' <=> Lands(Whole, s, led)
    BY <1>4
  <2>2. Strokes(Whole, s, led, n)' = Strokes(Whole, s, led, n)
    BY <1>0, <2>1 DEF Strokes
  <2>3. trail'[Whole] = trail[Whole]
    BY <1>0, <1>2 DEF Renderer
  <2> QED BY <2>2, <2>3 DEF Prev
<1>6. \A s, led : After(s, led)' = After(s, led)
  BY <1>0, <1>5 DEF After
<1>7. \A led \in Led : Colour(Whole, led)' = Colour(Whole, led)
  <2>1. \A led \in Led : Paints(Whole, led)' = Paints(Whole, led)
    BY <1>0, <1>4, <1>5 DEF Paints, Place
  <2> QED BY <1>1, <2>1 DEF Colour, Side
<1>8. Shape'
  BY <1>0, <1>1, <1>2, <1>3 DEF Shape
<1>9. Phases'
  BY <1>0 DEF Phases
<1>10. Remembered'
  <2> SUFFICES ASSUME NEW c \in Core, NEW led \in Led, NEW s \in Source
               PROVE  /\ ~ Holds(c, led) => trail'[c][led][s] = 0
                      /\ Holds(c, led) /\ s \notin tainted =>
                           /\ c \in todo' => trail'[c][led][s] = trail'[Whole][led][s]
                           /\ c \notin todo' => trail'[c][led][s] = After(s, led)
    BY <1>0, <1>6 DEF Remembered
  <2>1. CASE c = core
    <3>1. Len(layers) \in Nat
      BY LayersType DEF Shape
    <3>2. Holds(core, led) /\ s \notin tainted
            => Prev(core, s, led, Len(layers)) = After(s, led)
      BY <1>0, <3>1, PrevSame DEF After
    <3> QED BY <1>0, <1>2, <2>1, <3>2 DEF Remembered
  <2>2. CASE c # core
    <3>1. trail'[c] = trail[c] /\ trail'[Whole] = trail[Whole]
      BY <1>0, <1>2, <2>2, OwnedType DEF Renderer
    <3> QED BY <1>0, <2>2, <3>1 DEF Remembered
  <2> QED BY <2>1, <2>2
<1>11. Shown'
  <2> SUFFICES ASSUME NEW c \in Core, NEW led \in Led, Holds(c, led)
               PROVE  /\ out'["whole"][led] = <<>>
                      /\ c \in todo' => out'["split"][led] = <<>>
                      /\ Clean(led) /\ c \notin todo'
                           => out'["split"][led] = Colour(Whole, led)
    BY <1>0, <1>7 DEF Shown, Clean
  <2>1. CASE c = core
    BY <1>0, <1>1, <2>1, ColourSame DEF Shown
  <2>2. CASE c # core
    <3>1. ~ Holds(core, led)
      BY <2>2, EveryLedOnce
    <3> QED BY <1>0, <1>1, <2>2, <3>1 DEF Shown
  <2> QED BY <2>1, <2>2
<1>12. Reported'
  <2>1. \A r : Contributed(r)' = Contributed(r)
    BY <1>0, <1>4 DEF Contributed
  <2>2. Core \ todo' = (Core \ todo) \cup {core}
    BY <1>0
  <2>3. Contributed(core) \subseteq Source
    BY DEF Contributed
  <2> QED BY <1>0, <1>3, <2>1, <2>2, <2>3 DEF Reported
<1> QED BY <1>8, <1>9, <1>10, <1>11, <1>12

(* The one core renders, last: it does what was expected.                  *)
LEMMA WholeRenders ==
  ASSUME ShardsInv, RenderShard(Whole)
  PROVE  ShardsInv'
<1> USE DEF ShardsInv
<1>0. /\ todo = {Whole} /\ todo' = {} /\ layers # <<>>
      /\ UNCHANGED <<layers, covers, fault, tainted>>
      /\ Whole \in Renderer
  BY DEF RenderShard, Phases, frameVars, Renderer
<1>1. /\ out'["split"] = out["split"]
      /\ \A led \in Led : out'["whole"][led] = Colour(Whole, led)
      /\ out' = [d \in Sides |-> [led \in Led |-> out'[d][led]]]
  BY OwnedType DEF RenderShard, Side, Shape, Sides
<1>2. /\ trail' \in [Renderer -> [Led -> [Source -> 0 .. (Trail - 1)]]]
      /\ \A r \in Renderer \ {Whole} : trail'[r] = trail[r]
      /\ \A led \in Led, s \in Source : trail'[Whole][led][s] = After(s, led)
  <2>1. Len(layers) \in Nat
    BY LayersType DEF Shape
  <2>2. \A led \in Led, s \in Source : After(s, led) \in 0 .. (Trail - 1)
    BY <1>0, <2>1, PrevType DEF After
  <2> QED BY <1>0, <2>2, OwnedType DEF RenderShard, Shape, After
<1>3. /\ report'["split"] = report["split"]
      /\ report'["whole"] = report["whole"] \cup Contributed(Whole)
      /\ report' \in [Sides -> SUBSET Source]
  BY DEF RenderShard, Side, Shape, Sides, Contributed
<1>4. Shape'
  BY <1>0, <1>1, <1>2, <1>3 DEF Shape
<1>5. Phases'
  BY <1>0 DEF Phases
<1>6. Remembered'
  <2> SUFFICES ASSUME NEW c \in Core, NEW led \in Led, NEW s \in Source
               PROVE  /\ ~ Holds(c, led) => trail'[c][led][s] = 0
                      /\ Holds(c, led) /\ s \notin tainted
                           => trail'[c][led][s] = trail'[Whole][led][s]
    BY <1>0 DEF Remembered
  <2>1. c \notin todo /\ trail'[c] = trail[c]
    BY <1>0, <1>2, OwnedType
  <2> QED BY <1>0, <1>2, <2>1 DEF Remembered
<1>7. Shown'
  <2> SUFFICES ASSUME NEW c \in Core, NEW led \in Led, Holds(c, led), Clean(led)
               PROVE  out'["split"][led] = out'["whole"][led]
    BY <1>0 DEF Shown, Clean
  <2>1. c \notin todo
    BY <1>0, OwnedType
  <2> QED BY <1>0, <1>1, <2>1 DEF Shown
<1>8. Reported'
  <2>1. \A c \in Core : c \notin todo
    BY <1>0, OwnedType
  <2>2. \A s \in Source : s \in report["split"] <=> \E c \in Core : s \in Contributed(c)
    BY <1>0, <2>1 DEF Reported
  <2>3. report["whole"] = {} /\ report["split"] \subseteq Source
    BY <1>0 DEF Reported, Shape, Sides
  <2>4. ASSUME NEW s \in Contributed(Whole)
        PROVE  \E c \in Core : s \in Contributed(c)
    <3>1. PICK k \in DOMAIN layers, led \in Led :
            layers[k].source = s /\ layers[k].shown # "out" /\ Lands(Whole, s, led)
      BY DEF Contributed
    <3>2. PICK c \in Core : Holds(c, led)
      BY EveryLedOnce
    <3>3. Lands(c, s, led)
      BY <3>1, <3>2, LandsMore
    <3> QED BY <3>1, <3>3 DEF Contributed
  <2>5. ASSUME NEW s \in Source \ tainted, NEW c \in Core, s \in Contributed(c)
        PROVE  s \in Contributed(Whole)
    <3>1. PICK k \in DOMAIN layers, led \in Led :
            layers[k].source = s /\ layers[k].shown # "out" /\ Lands(c, s, led)
      BY <2>5 DEF Contributed
    <3>2. Holds(c, led)
      BY <3>1, OwnedType DEF Lands
    <3>3. Lands(Whole, s, led)
      BY <3>1, <3>2, LandsSame DEF Phases
    <3> QED BY <3>1, <3>3 DEF Contributed
  <2>6. Contributed(Whole) \subseteq Source
    BY DEF Contributed
  <2> QED BY <1>0, <1>3, <2>2, <2>3, <2>4, <2>5, <2>6 DEF Reported
<1> QED BY <1>4, <1>5, <1>6, <1>7, <1>8

-----------------------------------------------------------------------------
(* Between two frames nothing is left of the first but its histories.      *)
LEMMA FrameBegins ==
  ASSUME ShardsInv, NEW ls \in Layers, NEW c \in Coverings, NEW f \in Faults,
         NEW gone \in SUBSET Source, NewFrame(ls, c, f, gone)
  PROVE  ShardsInv'
<1> USE DEF ShardsInv
<1>0. /\ todo = {} /\ todo' = Renderer /\ Whole \in Renderer
      /\ Core \subseteq Renderer
      /\ layers' = ls /\ covers' = c /\ fault' = f /\ ls # <<>>
      /\ out' = Dark /\ report' = [d \in Sides |-> {}]
  <2>1. ls # <<>>
    <3>1. PICK n \in 1 .. MaxLayers : ls \in [1 .. n -> Layer]
      BY DEF Layers
    <3>2. n >= 1 /\ n \in Int
      BY ShardsAssumption
    <3>3. 1 \in DOMAIN ls
      BY <3>1, <3>2
    <3> QED BY <3>3
  <2> QED BY <2>1 DEF NewFrame, Phases, Renderer
<1>1. tainted' \subseteq Source /\ f.pixel \subseteq Source \X Led
  BY ShardsAssumption DEF NewFrame, Shape
<1>2. /\ trail' \in [Renderer -> [Led -> [Source -> 0 .. (Trail - 1)]]]
      /\ \A r \in Renderer, led \in Led, s \in Source :
           trail'[r][led][s] = IF s \in gone THEN 0 ELSE trail[r][led][s]
  <2>1. 0 \in 0 .. (Trail - 1)
    BY ShardsAssumption
  <2> QED BY <2>1 DEF NewFrame, Shape
<1>3. \A s \in Source : s \notin tainted' => s \in gone \/ s \notin tainted
  BY DEF NewFrame
<1>4. Shape'
  <2>1. /\ Dark = [d \in Sides |-> [led \in Led |-> Dark[d][led]]]
        /\ [d \in Sides |-> {}] \in [Sides -> SUBSET Source]
    BY DEF Dark, Sides
  <2> QED BY <1>0, <1>1, <1>2, <2>1 DEF Shape
<1>5. Phases'
  <2>1. \A s \in Source, led \in Led : <<s, led>> \in f.pixel => s \in tainted'
    <3> SUFFICES ASSUME NEW s \in Source, NEW led \in Led, <<s, led>> \in f.pixel
                 PROVE  s \in tainted'
      OBVIOUS
    <3>1. <<s, led>>[1] = s
      OBVIOUS
    <3> QED BY <3>1 DEF NewFrame
  <2> QED BY <1>0, <2>1 DEF Phases
<1>6. Remembered'
  <2>1. \A core \in Core, led \in Led, s \in Source :
          /\ ~ Holds(core, led) => trail[core][led][s] = 0
          /\ Holds(core, led) /\ s \notin tainted =>
               trail[core][led][s] = trail[Whole][led][s]
    BY <1>0 DEF Remembered
  <2>2. \A core \in Core, led \in Led, s \in Source :
          /\ ~ Holds(core, led) => trail'[core][led][s] = 0
          /\ Holds(core, led) /\ s \notin tainted' =>
               trail'[core][led][s] = trail'[Whole][led][s]
    <3> SUFFICES ASSUME NEW core \in Core, NEW led \in Led, NEW s \in Source
                 PROVE  /\ ~ Holds(core, led) => trail'[core][led][s] = 0
                        /\ Holds(core, led) /\ s \notin tainted' =>
                             trail'[core][led][s] = trail'[Whole][led][s]
      OBVIOUS
    <3>1. core \in Renderer /\ Whole \in Renderer
      BY <1>0
    <3>2. /\ trail'[core][led][s] = IF s \in gone THEN 0 ELSE trail[core][led][s]
          /\ trail'[Whole][led][s] = IF s \in gone THEN 0 ELSE trail[Whole][led][s]
      BY <3>1, <1>2
    <3> QED BY <3>2, <2>1, <1>3
  <2>3. \A core \in Core : core \in todo'
    BY <1>0
  <2> QED BY <2>2, <2>3 DEF Remembered
<1>7. Shown'
  BY <1>0 DEF Shown, Dark
<1>8. Reported'
  BY <1>0 DEF Reported, Sides
<1> QED BY <1>4, <1>5, <1>6, <1>7, <1>8

LEMMA FrameEnds ==
  ASSUME ShardsInv, Show
  PROVE  ShardsInv'
<1> USE DEF ShardsInv
<1>1. Shape'
  BY DEF Show, Shape, Dark, Sides
<1>2. Phases'
  BY DEF Show, Phases, Sides, NoFault
<1>3. Remembered'
  BY DEF Show, Remembered
<1>4. Shown'
  BY DEF Show, Shown, Dark
<1>5. Reported'
  BY DEF Show, Reported
<1> QED BY <1>1, <1>2, <1>3, <1>4, <1>5

LEMMA InvInit == ShardsInit => ShardsInv
<1> SUFFICES ASSUME ShardsInit
             PROVE  ShardsInv
  OBVIOUS
<1>0. 0 \in 0 .. (Trail - 1) /\ Core \subseteq Renderer /\ Whole \in Renderer
  BY ShardsAssumption DEF Renderer
<1>1. Shape
  BY <1>0 DEF ShardsInit, Shape, Dark, Sides
<1>2. Phases
  BY DEF ShardsInit, Phases, Sides, NoFault
<1>3. Remembered
  <2>1. \A r \in Renderer, led \in Led, s \in Source : trail[r][led][s] = 0
    BY DEF ShardsInit
  <2>2. todo = {}
    BY DEF ShardsInit
  <2>3. ASSUME NEW core \in Core, NEW led \in Led, NEW s \in Source
        PROVE  /\ ~ Holds(core, led) => trail[core][led][s] = 0
               /\ Holds(core, led) /\ s \notin tainted =>
                    /\ core \in todo \/ todo = {} =>
                         trail[core][led][s] = trail[Whole][led][s]
                    /\ core \notin todo /\ todo # {} =>
                         trail[core][led][s] = After(s, led)
    <3>1. trail[core][led][s] = 0 /\ trail[Whole][led][s] = 0
      BY <1>0, <2>1
    <3> QED BY <3>1, <2>2
  <2> QED BY <2>3 DEF Remembered
<1>4. Shown
  BY DEF ShardsInit, Shown, Dark
<1>5. Reported
  BY DEF ShardsInit, Reported
<1> QED BY <1>1, <1>2, <1>3, <1>4, <1>5 DEF ShardsInv

LEMMA InvNext == ShardsInv /\ [ShardsNext]_shardVars => ShardsInv'
<1> SUFFICES ASSUME ShardsInv, [ShardsNext]_shardVars
             PROVE  ShardsInv'
  OBVIOUS
<1>1. ASSUME NEW ls \in Layers, NEW c \in Coverings, NEW f \in Faults,
             NEW gone \in SUBSET Source, NewFrame(ls, c, f, gone)
      PROVE  ShardsInv'
  BY <1>1, FrameBegins
<1>2. ASSUME NEW r \in Renderer, RenderShard(r)
      PROVE  ShardsInv'
  BY <1>2, CoreRenders, WholeRenders DEF Renderer
<1>3. CASE Show
  BY <1>3, FrameEnds
<1>4. CASE UNCHANGED shardVars
  <2>0. UNCHANGED <<layers, covers, fault, todo, out, report, trail, tainted>>
    BY <1>4 DEF shardVars, frameVars
  <2>1. \A r, s, led : Lands(r, s, led)' <=> Lands(r, s, led)
    BY <2>0 DEF Lands, Owned, Before, Place
  <2>2. ASSUME NEW s, NEW led, NEW n
        PROVE  Prev(Whole, s, led, n)' = Prev(Whole, s, led, n)
    <3>1. Strokes(Whole, s, led, n)' = Strokes(Whole, s, led, n)
      BY <2>0, <2>1 DEF Strokes
    <3> QED BY <2>0, <3>1 DEF Prev
  <2>3. \A led \in Led : Colour(Whole, led)' = Colour(Whole, led)
    <3>1. \A led \in Led : Paints(Whole, led)' = Paints(Whole, led)
      BY <2>0, <2>1, <2>2 DEF Paints, Place
    <3> QED BY <2>0, <3>1 DEF Colour, Side
  <2>4. Shape' /\ Phases'
    BY <2>0 DEF ShardsInv, Shape, Phases
  <2>5. Remembered'
    BY <2>0, <2>2 DEF ShardsInv, Remembered, After
  <2>6. Shown'
    BY <2>0, <2>3 DEF ShardsInv, Shown, Clean
  <2>7. Reported'
    <3>1. \A r : Contributed(r)' = Contributed(r)
      BY <2>0, <2>1 DEF Contributed
    <3> QED BY <2>0, <3>1 DEF ShardsInv, Reported
  <2> QED BY <2>4, <2>5, <2>6, <2>7 DEF ShardsInv
<1> QED BY <1>1, <1>2, <1>3, <1>4 DEF ShardsNext

LEMMA Invariance == ShardsSpec => []ShardsInv
BY InvInit, InvNext, PTL DEF ShardsSpec

(* Types, and each core remembers what the one core does.                  *)
THEOREM ShardsTypeCorrect == ShardsSpec => []ShardsTypeOK
<1>1. ShardsInv => ShardsTypeOK
  <2> SUFFICES ASSUME ShardsInv
               PROVE  ShardsTypeOK
    OBVIOUS
  <2>1. todo # {} => Whole \in todo
    BY DEF ShardsInv, Phases
  <2> QED BY <2>1, OwnedType DEF ShardsInv, Shape, Remembered, ShardsTypeOK
<1> QED BY <1>1, Invariance, PTL

(* Any number of cores shows, and reports, what one core does, frame after *)
(* frame, wherever no source is involved that faulted on a pixel.          *)
THEOREM SplittingShowsTheSame == ShardsSpec => []SplitIsWhole
<1>1. ShardsInv => SplitIsWhole
  <2> SUFFICES ASSUME ShardsInv, todo = {}
               PROVE  /\ \A led \in Led : Clean(led) => out["split"][led] = out["whole"][led]
                      /\ \A s \in Source \ tainted : s \in report["split"] <=> s \in report["whole"]
    BY DEF SplitIsWhole
  <2>1. \A led \in Led : Clean(led) => out["split"][led] = out["whole"][led]
    BY EveryLedOnce DEF ShardsInv, Shown
  <2> QED BY <2>1 DEF ShardsInv, Reported
<1> QED BY <1>1, Invariance, PTL

(* Whatever faults, splitting loses no source.                             *)
THEOREM SplittingLosesNothing == ShardsSpec => []NothingLost
<1>1. ShardsInv => NothingLost
  BY DEF ShardsInv, Reported, NothingLost
<1> QED BY <1>1, Invariance, PTL
=============================================================================
