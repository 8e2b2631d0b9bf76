--------------------------- MODULE RecordingProofs ---------------------------
(***************************************************************************)
(* Theorems about recordings, for any scenarios, operations and reactions  *)
(* of a core: what is written is what is read (Recording), a verdict on a  *)
(* file is right however much of it is lost, and the events of a vector    *)
(* are told apart (VectorExport).                                          *)
(***************************************************************************)
EXTENDS VectorExport, FoldTheorems

-----------------------------------------------------------------------------
(* The script of a scenario, in order.                                     *)

Sooner(sc, i, j) ==
  \/ sc.script[i].at < sc.script[j].at
  \/ sc.script[i].at = sc.script[j].at /\ i < j

Earlier(sc) == {ij \in (DOMAIN sc.script) \X (DOMAIN sc.script) : Sooner(sc, ij[1], ij[2])}

Order(sc) == InOrder(DOMAIN sc.script, LAMBDA i, j : Sooner(sc, i, j))

LEMMA Normalised ==
  ASSUME NEW sc
  PROVE  Normalise(sc) = [sc EXCEPT !.script = [k \in DOMAIN sc.script |-> sc.script[Order(sc)[k]]]]
BY Zenon DEF Normalise, Order, Sooner

LEMMA EarlierMeans ==
  ASSUME NEW sc, NEW i \in DOMAIN sc.script, NEW j \in DOMAIN sc.script
  PROVE  <<i, j>> \in Earlier(sc) <=> Sooner(sc, i, j)
<1> DEFINE ij == <<i, j>>
<1>1. ij \in (DOMAIN sc.script) \X (DOMAIN sc.script) /\ ij[1] = i /\ ij[2] = j
  OBVIOUS
<1> HIDE DEF ij
<1>2. Sooner(sc, ij[1], ij[2]) <=> Sooner(sc, i, j)
  BY <1>1, Zenon
<1>3. ij \in Earlier(sc) <=> Sooner(sc, ij[1], ij[2])
  BY <1>1, Zenon DEF Earlier
<1> QED BY <1>2, <1>3 DEF ij

(* A script with the times of its entries. *)
IsScript(s) == IsList(s) /\ \A i \in DOMAIN s : s[i].at \in Nat

LEMMA EarlierIsOrder ==
  ASSUME NEW sc, IsScript(sc.script)
  PROVE  /\ IsFiniteSet(DOMAIN sc.script) /\ Cardinality(DOMAIN sc.script) = Len(sc.script)
         /\ StrictOrder(DOMAIN sc.script, Earlier(sc))
<1> DEFINE s == sc.script
           n == Len(s)
<1>1. n \in Nat /\ DOMAIN s = 1..n
  BY ListPlaces DEF IsScript
<1>2. \A i \in 1..n : s[i].at \in Int
  BY <1>1 DEF IsScript
<1>3. \A i, j \in 1..n : <<i, j>> \in Earlier(sc) <=> \/ s[i].at < s[j].at
                                                      \/ s[i].at = s[j].at /\ i < j
  BY <1>1, EarlierMeans DEF Sooner
<1> HIDE DEF s, n
<1>4. StrictOrder(1..n, Earlier(sc))
  BY <1>1, <1>2, <1>3 DEF StrictOrder
<1>5. IsFiniteSet(1..n) /\ Cardinality(1..n) = n
  BY <1>1, FS_Interval
<1> QED BY <1>1, <1>4, <1>5 DEF s, n

(* Each place is taken by the entry that belongs there. *)
LEMMA OrderPlaces ==
  ASSUME NEW sc, IsScript(sc.script)
  PROVE  /\ DOMAIN Order(sc) = 1..Len(sc.script)
         /\ \A k \in 1..Len(sc.script) :
              /\ Order(sc)[k] \in 1..Len(sc.script)
              /\ Cardinality(Before(DOMAIN sc.script, Earlier(sc), Order(sc)[k])) = k - 1
<1> DEFINE S == DOMAIN sc.script
           n == Len(sc.script)
           P(y, x) == Sooner(sc, y, x)
<1>1. S = 1..n /\ n \in Nat /\ Cardinality(S) = n /\ IsFiniteSet(S) /\ StrictOrder(S, Earlier(sc))
  BY ListPlaces, EarlierIsOrder DEF IsScript
<1>2. Order(sc) = [k \in 1..Cardinality(S) |->
                     CHOOSE x \in S : Cardinality({y \in S : P(y, x)}) = k - 1]
  BY Zenon DEF Order, InOrder
<1>3. \A x \in S : {y \in S : P(y, x)} = Before(S, Earlier(sc), x)
  BY EarlierMeans DEF Before
<1>4. \A k \in 1..Cardinality(S) : \E x \in S : Cardinality(Before(S, Earlier(sc), x)) = k - 1
  BY <1>1, PlacesAreTaken
<1> HIDE DEF P, S, n
<1>5. ASSUME NEW k \in 1..n
      PROVE  Order(sc)[k] \in S /\ Cardinality(Before(S, Earlier(sc), Order(sc)[k])) = k - 1
  <2>1. PICK x \in S : Cardinality(Before(S, Earlier(sc), x)) = k - 1
    BY <1>1, <1>4
  <2>2. Cardinality({y \in S : P(y, x)}) = k - 1
    BY <1>3, <2>1
  <2>3. Order(sc)[k] = CHOOSE z \in S : Cardinality({y \in S : P(y, z)}) = k - 1
    BY <1>1, <1>2
  <2>4. Order(sc)[k] \in S /\ Cardinality({y \in S : P(y, Order(sc)[k])}) = k - 1
    BY <2>2, <2>3, Zenon
  <2> QED BY <1>3, <2>4
<1> QED BY <1>1, <1>2, <1>5 DEF S, n

(* What is in order of time stays where it is. *)
LEMMA OrderStays ==
  ASSUME NEW sc, IsScript(sc.script),
         \A i, j \in 1..Len(sc.script) : i < j => sc.script[i].at <= sc.script[j].at
  PROVE  \A k \in 1..Len(sc.script) : Order(sc)[k] = k
<1> DEFINE S == DOMAIN sc.script
           n == Len(sc.script)
<1>1. S = 1..n /\ n \in Nat /\ IsFiniteSet(S) /\ Cardinality(S) = n /\ StrictOrder(S, Earlier(sc))
  BY ListPlaces, EarlierIsOrder DEF IsScript
<1>2. \A i, j \in 1..n : <<i, j>> \in Earlier(sc) <=> i < j
  <2>1. \A i \in 1..n : sc.script[i].at \in Int
    BY <1>1 DEF IsScript
  <2>2. \A i, j \in 1..n : <<i, j>> \in Earlier(sc)
          <=> \/ sc.script[i].at < sc.script[j].at
              \/ sc.script[i].at = sc.script[j].at /\ i < j
    BY <1>1, EarlierMeans DEF Sooner
  <2>3. \A i, j \in 1..n : i < j => sc.script[i].at <= sc.script[j].at
    OBVIOUS
  <2> HIDE DEF S, n
  <2>4. ASSUME NEW i \in 1..n, NEW j \in 1..n
        PROVE  <<i, j>> \in Earlier(sc) <=> i < j
    <3>1. sc.script[i].at \in Int /\ sc.script[j].at \in Int /\ i \in Int /\ j \in Int
      BY <1>1, <2>1
    <3>2. /\ i < j => sc.script[i].at <= sc.script[j].at
          /\ j < i => sc.script[j].at <= sc.script[i].at
      BY <2>3
    <3>3. (\/ sc.script[i].at < sc.script[j].at
           \/ sc.script[i].at = sc.script[j].at /\ i < j) <=> i < j
      BY <3>1, <3>2
    <3> QED BY <2>2, <3>3
  <2> QED BY <2>4
<1>3. ASSUME NEW k \in 1..n
      PROVE  Cardinality(Before(S, Earlier(sc), k)) = k - 1
  <2>1. Before(S, Earlier(sc), k) = 1..(k - 1)
    <3>1. Before(S, Earlier(sc), k) = {i \in 1..n : i < k}
      BY <1>1, <1>2 DEF Before
    <3>2. {i \in 1..n : i < k} = 1..(k - 1)
      BY <1>1
    <3> QED BY <3>1, <3>2
  <2>2. k - 1 \in Nat
    BY <1>1
  <2> DEFINE m == k - 1
  <2> HIDE DEF m
  <2>3. Cardinality(1..m) = m
    <3>1. m \in Nat /\ 1 \in Int
      BY <2>2 DEF m
    <3>2. Cardinality(1..m) = IF 1 > m THEN 0 ELSE (m - 1) + 1
      BY <3>1, FS_Interval
    <3> QED BY <3>1, <3>2
  <2> QED BY <2>1, <2>3 DEF m
<1>4. \A x, y \in S : <<x, y>> \in Earlier(sc) <=>
        Cardinality(Before(S, Earlier(sc), x)) < Cardinality(Before(S, Earlier(sc), y))
  BY <1>1, PlacesAreTaken
<1>5. \A k \in 1..n : Order(sc)[k] \in S /\ Cardinality(Before(S, Earlier(sc), Order(sc)[k])) = k - 1
  BY <1>1, OrderPlaces
<1> HIDE DEF S, n
<1>6. ASSUME NEW k \in 1..n
      PROVE  Order(sc)[k] = k
  <2>1. Order(sc)[k] \in 1..n /\ Cardinality(Before(S, Earlier(sc), Order(sc)[k])) = k - 1
    BY <1>1, <1>5
  <2>2. Cardinality(Before(S, Earlier(sc), Order(sc)[k])) = Order(sc)[k] - 1
    BY <1>3, <2>1
  <2> QED BY <1>1, <2>1, <2>2
<1> QED BY <1>6 DEF n

IsEntry(s) == s = [at |-> s.at, op |-> s.op] /\ s.at \in Nat /\ IsOp(s.op)

LEMMA ScenarioParts ==
  ASSUME NEW sc, IsScenario(sc)
  PROVE  /\ sc = [seed |-> sc.seed, duration |-> sc.duration, nodes |-> sc.nodes,
                  faults |-> sc.faults, script |-> sc.script]
         /\ sc.duration \in Nat
         /\ sc.faults \in Seq(Nat) /\ Len(sc.faults) = 6
         /\ IsList(sc.nodes) /\ IsList(sc.script) /\ IsScript(sc.script)
         /\ \A i \in DOMAIN sc.nodes : Filled(sc.nodes[i], {}, NodeFields) /\ sc.nodes[i].id \in Nat
         /\ \A i \in DOMAIN sc.script : IsEntry(sc.script[i])
<1>1. /\ sc = [seed |-> sc.seed, duration |-> sc.duration, nodes |-> sc.nodes,
               faults |-> sc.faults, script |-> sc.script]
      /\ sc.duration \in Nat
      /\ IsList(sc.nodes) /\ IsList(sc.script)
      /\ Fits("faults", sc.faults)
  BY Zenon DEF IsScenario, IsList
<1>2. FieldType("faults") = "faults"
  BY DEF FieldType
<1>3. sc.faults \in Seq(Nat) /\ Len(sc.faults) = 6
  BY <1>1, <1>2 DEF Fits
<1>4. \A i \in DOMAIN sc.nodes : Filled(sc.nodes[i], {}, NodeFields) /\ sc.nodes[i].id \in Nat
  BY Zenon DEF IsScenario, Range
<1>5. \A i \in DOMAIN sc.script : IsEntry(sc.script[i])
  BY Zenon DEF IsScenario, Range, IsEntry
<1>6. IsScript(sc.script)
  BY <1>1, <1>5 DEF IsScript, IsEntry
<1> QED BY <1>1, <1>3, <1>4, <1>5, <1>6

LEMMA ScenarioOfParts ==
  ASSUME NEW sc, NEW t, IsScenario(sc), IsList(t), \A i \in DOMAIN t : IsEntry(t[i])
  PROVE  IsScenario([sc EXCEPT !.script = t])
<1> DEFINE c == [sc EXCEPT !.script = t]
<1>1. c = [seed |-> sc.seed, duration |-> sc.duration, nodes |-> sc.nodes,
           faults |-> sc.faults, script |-> t]
  BY ScenarioParts
<1>2. /\ c.seed = sc.seed /\ c.duration = sc.duration /\ c.nodes = sc.nodes
      /\ c.faults = sc.faults /\ c.script = t
  BY <1>1
<1>3. c = [seed |-> c.seed, duration |-> c.duration, nodes |-> c.nodes,
           faults |-> c.faults, script |-> c.script]
  BY <1>1, <1>2
<1> HIDE DEF c
<1>4. \A s \in Range(t) : IsEntry(s)
  BY Zenon DEF Range
<1>5. t \in Seq(Range(t))
  BY DEF IsList
<1> QED BY <1>2, <1>3, <1>4, <1>5, Zenon DEF IsScenario, IsEntry, c

(* A scenario in order is in order already. *)
LEMMA NormalForm ==
  ASSUME NEW sc, IsScenario(sc)
  PROVE  /\ IsScenario(Normalise(sc))
         /\ Normalise(Normalise(sc)) = Normalise(sc)
<1> DEFINE s == sc.script
           n == Len(s)
           o == Order(sc)
           t == [k \in DOMAIN s |-> s[o[k]]]
           c == [sc EXCEPT !.script = t]
<1>1. Normalise(sc) = c
  BY Normalised
<1>2. /\ IsList(s) /\ IsScript(s) /\ n \in Nat /\ DOMAIN s = 1..n
      /\ \A i \in 1..n : IsEntry(s[i])
  BY ScenarioParts, ListPlaces
<1>3. \A k \in 1..n : o[k] \in 1..n
  BY <1>2, OrderPlaces
<1>4. t = [k \in 1..n |-> s[o[k]]]
  BY <1>2
<1>5. /\ IsList(t) /\ Len(t) = n /\ DOMAIN t = 1..n
      /\ \A k \in 1..n : t[k] = s[o[k]]
  <2> HIDE DEF n, s, o, t
  <2>1. t = [k \in 1..n |-> t[k]] /\ \A k \in 1..n : t[k] = s[o[k]]
    BY <1>4
  <2> QED BY <1>2, <2>1, ListByPlace
<1>6. \A k \in 1..n : IsEntry(t[k])
  <2> HIDE DEF n, s, o, t
  <2> QED BY <1>2, <1>3, <1>5
<1>7. IsScenario(c)
  <2> HIDE DEF t, s, n
  <2> QED BY <1>5, <1>6, ScenarioOfParts
<1>8. c.script = t
  BY ScenarioParts
<1>9. \A i, j \in 1..n : i < j => t[i].at <= t[j].at
  <2>1. \A i, j \in 1..n : i < j => <<o[i], o[j]>> \in Earlier(sc)
    <3> DEFINE S == DOMAIN s
    <3>1. IsFiniteSet(S) /\ StrictOrder(S, Earlier(sc)) /\ Cardinality(S) = n
      BY <1>2, EarlierIsOrder
    <3>2. \A k \in 1..n : o[k] \in S /\ Cardinality(Before(S, Earlier(sc), o[k])) = k - 1
      BY <1>2, OrderPlaces
    <3> HIDE DEF S, n, o
    <3>3. \A i, j \in 1..Cardinality(S) : <<o[i], o[j]>> \in Earlier(sc) <=> i < j
      BY <3>1, <3>2, ListIsOrder
    <3> QED BY <3>1, <3>3
  <2> SUFFICES ASSUME NEW i \in 1..n, NEW j \in 1..n, i < j
               PROVE  t[i].at <= t[j].at
    OBVIOUS
  <2>2. o[i] \in 1..n /\ o[j] \in 1..n
    BY <1>3
  <2>3. Sooner(sc, o[i], o[j])
    BY <1>2, <2>1, <2>2, EarlierMeans
  <2>4. s[o[i]].at \in Int /\ s[o[j]].at \in Int
    BY <1>2, <2>2 DEF IsScript
  <2>5. s[o[i]].at <= s[o[j]].at
    <3> HIDE DEF o
    <3> QED BY <2>3, <2>4 DEF Sooner
  <2> HIDE DEF t, s, o, n
  <2> QED BY <1>5, <2>5
<1>10. IsScript(c.script)
  BY <1>7, ScenarioParts
<1>11. \A k \in 1..n : Order(c)[k] = k
  <2> HIDE DEF c, t, s, n, o
  <2> QED BY <1>5, <1>8, <1>9, <1>10, OrderStays
<1>12. Normalise(c) = c
  <2> HIDE DEF t, s, n, o
  <2>1. [k \in DOMAIN t |-> t[Order(c)[k]]] = t
    <3> HIDE DEF c
    <3>1. [k \in DOMAIN t |-> t[Order(c)[k]]] = [k \in 1..n |-> t[k]]
      BY <1>5, <1>11
    <3> QED BY <1>5, <3>1, ListPlaces
  <2>2. Normalise(c) = [c EXCEPT !.script = [k \in DOMAIN c.script |-> c.script[Order(c)[k]]]]
    BY Normalised
  <2>3. Normalise(c) = [c EXCEPT !.script = t]
    <3> HIDE DEF c
    <3> QED BY <1>8, <2>1, <2>2
  <2> QED BY <2>3
<1> QED BY <1>1, <1>7, <1>12

-----------------------------------------------------------------------------
(* The events of a vector.                                                 *)

(* Records with the same fields are the same if each field is. *)
LEMMA SameRecords ==
  ASSUME NEW r, NEW q, NEW known, NEW fields, Filled(r, known, fields), Filled(q, known, fields),
         \A f \in known : r[f] = q[f],
         \A i \in DOMAIN fields : r[fields[i]] = q[fields[i]]
  PROVE  r = q
<1> DEFINE names == known \cup Range(fields)
<1>1. r = [f \in names |-> r[f]] /\ q = [f \in names |-> q[f]]
  BY Zenon DEF Filled
<1>2. \A f \in names : r[f] = q[f]
  BY DEF Range
<1> HIDE DEF names
<1> QED BY <1>1, <1>2

(* An operation by its tag. *)
LEMMA OpFieldsAre ==
  /\ OpFields("tick") = <<"node">> /\ OpFields("kill") = <<"node">>
  /\ OpFields("send") = <<"from", "to", "bytes">>
  /\ OpFields("multicast") = <<"from", "group", "bytes">>
  /\ OpFields("join") = <<"node", "group">>
  /\ OpFields("revive") = <<"node", "wipe">>
  /\ OpFields("partition") = <<"a", "b">> /\ OpFields("heal") = <<"a", "b">>
  /\ OpFields("heal_all") = <<>>
  /\ OpFields("split") = <<"left", "right">>
  /\ OpFields("set_faults") = <<"faults">>
  /\ OpFields("skew") = <<"node", "offset">> /\ OpFields("discipline") = <<"node", "offset">>
  /\ OpFields("drift") = <<"node", "ppm">>
  /\ OpFields("present") = <<"node", "level">>
  /\ OpFields("store") = <<"node", "key", "value">>
  /\ OpFields("erase") = <<"node", "key">>
BY DEF OpFields

LEMMA ExportTellsApart ==
  ASSUME NEW o, NEW p, IsOp(o), IsOp(p), ExportedOp(o) = ExportedOp(p)
  PROVE  o = p
<1> DEFINE t == o.tag
<1>1. /\ p.tag = t /\ t \in OpTags
      /\ OpNode(o) = OpNode(p) /\ OpDetail(o) = OpDetail(p)
  BY DEF ExportedOp, IsOp
<1>2. Filled(o, {"tag"}, OpFields(t)) /\ Filled(p, {"tag"}, OpFields(t))
  BY <1>1, Zenon DEF IsOp
<1>3. \A i \in DOMAIN OpFields(t) : o[OpFields(t)[i]] = p[OpFields(t)[i]]
  <2> HIDE DEF t
  <2>0. o.tag = t /\ p.tag = t
    BY <1>1 DEF t
  <2>1. CASE t = "send"
    <3>1. o.from = p.from /\ o.to = p.to /\ o.bytes = p.bytes
      BY <1>1, <2>0, <2>1 DEF OpNode, OpDetail
    <3> QED BY <2>1, <3>1, OpFieldsAre
  <2>2. CASE t = "multicast"
    <3>1. o.from = p.from /\ o.group = p.group /\ o.bytes = p.bytes
      BY <1>1, <2>0, <2>2 DEF OpNode, OpDetail
    <3> QED BY <2>2, <3>1, OpFieldsAre
  <2>3. CASE t \in {"tick", "kill"}
    <3>1. o.node = p.node
      BY <1>1, <2>0, <2>3 DEF OpNode
    <3> QED BY <2>3, <3>1, OpFieldsAre
  <2>4. CASE t = "join"
    <3>1. o.node = p.node /\ o.group = p.group
      BY <1>1, <2>0, <2>4 DEF OpNode, OpDetail
    <3> QED BY <2>4, <3>1, OpFieldsAre
  <2>5. CASE t = "revive"
    <3>1. o.node = p.node /\ o.wipe = p.wipe
      BY <1>1, <2>0, <2>5 DEF OpNode, OpDetail
    <3> QED BY <2>5, <3>1, OpFieldsAre
  <2>6. CASE t \in {"partition", "heal"}
    <3>1. o.a = p.a /\ o.b = p.b
      BY <1>1, <2>0, <2>6 DEF OpDetail
    <3> QED BY <2>6, <3>1, OpFieldsAre
  <2>7. CASE t = "heal_all"
    BY <2>7, OpFieldsAre
  <2>8. CASE t = "split"
    <3>1. o.left = p.left /\ o.right = p.right
      BY <1>1, <2>0, <2>8 DEF OpDetail
    <3> QED BY <2>8, <3>1, OpFieldsAre
  <2>9. CASE t = "set_faults"
    <3>1. o.faults = p.faults
      BY <1>1, <2>0, <2>9 DEF OpDetail
    <3> QED BY <2>9, <3>1, OpFieldsAre
  <2>10. CASE t \in {"skew", "discipline"}
    <3>1. o.node = p.node /\ o.offset = p.offset
      BY <1>1, <2>0, <2>10 DEF OpNode, OpDetail
    <3> QED BY <2>10, <3>1, OpFieldsAre
  <2>11. CASE t = "drift"
    <3>1. o.node = p.node /\ o.ppm = p.ppm
      BY <1>1, <2>0, <2>11 DEF OpNode, OpDetail
    <3> QED BY <2>11, <3>1, OpFieldsAre
  <2>12. CASE t = "present"
    <3>1. o.node = p.node /\ o.level = p.level
      BY <1>1, <2>0, <2>12 DEF OpNode, OpDetail
    <3> QED BY <2>12, <3>1, OpFieldsAre
  <2>13. CASE t = "store"
    <3>1. o.node = p.node /\ o.key = p.key /\ o.value = p.value
      BY <1>1, <2>0, <2>13 DEF OpNode, OpDetail
    <3> QED BY <2>13, <3>1, OpFieldsAre
  <2>14. CASE t = "erase"
    <3>1. o.node = p.node /\ o.key = p.key
      BY <1>1, <2>0, <2>14 DEF OpNode, OpDetail
    <3> QED BY <2>14, <3>1, OpFieldsAre
  <2> QED BY <1>1, <2>1, <2>2, <2>3, <2>4, <2>5, <2>6, <2>7, <2>8, <2>9, <2>10, <2>11, <2>12,
             <2>13, <2>14 DEF OpTags
<1>4. \A f \in {"tag"} : o[f] = p[f]
  BY <1>1
<1> HIDE DEF t
<1> QED BY <1>2, <1>3, <1>4, SameRecords

(* A recording is the record of a scenario, from the start to the end. *)
Recorded == \E sc \in Scenario : recording = Record(sc)

LEMMA RecordedStays == RecordingSpec => []Recorded
<1>1. RecordingInit => Recorded
  BY DEF RecordingInit, Recorded
<1>2. Recorded /\ [RecordingNext]_recordingVars => Recorded'
  BY DEF Recorded, RecordingNext, Annotate, Lose, Check, recordingVars
<1> QED BY <1>1, <1>2, PTL DEF RecordingSpec

(* Of two operations that look alike in a vector (export.rs), there is     *)
(* one: whatever the script of a recording, no operation but the one that  *)
(* was done looks like its event.                                          *)
THEOREM EventsAreToldApart == RecordingSpec => []EventsToldApart
<1>1. Recorded => EventsToldApart
  <2> SUFFICES ASSUME NEW sc \in Scenario, recording = Record(sc),
                      NEW i \in DOMAIN recording.scenario.script, NEW o \in OpSample,
                      ExportedOp(o) = Vector(recording).events[i].what
               PROVE  o = recording.scenario.script[i].op
    BY DEF Recorded, EventsToldApart
  <2> DEFINE s == recording.scenario.script
  <2>1. IsScenario(sc)
    BY RecordingAssumption
  <2>2. recording.scenario = Normalise(sc)
    BY DEF Record
  <2>3. IsScenario(recording.scenario)
    BY <2>1, <2>2, NormalForm
  <2>4. IsEntry(s[i])
    BY <2>3, ScenarioParts
  <2>5. Vector(recording).events[i].what = ExportedOp(s[i].op)
    BY DEF Vector, Each
  <2>6. IsOp(s[i].op) /\ IsOp(o)
    BY <2>4, VectorAssumption DEF IsEntry
  <2> HIDE DEF s
  <2>7. o = s[i].op
    BY <2>5, <2>6, ExportTellsApart
  <2> QED BY <2>7 DEF s
<1> QED BY <1>1, RecordedStays, PTL

-----------------------------------------------------------------------------
(* Fields: what is written is what is read.                                *)

LEMMA JoinedAssociative ==
  ASSUME NEW p, NEW q, NEW s, IsList(p), IsList(q), IsList(s)
  PROVE  (p \o q) \o s = p \o (q \o s)
<1> DEFINE S == Range(p) \cup Range(q) \cup Range(s)
<1>1. p \in Seq(S) /\ q \in Seq(S) /\ s \in Seq(S)
  BY DEF IsList
<1> HIDE DEF S
<1> QED BY <1>1

LEMMA JoinedWithNone ==
  ASSUME NEW p, IsList(p)
  PROVE  p \o <<>> = p /\ <<>> \o p = p
BY DEF IsList

LEMMA ListsOfTwo ==
  \A x, y : IsList(<<x, y>>) /\ Len(<<x, y>>) = 2 /\ DOMAIN <<x, y>> = 1..2
<1> SUFFICES ASSUME NEW x, NEW y
             PROVE  IsList(<<x, y>>) /\ Len(<<x, y>>) = 2 /\ DOMAIN <<x, y>> = 1..2
  OBVIOUS
<1> DEFINE p == <<x, y>>
<1>1. p \in Seq({x, y}) /\ Len(p) = 2 /\ DOMAIN p = 1..2
  OBVIOUS
<1> HIDE DEF p
<1>2. IsList(p)
  BY <1>1, ListOfItsOwn DEF IsList
<1> QED BY <1>1, <1>2 DEF p

LEMMA ListsOfThree ==
  \A x, y, z : IsList(<<x, y, z>>) /\ Len(<<x, y, z>>) = 3 /\ DOMAIN <<x, y, z>> = 1..3
<1> SUFFICES ASSUME NEW x, NEW y, NEW z
             PROVE  IsList(<<x, y, z>>) /\ Len(<<x, y, z>>) = 3 /\ DOMAIN <<x, y, z>> = 1..3
  OBVIOUS
<1> DEFINE p == <<x, y, z>>
<1>1. p \in Seq({x, y, z}) /\ Len(p) = 3 /\ DOMAIN p = 1..3
  OBVIOUS
<1> HIDE DEF p
<1>2. IsList(p)
  BY <1>1, ListOfItsOwn DEF IsList
<1> QED BY <1>1, <1>2 DEF p

(* A token, and what comes after it. *)
LEMMA TokenFirst ==
  ASSUME NEW x, NEW q, IsList(q)
  PROVE  /\ IsList(<<x>> \o q) /\ Len(<<x>> \o q) = Len(q) + 1
         /\ <<x>> \o q # <<>> /\ (<<x>> \o q)[1] = x
         /\ Tail(<<x>> \o q) = q
         /\ SubSeq(<<x>> \o q, 2, Len(<<x>> \o q)) = q
<1> DEFINE o == <<x>>
<1>1. IsList(o) /\ Len(o) = 1 /\ o[1] = x
  BY ShortLists
<1> HIDE DEF o
<1> DEFINE t == o \o q
<1>2. Len(q) \in Nat /\ IsList(t) /\ Len(t) = Len(q) + 1
  BY <1>1, ListPlaces, JoinedIsList, JoinedPlaces
<1>3. t[1] = x /\ \A i \in 1..Len(q) : t[1 + i] = q[i]
  BY <1>1, JoinedPlaces
<1>4. SubSeq(t, 2, Len(t)) = q
  <2>1. SubSeq(t, Len(o) + 1, Len(t)) = q
    BY <1>1, HeadAndRest
  <2>2. Len(o) + 1 = 2
    BY <1>1
  <2> HIDE DEF t
  <2> QED BY <2>1, <2>2
<1> HIDE DEF t
<1>5. t # <<>>
  BY <1>2, ShortLists
<1>6. IsList(Tail(t)) /\ Len(Tail(t)) = Len(q) /\ \A i \in 1..Len(q) : Tail(t)[i] = t[i + 1]
  BY <1>2, <1>5, TailOfList
<1>7. Tail(t) = q
  <2>1. \A i \in 1..Len(q) : t[1 + i] = t[i + 1]
    BY <1>2
  <2> QED BY <1>3, <1>6, <2>1, SameLists
<1> QED BY <1>2, <1>3, <1>4, <1>5, <1>7 DEF t, o

LEMMA NumbersAre ==
  ASSUME NEW v, IsList(v)
  PROVE  /\ IsList(Numbers(v)) /\ Len(Numbers(v)) = Len(v)
         /\ \A i \in 1..Len(v) : Numbers(v)[i] = N(v[i])
<1>1. Len(v) \in Nat /\ DOMAIN v = 1..Len(v)
  BY ListPlaces
<1>2. Numbers(v) = [i \in 1..Len(v) |-> N(v[i])]
  BY <1>1 DEF Numbers
<1> DEFINE m == Numbers(v)
<1> HIDE DEF m
<1>3. m = [i \in 1..Len(v) |-> m[i]] /\ \A i \in 1..Len(v) : m[i] = N(v[i])
  BY <1>2 DEF m
<1> QED BY <1>1, <1>3, ListByPlace DEF m

LEMMA NumbersBack ==
  ASSUME NEW v, IsList(v), NEW q, IsList(q)
  PROVE  /\ IsList(Numbers(v) \o q)
         /\ NumbersIn(Len(v), Numbers(v) \o q) = {[value |-> v, rest |-> q]}
<1> DEFINE m == Numbers(v)
           n == Len(v)
           t == m \o q
<1>1. n \in Nat /\ IsList(m) /\ Len(m) = n /\ \A i \in 1..n : m[i] = N(v[i])
  BY NumbersAre, ListPlaces
<1> HIDE DEF m
<1>2. /\ IsList(t) /\ Len(t) = n + Len(q) /\ Len(q) \in Nat
      /\ \A i \in 1..n : t[i] = m[i]
      /\ SubSeq(t, n + 1, Len(t)) = q
  <2>1. IsList(t) /\ Len(q) \in Nat
    BY <1>1, JoinedIsList, ListPlaces
  <2>2. Len(t) = Len(m) + Len(q) /\ \A i \in 1..Len(m) : t[i] = m[i]
    BY <1>1, JoinedPlaces
  <2>3. SubSeq(t, Len(m) + 1, Len(t)) = q
    BY <1>1, HeadAndRest
  <2> HIDE DEF t
  <2> QED BY <1>1, <2>1, <2>2, <2>3
<1> HIDE DEF t
<1>3. \A i \in 1..n : t[i][1] = "n" /\ t[i][2] = v[i]
  BY <1>1, <1>2 DEF N
<1>4. Len(t) >= n
  BY <1>1, <1>2
<1>5. [i \in 1..n |-> t[i][2]] = v
  <2>1. [i \in 1..n |-> t[i][2]] = [i \in 1..n |-> v[i]]
    BY <1>3
  <2> QED BY <2>1, ListPlaces
<1> HIDE DEF n
<1>6. NumbersIn(n, t) = {[value |-> v, rest |-> q]}
  BY <1>2, <1>3, <1>4, <1>5, Zenon DEF NumbersIn
<1> QED BY <1>2, <1>6 DEF m, n, t

LEMMA NumberBack ==
  ASSUME NEW x, NEW q, IsList(q)
  PROVE  NumberIn(<<N(x)>> \o q) = {[value |-> x, rest |-> q]}
<1> DEFINE v == <<x>>
<1>1. IsList(v) /\ Len(v) = 1 /\ v[1] = x /\ DOMAIN v = 1..1
  BY ShortLists, ListPlaces
<1>2. Numbers(v) = <<N(x)>>
  <2>1. Numbers(v) = [i \in 1..1 |-> N(v[i])]
    BY <1>1 DEF Numbers
  <2>2. \A i \in 1..1 : i = 1
    OBVIOUS
  <2>3. IsList(Numbers(v)) /\ Len(Numbers(v)) = 1 /\ Numbers(v)[1] = N(x)
    BY <1>1, NumbersAre
  <2> HIDE DEF v
  <2>4. \A i \in 1..1 : Numbers(v)[i] = <<N(x)>>[i]
    BY <2>2, <2>3, ShortLists
  <2> QED BY <2>3, <2>4, ShortLists, SameLists
<1> HIDE DEF v
<1>3. NumbersIn(1, <<N(x)>> \o q) = {[value |-> v, rest |-> q]}
  BY <1>1, <1>2, NumbersBack
<1> DEFINE r == [value |-> v, rest |-> q]
<1>4. r.value[1] = x /\ r.rest = q
  BY <1>1
<1>5. NumberIn(<<N(x)>> \o q) = {[value |-> g.value[1], rest |-> g.rest] : g \in {r}}
  BY <1>3, Zenon DEF NumberIn
<1> HIDE DEF r
<1>6. NumberIn(<<N(x)>> \o q) = {[value |-> r.value[1], rest |-> r.rest]}
  BY <1>5
<1> QED BY <1>4, <1>6

FieldTypes ==
  {"bytes", "prefix", "digest", "ids", "faults", "flag", "dest", "word", "number"}

LEMMA FieldTypeIn == \A f : FieldType(f) \in FieldTypes
BY DEF FieldType, FieldTypes

LEMMA HexBack ==
  ASSUME NEW v, NEW q, IsList(q)
  PROVE  /\ IsList(Hex(v)) /\ Len(Hex(v)) = 1
         /\ BytesIn(Hex(v) \o q) = {[value |-> v, rest |-> q]}
         /\ Hex(v) \o q # <<>> /\ (Hex(v) \o q)[1] # W("mesh")
<1> DEFINE x == IF v = <<>> THEN W("-") ELSE X(v)
           t == <<x>> \o q
<1>1. Hex(v) = <<x>>
  BY Zenon DEF Hex
<1>2. t # <<>> /\ t[1] = x /\ Tail(t) = q
  BY TokenFirst
<1> HIDE DEF t
<1>3. x # W("mesh")
  BY DEF W, X
<1>4. BytesIn(t) = {[value |-> v, rest |-> q]}
  <2>1. CASE v = <<>>
    <3>1. t[1] = <<"w", "-">> /\ W("-") = <<"w", "-">>
      BY <1>2, <2>1 DEF W
    <3>2. t[1][1] # "x"
      BY <3>1
    <3> QED BY <1>2, <2>1, <3>1, <3>2 DEF BytesIn
  <2>2. CASE v # <<>>
    <3>1. t[1] = <<"x", v>>
      BY <1>2, <2>2 DEF X
    <3>2. t[1] # W("-") /\ t[1][1] = "x" /\ t[1][2] = v
      BY <3>1 DEF W
    <3> QED BY <1>2, <3>2 DEF BytesIn
  <2> QED BY <2>1, <2>2
<1> QED BY <1>1, <1>2, <1>3, <1>4, ShortLists DEF t

LEMMA FieldBack ==
  ASSUME NEW f, NEW v, Fits(f, v), NEW q, IsList(q)
  PROVE  /\ IsList(Written(f, v))
         /\ Read(f, Written(f, v) \o q) = {[value |-> v, rest |-> q]}
<1> DEFINE y == FieldType(f)
           t == Written(f, v) \o q
<1>0. y \in FieldTypes
  BY FieldTypeIn
<1>1. CASE y = "bytes"
  <2>1. Written(f, v) = Hex(v)
    BY <1>1 DEF Written
  <2>2. Read(f, t) = BytesIn(t)
    BY <1>1 DEF Read
  <2> QED BY <2>1, <2>2, HexBack
<1>2. CASE y = "prefix"
  <2>1. Written(f, v) = Hex(v) /\ Len(v) = 4
    BY <1>2 DEF Written, Fits
  <2>2. Read(f, t) = PrefixIn(t)
    BY <1>2 DEF Read
  <2>3. BytesIn(t) = {[value |-> v, rest |-> q]}
    BY <2>1, HexBack
  <2> HIDE DEF t
  <2>4. PrefixIn(t) = {[value |-> v, rest |-> q]}
    BY <2>1, <2>3 DEF PrefixIn
  <2> QED BY <2>1, <2>2, <2>4, HexBack DEF t
<1>3. CASE y = "digest"
  <2>1. Written(f, v) = <<D(v)>>
    BY <1>3 DEF Written
  <2>2. Read(f, t) = DigestIn(t)
    BY <1>3 DEF Read
  <2>3. t # <<>> /\ t[1] = D(v) /\ Tail(t) = q
    BY <2>1, TokenFirst
  <2> HIDE DEF t
  <2>4. t[1][1] = "d" /\ t[1][2] = v
    BY <2>3 DEF D
  <2>5. DigestIn(t) = {[value |-> v, rest |-> q]}
    BY <2>3, <2>4, Zenon DEF DigestIn
  <2> QED BY <2>1, <2>2, <2>5, ShortLists DEF t
<1>4. CASE y = "ids"
  <2>1. Written(f, v) = <<N(Len(v))>> \o Numbers(v)
    BY <1>4 DEF Written
  <2>2. v \in Seq(Nat)
    BY <1>4 DEF Fits
  <2>3. IsList(v)
    BY <2>2, ListOfItsOwn DEF IsList
  <2>4. IsList(Numbers(v)) /\ IsList(<<N(Len(v))>>)
    BY <2>3, NumbersAre, ShortLists
  <2>5. IsList(Written(f, v))
    BY <2>1, <2>4, JoinedIsList
  <2>6. t = <<N(Len(v))>> \o (Numbers(v) \o q)
    BY <2>1, <2>4, JoinedAssociative
  <2>7. IsList(Numbers(v) \o q) /\ NumbersIn(Len(v), Numbers(v) \o q) = {[value |-> v, rest |-> q]}
    BY <2>3, NumbersBack
  <2>8. NumberIn(t) = {[value |-> Len(v), rest |-> Numbers(v) \o q]}
    BY <2>6, <2>7, NumberBack
  <2>9. Read(f, t) = UNION {NumbersIn(r.value, r.rest) : r \in NumberIn(t)}
    BY <1>4 DEF Read
  <2> HIDE DEF t
  <2>10. Read(f, t) = NumbersIn(Len(v), Numbers(v) \o q)
    <3> DEFINE r == [value |-> Len(v), rest |-> Numbers(v) \o q]
    <3>1. r.value = Len(v) /\ r.rest = Numbers(v) \o q
      OBVIOUS
    <3>2. Read(f, t) = UNION {NumbersIn(g.value, g.rest) : g \in {r}}
      BY <2>8, <2>9
    <3> HIDE DEF r
    <3>3. Read(f, t) = NumbersIn(r.value, r.rest)
      BY <3>2
    <3> QED BY <3>1, <3>3
  <2> QED BY <2>5, <2>7, <2>10 DEF t
<1>5. CASE y = "faults"
  <2>1. Written(f, v) = Numbers(v)
    BY <1>5 DEF Written
  <2>2. v \in Seq(Nat) /\ Len(v) = 6
    BY <1>5 DEF Fits
  <2>3. IsList(v)
    BY <2>2, ListOfItsOwn DEF IsList
  <2>4. Read(f, t) = NumbersIn(6, t)
    BY <1>5 DEF Read
  <2> QED BY <2>1, <2>2, <2>3, <2>4, NumbersAre, NumbersBack
<1>6. CASE y = "flag"
  <2> DEFINE b == IF v THEN 1 ELSE 0
  <2>1. Written(f, v) = <<N(b)>>
    BY <1>6 DEF Written
  <2>2. v \in BOOLEAN
    BY <1>6 DEF Fits
  <2>3. NumberIn(t) = {[value |-> b, rest |-> q]}
    BY <2>1, NumberBack
  <2>4. Read(f, t) = {[value |-> r.value # 0, rest |-> r.rest] : r \in NumberIn(t)}
    BY <1>6 DEF Read
  <2>5. (b # 0) = v
    BY <2>2
  <2> HIDE DEF t, b
  <2>6. Read(f, t) = {[value |-> (b # 0), rest |-> q]}
    <3> DEFINE r == [value |-> b, rest |-> q]
    <3>1. r.value = b /\ r.rest = q
      OBVIOUS
    <3>2. Read(f, t) = {[value |-> g.value # 0, rest |-> g.rest] : g \in {r}}
      BY <2>3, <2>4
    <3> HIDE DEF r
    <3>3. Read(f, t) = {[value |-> r.value # 0, rest |-> r.rest]}
      BY <3>2, Zenon
    <3> QED BY <3>1, <3>3, Zenon
  <2>7. Read(f, t) = {[value |-> v, rest |-> q]}
    BY <2>5, <2>6, Zenon
  <2> QED BY <2>1, <2>7, ShortLists DEF t
<1>7. CASE y = "dest"
  <2>1. Read(f, t) = IF t # <<>> /\ t[1] = W("mesh")
                     THEN {[value |-> <<>>, rest |-> Tail(t)]} ELSE PrefixIn(t)
    BY <1>7 DEF Read
  <2>2. Written(f, v) = IF v = <<>> THEN <<W("mesh")>> ELSE Hex(v)
    BY <1>7 DEF Written
  <2>3. v = <<>> \/ Len(v) = 4
    BY <1>7 DEF Fits
  <2>4. CASE v = <<>>
    <3>1. t # <<>> /\ t[1] = W("mesh") /\ Tail(t) = q
      BY <2>2, <2>4, TokenFirst
    <3> HIDE DEF t
    <3> QED BY <2>1, <2>2, <2>4, <3>1, ShortLists DEF t
  <2>5. CASE v # <<>>
    <3>1. /\ t # <<>> /\ t[1] # W("mesh") /\ IsList(Written(f, v))
          /\ BytesIn(t) = {[value |-> v, rest |-> q]}
      BY <2>2, <2>5, HexBack
    <3> HIDE DEF t
    <3>2. PrefixIn(t) = {[value |-> v, rest |-> q]}
      BY <2>3, <2>5, <3>1 DEF PrefixIn
    <3> QED BY <2>1, <3>1, <3>2 DEF t
  <2> QED BY <2>4, <2>5
<1>8. CASE y = "word"
  <2>1. Written(f, v) = <<W(v)>> /\ v \in WordsOf(f)
    BY <1>8 DEF Written, Fits
  <2>2. Read(f, t) = WordIn(WordsOf(f), t)
    BY <1>8 DEF Read
  <2>3. t # <<>> /\ t[1] = W(v) /\ Tail(t) = q
    BY <2>1, TokenFirst
  <2> HIDE DEF t
  <2>4. t[1][1] = "w" /\ t[1][2] = v
    BY <2>3 DEF W
  <2>5. WordIn(WordsOf(f), t) = {[value |-> v, rest |-> q]}
    BY <2>1, <2>3, <2>4, Zenon DEF WordIn
  <2> QED BY <2>1, <2>2, <2>5, ShortLists DEF t
<1>9. CASE y = "number"
  <2>1. Written(f, v) = <<N(v)>>
    BY <1>9 DEF Written
  <2>2. Read(f, t) = NumberIn(t)
    BY <1>9 DEF Read
  <2> QED BY <2>1, <2>2, NumberBack, ShortLists
<1> QED BY <1>0, <1>1, <1>2, <1>3, <1>4, <1>5, <1>6, <1>7, <1>8, <1>9 DEF FieldTypes

-----------------------------------------------------------------------------
(* Lines: a list of fields is written and read one by one.                 *)

IsWriteLoop(h, fields, r) ==
  h = [n \in 0..Len(fields) |->
         IF n = 0 THEN <<>> ELSE h[n - 1] \o Written(fields[n], r[fields[n]])]

LEMMA WriteLoop ==
  ASSUME NEW fields, Len(fields) \in Nat, NEW r
  PROVE  \E h : IsWriteLoop(h, fields, r) /\ WriteAll(fields, r) = h[Len(fields)]
<1> DEFINE m == Len(fields)
           Step(x, n) == x \o Written(fields[n], r[fields[n]])
           Loop(h, k) == h = [n \in 0..k |-> IF n = 0 THEN <<>> ELSE Step(h[n - 1], n)]
           Some == {k \in Nat : \E h : Loop(h, k)}
<1>1. m \in Nat
  OBVIOUS
<1> HIDE DEF m, Step
<1>2. Loop([n \in 0..0 |-> <<>>], 0)
  OBVIOUS
<1>3. ASSUME NEW k \in Nat, NEW h, Loop(h, k)
      PROVE  \E g : Loop(g, k + 1)
  <2> DEFINE g == [n \in 0..(k + 1) |-> IF n = 0 THEN <<>> ELSE Step(h[n - 1], n)]
  <2>1. \A n \in 0..k : g[n] = h[n]
    BY <1>3
  <2>2. \A n \in 0..(k + 1) : n # 0 => n - 1 \in 0..k
    OBVIOUS
  <2>3. \A n \in 0..(k + 1) : n # 0 => Step(h[n - 1], n) = Step(g[n - 1], n)
    <3> HIDE DEF g
    <3> QED BY <2>1, <2>2
  <2>4. Loop(g, k + 1)
    BY <2>3, Zenon
  <2> QED BY <2>4, Zenon
<1>4. 0 \in Some /\ \A k \in Nat : k \in Some => k + 1 \in Some
  <2>1. \E h : Loop(h, 0)
    BY <1>2, Zenon
  <2> HIDE DEF Loop
  <2> QED BY <1>3, <2>1
<1>5. \E h : Loop(h, m)
  <2>1. \A k \in Nat : k \in Some
    <3> HIDE DEF Some
    <3> QED BY <1>4, EveryNumber
  <2> HIDE DEF Loop
  <2> QED BY <1>1, <2>1
<1>6. WriteAll(fields, r) = (CHOOSE h : Loop(h, m))[m]
  BY Zenon DEF WriteAll, m, Step
<1> DEFINE h == CHOOSE g : Loop(g, m)
<1>7. Loop(h, m)
  <2> HIDE DEF Loop
  <2> QED BY <1>5, Zenon
<1> HIDE DEF h
<1>8. IsWriteLoop(h, fields, r)
  BY <1>7, Zenon DEF IsWriteLoop, m, Step
<1> QED BY <1>6, <1>8, Zenon DEF h, m

IsReadLoop(h, r, fields, t) ==
  h = [n \in 0..Len(fields) |->
         IF n = 0 THEN {[record |-> r, rest |-> t]}
         ELSE UNION {{[record |-> With(q.record, fields[n], x.value), rest |-> x.rest] :
                       x \in Read(fields[n], q.rest)} : q \in h[n - 1]}]

LEMMA ReadLoop ==
  ASSUME NEW r, NEW fields, Len(fields) \in Nat, NEW t
  PROVE  \E h : /\ IsReadLoop(h, r, fields, t)
                /\ ReadAll(r, fields, t) = {p.record : p \in h[Len(fields)]}
<1> DEFINE m == Len(fields)
           base == {[record |-> r, rest |-> t]}
           Step(s, n) == UNION {{[record |-> With(q.record, fields[n], x.value), rest |-> x.rest] :
                                  x \in Read(fields[n], q.rest)} : q \in s}
           Loop(h, k) == h = [n \in 0..k |-> IF n = 0 THEN base ELSE Step(h[n - 1], n)]
           Some == {k \in Nat : \E h : Loop(h, k)}
<1>1. m \in Nat
  OBVIOUS
<1> HIDE DEF m, base, Step
<1>2. Loop([n \in 0..0 |-> base], 0)
  OBVIOUS
<1>3. ASSUME NEW k \in Nat, NEW h, Loop(h, k)
      PROVE  \E g : Loop(g, k + 1)
  <2> DEFINE g == [n \in 0..(k + 1) |-> IF n = 0 THEN base ELSE Step(h[n - 1], n)]
  <2>1. \A n \in 0..k : g[n] = h[n]
    BY <1>3
  <2>2. \A n \in 0..(k + 1) : n # 0 => n - 1 \in 0..k
    OBVIOUS
  <2>3. \A n \in 0..(k + 1) : n # 0 => Step(h[n - 1], n) = Step(g[n - 1], n)
    <3> HIDE DEF g
    <3> QED BY <2>1, <2>2
  <2>4. Loop(g, k + 1)
    BY <2>3, Zenon
  <2> QED BY <2>4, Zenon
<1>4. 0 \in Some /\ \A k \in Nat : k \in Some => k + 1 \in Some
  <2>1. \E h : Loop(h, 0)
    BY <1>2, Zenon
  <2> HIDE DEF Loop
  <2> QED BY <1>3, <2>1
<1>5. \E h : Loop(h, m)
  <2>1. \A k \in Nat : k \in Some
    <3> HIDE DEF Some
    <3> QED BY <1>4, EveryNumber
  <2> HIDE DEF Loop
  <2> QED BY <1>1, <2>1
<1>6. ReadAll(r, fields, t) = {p.record : p \in (CHOOSE h : Loop(h, m))[m]}
  BY Zenon DEF ReadAll, m, base, Step
<1> DEFINE h == CHOOSE g : Loop(g, m)
<1>7. Loop(h, m)
  <2> HIDE DEF Loop
  <2> QED BY <1>5, Zenon
<1> HIDE DEF h
<1>8. IsReadLoop(h, r, fields, t)
  BY <1>7, Zenon DEF IsReadLoop, m, base, Step
<1> QED BY <1>6, <1>8, Zenon DEF h, m

(* All the fields of a record, and the record from what is known of it. *)
LEMMA RecordBack ==
  ASSUME NEW r, NEW known, NEW fields, IsList(fields), Filled(r, known, fields)
  PROVE  /\ IsList(WriteAll(fields, r))
         /\ ReadAll([f \in known |-> r[f]], fields, WriteAll(fields, r)) = {r}
<1> DEFINE m == Len(fields)
           r0 == [f \in known |-> r[f]]
           t == WriteAll(fields, r)
<1>1. m \in Nat /\ DOMAIN fields = 1..m
  BY ListPlaces
<1>2. PICK h : IsWriteLoop(h, fields, r) /\ t = h[m]
  BY <1>1, WriteLoop
<1>3. PICK g : IsReadLoop(g, r0, fields, t) /\ ReadAll(r0, fields, t) = {p.record : p \in g[m]}
  BY <1>1, ReadLoop
<1>4. \A i \in 1..m : Fits(fields[i], r[fields[i]])
  BY <1>1, Zenon DEF Filled
<1> HIDE DEF m, r0, t
<1>5. h[0] = <<>> /\ \A n \in 1..m : h[n] = h[n - 1] \o Written(fields[n], r[fields[n]])
  BY <1>1, <1>2 DEF IsWriteLoop, m
<1>6. \A n \in 0..m : IsList(h[n])
  <2> DEFINE P == {n \in 0..m : IsList(h[n])}
  <2>1. 0 \in P
    BY <1>1, <1>5, ShortLists
  <2>2. ASSUME NEW n \in 0..m, n \in P, n + 1 <= m
        PROVE  n + 1 \in P
    <3>1. n + 1 \in 1..m /\ n + 1 \in 0..m /\ (n + 1) - 1 = n
      BY <1>1, <2>2
    <3>2. h[n + 1] = h[n] \o Written(fields[n + 1], r[fields[n + 1]])
      BY <1>5, <3>1
    <3>3. IsList(Written(fields[n + 1], r[fields[n + 1]]))
      BY <1>4, <3>1, ShortLists, FieldBack
    <3>4. IsList(h[n + 1])
      BY <2>2, <3>2, <3>3, JoinedIsList
    <3> QED BY <3>1, <3>4
  <2> HIDE DEF P
  <2>3. \A n \in 0..m : n \in P
    BY <1>1, <2>1, <2>2, EveryNumberUpTo
  <2> QED BY <2>3 DEF P
<1> DEFINE Known(n) == [f \in known \cup {fields[i] : i \in 1..n} |-> r[f]]
<1>7. Known(0) = r0
  <2>1. {fields[i] : i \in 1..0} = {}
    OBVIOUS
  <2> QED BY <2>1, Zenon DEF r0
<1>8. ASSUME NEW n \in 0..m, n + 1 <= m
      PROVE  With(Known(n), fields[n + 1], r[fields[n + 1]]) = Known(n + 1)
  <2> DEFINE S == known \cup {fields[i] : i \in 1..n}
             f1 == fields[n + 1]
  <2>1. S \cup {f1} = known \cup {fields[i] : i \in 1..(n + 1)}
    <3>1. 1..(n + 1) = (1..n) \cup {n + 1}
      BY <1>1
    <3> QED BY <3>1
  <2> HIDE DEF S, f1
  <2> DEFINE k == [f \in S |-> r[f]]
  <2>2. With(k, f1, r[f1]) = [f \in S \cup {f1} |-> r[f]]
    BY DEF With
  <2> QED BY <2>1, <2>2, Zenon DEF S, f1
<1>9. Known(m) = r
  <2>1. Range(fields) = {fields[i] : i \in 1..m}
    BY <1>1 DEF Range
  <2>2. r = [f \in known \cup Range(fields) |-> r[f]]
    BY Zenon DEF Filled
  <2> QED BY <2>1, <2>2, Zenon
<1> HIDE DEF Known
<1>10. \A n \in 0..m : \A q : IsList(q) /\ t = h[n] \o q
                                => g[n] = {[record |-> Known(n), rest |-> q]}
  <2> DEFINE P == {n \in 0..m : \A q : IsList(q) /\ t = h[n] \o q
                                         => g[n] = {[record |-> Known(n), rest |-> q]}}
  <2>1. 0 \in P
    <3>1. 0 \in 0..m
      BY <1>1
    <3>2. g[0] = {[record |-> r0, rest |-> t]}
      BY <1>3, <3>1, Zenon DEF IsReadLoop, m
    <3>3. ASSUME NEW q, IsList(q), t = h[0] \o q
          PROVE  g[0] = {[record |-> Known(0), rest |-> q]}
      <4>1. t = q
        BY <1>5, <3>3, JoinedWithNone
      <4> QED BY <1>7, <3>2, <4>1
    <3> QED BY <3>1, <3>3
  <2>2. ASSUME NEW n \in 0..m, n \in P, n + 1 <= m
        PROVE  n + 1 \in P
    <3> DEFINE f1 == fields[n + 1]
               w == Written(f1, r[f1])
    <3>1. n + 1 \in 1..m /\ n + 1 \in 0..m /\ (n + 1) - 1 = n
      BY <1>1, <2>2
    <3>2. ASSUME NEW q, IsList(q), t = h[n + 1] \o q
          PROVE  g[n + 1] = {[record |-> Known(n + 1), rest |-> q]}
      <4>1. IsList(w) /\ Read(f1, w \o q) = {[value |-> r[f1], rest |-> q]}
        BY <1>4, <3>1, <3>2, FieldBack
      <4> HIDE DEF w, f1
      <4>2. h[n + 1] = h[n] \o w
        BY <1>5, <3>1 DEF w, f1
      <4>3. t = h[n] \o (w \o q)
        <5>1. IsList(h[n])
          BY <1>6, <2>2
        <5>2. IsList(w) /\ IsList(q)
          BY <3>2, <4>1
        <5> DEFINE a == h[n]
        <5> HIDE DEF a
        <5>3. (a \o w) \o q = a \o (w \o q)
          <6>1. IsList(a)
            BY <5>1 DEF a
          <6> QED BY <5>2, <6>1, JoinedAssociative
        <5> QED BY <3>2, <4>2, <5>3 DEF a
      <4>4. g[n] = {[record |-> Known(n), rest |-> w \o q]}
        BY <2>2, <3>2, <4>1, <4>3, JoinedIsList
      <4>5. g[n + 1] = UNION {{[record |-> With(s.record, f1, x.value), rest |-> x.rest] :
                                 x \in Read(f1, s.rest)} : s \in g[n]}
        <5>1. g[n + 1] = IF n + 1 = 0 THEN {[record |-> r0, rest |-> t]}
                ELSE UNION {{[record |-> With(s.record, fields[n + 1], x.value), rest |-> x.rest] :
                               x \in Read(fields[n + 1], s.rest)} : s \in g[(n + 1) - 1]}
          BY <1>3, <3>1, Zenon DEF IsReadLoop, m
        <5>2. n + 1 # 0
          BY <3>1
        <5> QED BY <3>1, <5>1, <5>2, Zenon DEF f1
      <4> DEFINE s == [record |-> Known(n), rest |-> w \o q]
                 x == [value |-> r[f1], rest |-> q]
                 Out(a, b) == [record |-> With(a.record, f1, b.value), rest |-> b.rest]
      <4>6. /\ s.record = Known(n) /\ s.rest = w \o q
            /\ x.value = r[f1] /\ x.rest = q
        OBVIOUS
      <4>7. g[n] = {s} /\ Read(f1, s.rest) = {x}
        BY <4>1, <4>4, <4>6
      <4> HIDE DEF s, x
      <4>8. Out(s, x) = [record |-> Known(n + 1), rest |-> q]
        <5>1. With(Known(n), f1, r[f1]) = Known(n + 1)
          BY <1>8, <2>2 DEF f1
        <5> QED BY <4>6, <5>1
      <4>9. g[n + 1] = UNION {{Out(a, b) : b \in Read(f1, a.rest)} : a \in {s}}
        BY <4>5, <4>7, Zenon
      <4> HIDE DEF Out
      <4>10. g[n + 1] = {Out(a, b) : a \in {s}, b \in {x}}
        BY <4>7, <4>9
      <4>11. g[n + 1] = {Out(s, x)}
        BY <4>10
      <4> QED BY <4>8, <4>11
    <3> QED BY <3>1, <3>2
  <2> HIDE DEF P
  <2>3. \A n \in 0..m : n \in P
    BY <1>1, <2>1, <2>2, EveryNumberUpTo
  <2> QED BY <2>3 DEF P
<1>11. g[m] = {[record |-> r, rest |-> <<>>]}
  <2>1. m \in 0..m /\ IsList(h[m]) /\ IsList(<<>>)
    BY <1>1, <1>6, ShortLists
  <2>2. t = h[m] \o <<>>
    BY <1>2, <2>1, JoinedWithNone
  <2> QED BY <1>9, <1>10, <2>1, <2>2
<1>12. ReadAll(r0, fields, t) = {r}
  <2> DEFINE p == [record |-> r, rest |-> <<>>]
  <2>1. p.record = r
    OBVIOUS
  <2> HIDE DEF p
  <2>2. ReadAll(r0, fields, t) = {a.record : a \in {p}}
    BY <1>3, <1>11 DEF p
  <2> QED BY <2>1, <2>2
<1>13. IsList(t)
  BY <1>1, <1>2, <1>6
<1> QED BY <1>12, <1>13 DEF t, r0

-----------------------------------------------------------------------------
(* Operations, trace entries and devices.                                  *)

LEMMA FieldLists ==
  /\ \A tag \in OpTags : IsList(OpFields(tag))
  /\ \A type : IsList(TraceFields(type))
  /\ IsList(NodeFields)
<1>1. ASSUME NEW tag \in OpTags
      PROVE  IsList(OpFields(tag))
  <2>1. \/ OpFields(tag) = <<>>
        \/ \E x : OpFields(tag) = <<x>>
        \/ \E x, y : OpFields(tag) = <<x, y>>
        \/ \E x, y, z : OpFields(tag) = <<x, y, z>>
    BY OpFieldsAre, Zenon DEF OpTags
  <2> QED BY <2>1, ShortLists, ListsOfTwo, ListsOfThree
<1>2. ASSUME NEW type
      PROVE  IsList(TraceFields(type))
  <2>1. TraceFields(type) \in {<<"len">>, <<"prefix">>, <<"in">>, <<"dest", "transport", "datagram">>,
                               <<"offset">>, <<"role", "epoch">>, <<"from", "len", "digest">>,
                               <<"digest">>, <<>>}
    BY DEF TraceFields
  <2> QED BY <2>1, ShortLists, ListsOfTwo, ListsOfThree
<1>3. IsList(NodeFields)
  <2>1. NodeFields \in Seq({"id", "pixels", "skew", "drift", "storage"})
    BY DEF NodeFields
  <2> QED BY <2>1, ListOfItsOwn DEF IsList
<1> QED BY <1>1, <1>2, <1>3

LEMMA OpBack ==
  ASSUME NEW op, IsOp(op)
  PROVE  IsList(OpToText(op)) /\ OpFromText(OpToText(op)) = {op}
<1> DEFINE fields == OpFields(op.tag)
           rest == WriteAll(fields, op)
           t == OpToText(op)
           known == [f \in {"tag"} |-> op[f]]
<1>1. op.tag \in OpTags /\ Filled(op, {"tag"}, fields) /\ IsList(fields)
  BY FieldLists DEF IsOp
<1>2. known = [tag |-> op.tag]
  OBVIOUS
<1>3. t = <<W(op.tag)>> \o rest
  BY DEF OpToText
<1> HIDE DEF fields, known
<1>4. IsList(rest) /\ ReadAll(known, fields, rest) = {op}
  BY <1>1, RecordBack DEF known
<1> HIDE DEF rest, t
<1>5. IsList(t) /\ t # <<>> /\ t[1] = W(op.tag) /\ Tail(t) = rest
  BY <1>3, <1>4, TokenFirst
<1>6. t[1][1] = "w" /\ t[1][2] = op.tag
  BY <1>5 DEF W
<1> DEFINE r == [value |-> op.tag, rest |-> rest]
<1>7. WordIn(OpTags, t) = {r}
  BY <1>1, <1>5, <1>6, Zenon DEF WordIn
<1>8. r.value = op.tag /\ r.rest = rest
  OBVIOUS
<1> HIDE DEF r
<1>9. OpFromText(t) = ReadAll([tag |-> r.value], OpFields(r.value), r.rest)
  BY <1>7 DEF OpFromText
<1> QED BY <1>2, <1>4, <1>5, <1>8, <1>9 DEF fields, t

(* The words a type of two words begins with. *)
Prefixed == {"op", "event", "action", "net_err", "store_err", "led_err"}

LEMMA TypeShape ==
  \A y \in TraceTypes :
    /\ IsList(y) /\ Len(y) \in {1, 2}
    /\ y[1] \in {"rx", "frame"} <=> Len(y) = 1
<1> SUFFICES ASSUME NEW y \in TraceTypes
             PROVE  /\ IsList(y) /\ Len(y) \in {1, 2}
                    /\ y[1] \in {"rx", "frame"} <=> Len(y) = 1
  OBVIOUS
<1>1. \/ y = <<"rx">> \/ y = <<"frame">>
      \/ \E a \in Prefixed : \E b : y = <<a, b>>
  BY DEF TraceTypes, Prefixed
<1>2. CASE y = <<"rx">> \/ y = <<"frame">>
  BY <1>2, ShortLists
<1>3. CASE \E a \in Prefixed : \E b : y = <<a, b>>
  <2>4. PICK a \in Prefixed : \E b : y = <<a, b>>
    BY <1>3
  <2>1. PICK b : y = <<a, b>>
    BY <2>4
  <2>2. IsList(y) /\ Len(y) = 2
    BY <2>1, ListsOfTwo
  <2>3. y[1] \notin {"rx", "frame"}
    BY <2>1 DEF Prefixed
  <2> QED BY <2>2, <2>3
<1> QED BY <1>1, <1>2, <1>3

LEMMA WordsAre ==
  ASSUME NEW v, IsList(v)
  PROVE  /\ IsList(Words(v)) /\ Len(Words(v)) = Len(v)
         /\ \A i \in 1..Len(v) : Words(v)[i] = W(v[i])
<1>1. Len(v) \in Nat /\ DOMAIN v = 1..Len(v)
  BY ListPlaces
<1>2. Words(v) = [i \in 1..Len(v) |-> W(v[i])]
  BY <1>1 DEF Words
<1> DEFINE m == Words(v)
<1> HIDE DEF m
<1>3. m = [i \in 1..Len(v) |-> m[i]] /\ \A i \in 1..Len(v) : m[i] = W(v[i])
  BY <1>2 DEF m
<1> QED BY <1>1, <1>3, ListByPlace DEF m

LEMMA TraceBack ==
  ASSUME NEW kind, IsKind(kind)
  PROVE  IsList(TraceToText(kind)) /\ TraceFromText(TraceToText(kind)) = {kind}
<1> DEFINE type == kind.type
           fields == TraceFields(type)
           rest == WriteAll(fields, kind)
           w == Words(type)
           t == TraceToText(kind)
           known == [f \in {"type"} |-> kind[f]]
<1>1. type \in TraceTypes /\ Filled(kind, {"type"}, fields) /\ IsList(fields)
  BY FieldLists DEF IsKind
<1>2. known = [type |-> type]
  OBVIOUS
<1>3. t = w \o rest
  BY DEF TraceToText
<1> HIDE DEF fields, known
<1>4. IsList(rest) /\ ReadAll(known, fields, rest) = {kind}
  BY <1>1, RecordBack DEF known
<1> HIDE DEF rest, t, type
<1>5. IsList(type) /\ Len(type) \in {1, 2} /\ (type[1] \in {"rx", "frame"} <=> Len(type) = 1)
  BY <1>1, TypeShape
<1>6. IsList(w) /\ Len(w) = Len(type) /\ \A i \in 1..Len(type) : w[i] = W(type[i])
  BY <1>5, WordsAre
<1> HIDE DEF w
<1>7. IsList(t) /\ Len(t) \in Nat /\ Len(type) <= Len(t)
  <2>1. IsList(t) /\ Len(t) = Len(w) + Len(rest) /\ Len(rest) \in Nat
    BY <1>3, <1>4, <1>6, JoinedIsList, JoinedPlaces, ListPlaces
  <2> QED BY <1>5, <1>6, <2>1
<1>8. SubSeq(t, 1, Len(type)) = w /\ SubSeq(t, Len(type) + 1, Len(t)) = rest
  BY <1>3, <1>4, <1>6, HeadAndRest
<1>9. \A i \in 1..Len(type) : t[i] = W(type[i])
  BY <1>3, <1>4, <1>6, JoinedPlaces
<1>10. ASSUME NEW y \in TraceTypes, Len(y) <= Len(t), Words(y) = SubSeq(t, 1, Len(y))
       PROVE  y = type
  <2> DEFINE u == Words(y)
  <2>1. IsList(y) /\ Len(y) \in {1, 2} /\ (y[1] \in {"rx", "frame"} <=> Len(y) = 1)
    BY TypeShape
  <2>2. \A i \in 1..Len(y) : u[i] = W(y[i])
    BY <2>1, WordsAre
  <2> HIDE DEF u
  <2>3. \A i \in 1..Len(y) : u[i] = t[i]
    <3>1. Len(y) \in 0..Len(t) /\ 1 \in Nat \ {0} /\ 1 <= Len(y) + 1
      BY <1>7, <1>10, <2>1
    <3>2. \A i \in 1..((Len(y) - 1) + 1) : SubSeq(t, 1, Len(y))[i] = t[(1 + i) - 1]
      BY <1>7, <3>1, PartOfList
    <3>3. \A i \in 1..Len(y) : i \in 1..((Len(y) - 1) + 1) /\ (1 + i) - 1 = i
      BY <2>1
    <3> QED BY <1>10, <3>2, <3>3 DEF u
  <2>4. \A i \in 1..Len(y) : i \in 1..Len(type) => y[i] = type[i]
    <3>1. \A a, b : W(a) = W(b) => a = b
      BY DEF W
    <3> QED BY <1>9, <2>2, <2>3, <3>1
  <2>5. y[1] = type[1]
    BY <1>5, <2>1, <2>4
  <2>6. Len(y) = Len(type)
    BY <1>5, <2>1, <2>5
  <2> QED BY <1>5, <2>1, <2>4, <2>6, SameLists
<1>11. Words(type) = SubSeq(t, 1, Len(type))
  BY <1>8 DEF w
<1> DEFINE Fit(y) == Len(y) <= Len(t) /\ Words(y) = SubSeq(t, 1, Len(y))
<1>12. {y \in TraceTypes : Fit(y)} = {type}
  <2>1. Fit(type)
    BY <1>7, <1>11
  <2>2. \A y \in TraceTypes : Fit(y) => y = type
    BY <1>10
  <2> HIDE DEF Fit
  <2> QED BY <1>1, <2>1, <2>2
<1>13. TraceFromText(t) = UNION {ReadAll([type |-> y], TraceFields(y), SubSeq(t, Len(y) + 1, Len(t))) :
                                   y \in {type}}
  BY <1>12, Zenon DEF TraceFromText
<1>14. TraceFromText(t) = ReadAll([type |-> type], TraceFields(type), SubSeq(t, Len(type) + 1, Len(t)))
  BY <1>13
<1>15. TraceFromText(t) = {kind}
  BY <1>2, <1>4, <1>8, <1>14 DEF fields
<1> QED BY <1>7, <1>15 DEF t

LEMMA NodeBack ==
  ASSUME NEW n, Filled(n, {}, NodeFields)
  PROVE  /\ IsList(WriteAll(NodeFields, n))
         /\ ReadAll(<<>>, NodeFields, WriteAll(NodeFields, n)) = {n}
<1>1. [f \in {} |-> n[f]] = <<>>
  OBVIOUS
<1>2. IsList(NodeFields)
  BY FieldLists
<1> QED BY <1>1, <1>2, RecordBack

-----------------------------------------------------------------------------
(* Runs: whatever is run, there is a report of it that can be written.     *)

IsEvent(e) == e = [at |-> e.at, node |-> e.node, kind |-> e.kind] /\ IsKind(e.kind)

IsTrace(t) == IsList(t) /\ \A i \in 1..Len(t) : IsEvent(t[i])

IsKinds(kinds) == IsList(kinds) /\ \A i \in 1..Len(kinds) : IsKind(kinds[i])

IsStrips(ids, frames) ==
  /\ frames = [id \in ids |-> frames[id]]
  /\ \A id \in ids : frames[id] = <<frames[id][1], frames[id][2]>>

IsInbox(ids, inbox) ==
  /\ inbox = [id \in ids |-> inbox[id]]
  /\ \A id \in ids : IsList(inbox[id])

RunParts ==
  {"now", "trace", "on", "cut", "joined", "inbox", "sent", "delivered", "partitioned",
   "unreachable", "frames"}

IsRun(ids, run) ==
  /\ DOMAIN run = RunParts
  /\ IsTrace(run.trace)
  /\ IsStrips(ids, run.frames)
  /\ IsInbox(ids, run.inbox)
  /\ run.on \subseteq ids

(* Kinds without fields, and those that a run makes with some. *)
LEMMA KindsMade ==
  /\ \A type \in TraceTypes : TraceFields(type) = <<>> => IsKind([type |-> type])
  /\ \A d : IsKind([type |-> <<"frame">>, digest |-> d])
  /\ \A f, l, d : IsKind([type |-> <<"rx">>, from |-> f, len |-> l, digest |-> d])
<1>1. ASSUME NEW type \in TraceTypes, TraceFields(type) = <<>>
      PROVE  IsKind([type |-> type])
  <2> DEFINE r == [type |-> type]
  <2>1. DOMAIN <<>> = {} /\ Range(<<>>) = {}
    BY DEF Range
  <2>2. r = [f \in {"type"} |-> r[f]] /\ r.type = type
    OBVIOUS
  <2> HIDE DEF r
  <2>3. {"type"} \cup {} = {"type"}
    OBVIOUS
  <2>4. Filled(r, {"type"}, <<>>)
    BY <2>1, <2>2, <2>3, Zenon DEF Filled
  <2> QED BY <1>1, <2>2, <2>4 DEF IsKind, r
<1>2. ASSUME NEW d
      PROVE  IsKind([type |-> <<"frame">>, digest |-> d])
  <2> DEFINE r == [type |-> <<"frame">>, digest |-> d]
             fields == <<"digest">>
  <2>1. TraceFields(<<"frame">>) = fields
    BY DEF TraceFields
  <2>2. DOMAIN fields = {1} /\ fields[1] = "digest"
    OBVIOUS
  <2> HIDE DEF fields
  <2>3. Range(fields) = {"digest"}
    BY <2>2 DEF Range
  <2>4. r = [f \in {"type"} \cup Range(fields) |-> r[f]] /\ r.type = <<"frame">>
    BY <2>3
  <2> HIDE DEF r
  <2>5. Fits("digest", r["digest"])
    BY DEF Fits, FieldType
  <2>6. Filled(r, {"type"}, fields)
    BY <2>2, <2>4, <2>5 DEF Filled
  <2>7. <<"frame">> \in TraceTypes
    BY DEF TraceTypes
  <2> QED BY <2>1, <2>4, <2>6, <2>7 DEF IsKind, r
<1>3. ASSUME NEW f, NEW l, NEW d
      PROVE  IsKind([type |-> <<"rx">>, from |-> f, len |-> l, digest |-> d])
  <2> DEFINE r == [type |-> <<"rx">>, from |-> f, len |-> l, digest |-> d]
             fields == <<"from", "len", "digest">>
  <2>1. TraceFields(<<"rx">>) = fields
    BY DEF TraceFields
  <2>2. /\ DOMAIN fields = {1, 2, 3}
        /\ fields[1] = "from" /\ fields[2] = "len" /\ fields[3] = "digest"
    OBVIOUS
  <2> HIDE DEF fields
  <2>3. Range(fields) = {"from", "len", "digest"}
    BY <2>2 DEF Range
  <2>4. r = [g \in {"type"} \cup Range(fields) |-> r[g]] /\ r.type = <<"rx">>
    BY <2>3
  <2> HIDE DEF r
  <2>5. \A g \in {"from", "len", "digest"} : Fits(g, r[g])
    BY DEF Fits, FieldType
  <2>6. Filled(r, {"type"}, fields)
    BY <2>2, <2>4, <2>5 DEF Filled
  <2>7. <<"rx">> \in TraceTypes
    BY DEF TraceTypes
  <2> QED BY <2>1, <2>4, <2>6, <2>7 DEF IsKind, r
<1> QED BY <1>1, <1>2, <1>3

LEMMA OneKind ==
  ASSUME NEW kind, IsKind(kind)
  PROVE  IsKinds(<<kind>>)
<1> DEFINE q == <<kind>>
<1>1. IsList(q) /\ Len(q) = 1 /\ q[1] = kind
  BY ShortLists
<1> HIDE DEF q
<1>2. \A i \in 1..Len(q) : i = 1
  BY <1>1
<1>3. IsKinds(q)
  BY <1>1, <1>2 DEF IsKinds
<1> QED BY <1>3 DEF q

LEMMA KindsJoined ==
  ASSUME NEW p, NEW q, IsKinds(p), IsKinds(q)
  PROVE  IsKinds(p \o q)
<1> DEFINE t == p \o q
<1>1. /\ IsList(t) /\ Len(t) = Len(p) + Len(q) /\ Len(p) \in Nat /\ Len(q) \in Nat
      /\ \A i \in 1..Len(p) : t[i] = p[i]
      /\ \A i \in 1..Len(q) : t[Len(p) + i] = q[i]
  BY JoinedIsList, JoinedPlaces, ListPlaces DEF IsKinds
<1> HIDE DEF t
<1>2. ASSUME NEW i \in 1..Len(t)
      PROVE  IsKind(t[i])
  <2>1. CASE i \in 1..Len(p)
    BY <1>1, <2>1 DEF IsKinds
  <2>2. CASE i \notin 1..Len(p)
    <3>1. i - Len(p) \in 1..Len(q) /\ Len(p) + (i - Len(p)) = i
      BY <1>1, <1>2, <2>2
    <3>2. t[Len(p) + (i - Len(p))] = q[i - Len(p)]
      BY <1>1, <3>1
    <3> QED BY <3>1, <3>2 DEF IsKinds
  <2> QED BY <2>1, <2>2
<1> QED BY <1>1, <1>2 DEF IsKinds, t

LEMMA CoreKinds == IsKinds(CoreActions)
<1>1. IsList(CoreActions) /\ \A kind \in Range(CoreActions) : IsKind(kind)
  BY RecordingAssumption, Zenon DEF IsList
<1> QED BY <1>1, ListPlaces DEF IsKinds

LEMMA TracedIsRun ==
  ASSUME NEW ids, NEW run, IsRun(ids, run), NEW node, NEW kinds, IsKinds(kinds)
  PROVE  IsRun(ids, Traced(run, node, kinds))
<1> DEFINE new == [i \in DOMAIN kinds |-> [at |-> run.now, node |-> node, kind |-> kinds[i]]]
           t == run.trace \o new
           s == Traced(run, node, kinds)
<1>1. Len(kinds) \in Nat /\ DOMAIN kinds = 1..Len(kinds)
  BY ListPlaces DEF IsKinds
<1>2. IsList(new) /\ Len(new) = Len(kinds) /\ \A i \in 1..Len(kinds) : IsEvent(new[i])
  <2>1. \A i \in 1..Len(kinds) : IsEvent(new[i])
    <3>1. ASSUME NEW i \in 1..Len(kinds)
          PROVE  IsEvent(new[i])
      <4> DEFINE e == [at |-> run.now, node |-> node, kind |-> kinds[i]]
      <4>1. e = [at |-> e.at, node |-> e.node, kind |-> e.kind] /\ e.kind = kinds[i] /\ new[i] = e
        BY <1>1
      <4> HIDE DEF e, new
      <4> QED BY <4>1 DEF IsEvent, IsKinds
    <3> QED BY <3>1
  <2>2. new = [i \in 1..Len(kinds) |-> new[i]]
    BY <1>1
  <2> HIDE DEF new
  <2> QED BY <1>1, <2>1, <2>2, ListByPlace
<1> HIDE DEF new
<1>3. IsTrace(t)
  <2> DEFINE p == run.trace
  <2>1. IsList(p) /\ \A i \in 1..Len(p) : IsEvent(p[i])
    BY DEF IsRun, IsTrace
  <2> HIDE DEF p
  <2>2. /\ IsList(t) /\ Len(t) = Len(p) + Len(new) /\ Len(p) \in Nat
        /\ \A i \in 1..Len(p) : t[i] = p[i]
        /\ \A i \in 1..Len(new) : t[Len(p) + i] = new[i]
    <3>1. t = p \o new
      BY DEF p
    <3> HIDE DEF t
    <3>2. IsList(p \o new) /\ Len(p) \in Nat
      BY <1>2, <2>1, JoinedIsList, ListPlaces
    <3>3. /\ Len(p \o new) = Len(p) + Len(new)
          /\ \A i \in 1..Len(p) : (p \o new)[i] = p[i]
          /\ \A i \in 1..Len(new) : (p \o new)[Len(p) + i] = new[i]
      BY <1>2, <2>1, JoinedPlaces
    <3> QED BY <3>1, <3>2, <3>3
  <2> HIDE DEF t
  <2>3. ASSUME NEW i \in 1..Len(t)
        PROVE  IsEvent(t[i])
    <3>1. CASE i \in 1..Len(p)
      BY <2>1, <2>2, <3>1
    <3>2. CASE i \notin 1..Len(p)
      <4>1. i - Len(p) \in 1..Len(new) /\ Len(p) + (i - Len(p)) = i
        BY <1>1, <1>2, <2>2, <2>3, <3>2
      <4>2. t[Len(p) + (i - Len(p))] = new[i - Len(p)]
        BY <2>2, <4>1
      <4> QED BY <1>2, <4>1, <4>2
    <3> QED BY <3>1, <3>2
  <2> QED BY <2>2, <2>3 DEF IsTrace
<1>4. s = [run EXCEPT !.trace = t]
  BY Zenon DEF Traced, new
<1> HIDE DEF t
<1>5. /\ DOMAIN s = DOMAIN run /\ s.frames = run.frames /\ s.inbox = run.inbox /\ s.on = run.on
      /\ "trace" \in DOMAIN run => s.trace = t
  BY <1>4
<1> HIDE DEF s
<1>6. IsRun(ids, s)
  BY <1>3, <1>5 DEF IsRun, RunParts
<1> QED BY <1>6 DEF s

LEMMA RejectionKinds ==
  /\ IsKind([type |-> <<"net_err", "payload_too_large">>])
  /\ IsKind([type |-> <<"net_err", "node_down">>])
  /\ IsKind([type |-> <<"led_err", "powered_off">>])
  /\ IsKind([type |-> <<"store_err", "value_too_long">>])
  /\ IsKind([type |-> <<"event", "tick">>])
  /\ \A tag \in OpTags : IsKind([type |-> <<"op", tag>>])
<1>1. /\ <<"net_err", "payload_too_large">> \in TraceTypes
      /\ <<"net_err", "node_down">> \in TraceTypes
      /\ <<"led_err", "powered_off">> \in TraceTypes
      /\ <<"store_err", "value_too_long">> \in TraceTypes
      /\ <<"event", "tick">> \in TraceTypes
      /\ \A tag \in OpTags : <<"op", tag>> \in TraceTypes
  BY DEF TraceTypes, NetErrors, StoreErrors, LedErrors
<1>2. \A type : type \notin {<<"event", "datagram">>, <<"event", "peer_up">>, <<"event", "peer_down">>,
                             <<"action", "set_timer">>, <<"action", "send">>,
                             <<"action", "discipline">>, <<"action", "role">>, <<"rx">>, <<"frame">>}
                => TraceFields(type) = <<>>
  BY DEF TraceFields
<1>3. /\ TraceFields(<<"net_err", "payload_too_large">>) = <<>>
      /\ TraceFields(<<"net_err", "node_down">>) = <<>>
      /\ TraceFields(<<"led_err", "powered_off">>) = <<>>
      /\ TraceFields(<<"store_err", "value_too_long">>) = <<>>
      /\ TraceFields(<<"event", "tick">>) = <<>>
      /\ \A tag \in OpTags : TraceFields(<<"op", tag>>) = <<>>
  BY <1>2
<1> QED BY <1>1, <1>3, KindsMade

LEMMA StartIsRun ==
  ASSUME NEW sc
  PROVE  IsRun(Ids(sc), StartRun(sc))
<1> DEFINE s == StartRun(sc)
           ids == Ids(sc)
<1>1. /\ DOMAIN s = RunParts /\ s.trace = <<>> /\ s.frames = [id \in ids |-> NewLed]
      /\ s.inbox = [id \in ids |-> <<>>] /\ s.on = ids
  BY DEF StartRun, RunParts
<1> HIDE DEF s, ids
<1>2. IsTrace(s.trace)
  <2>1. 1..0 = {}
    OBVIOUS
  <2> QED BY <1>1, <2>1, ShortLists DEF IsTrace
<1>3. IsStrips(ids, s.frames)
  BY <1>1 DEF IsStrips, NewLed
<1>4. IsInbox(ids, s.inbox)
  <2>1. s.inbox = [id \in ids |-> s.inbox[id]] /\ \A id \in ids : s.inbox[id] = <<>>
    BY <1>1
  <2> QED BY <2>1, ShortLists DEF IsInbox
<1> QED BY <1>1, <1>2, <1>3, <1>4 DEF IsRun, s, ids

LEMMA TransmittedIsRun ==
  ASSUME NEW ids, NEW run, IsRun(ids, run), NEW op
  PROVE  IsRun(ids, Transmitted(run, op))
<1> DEFINE s == Transmitted(run, op)
<1> DEFINE targets == IF op.tag = "send" THEN {op.to} \cap DOMAIN run.frames
                      ELSE {n \in DOMAIN run.frames \ {op.from} : <<n, op.group>> \in run.joined}
           open == {n \in targets : {op.from, n} \notin run.cut}
           packet == [from |-> op.from, bytes |-> op.bytes]
           reached == open \cap run.on
           a == run.sent + 1
           b == run.partitioned + Cardinality(targets \ open)
           c == run.unreachable + (IF targets = {} THEN 1 ELSE Cardinality(open \ run.on))
<1>1. s = [run EXCEPT
             !.sent = a, !.partitioned = b, !.unreachable = c,
             !.inbox = [n \in DOMAIN run.inbox |->
                          IF n \in reached THEN Append(run.inbox[n], packet) ELSE run.inbox[n]]]
  BY Zenon DEF Transmitted
<1> HIDE DEF packet, reached, a, b, c
<1> HIDE DEF s
<1> DEFINE box == [n \in DOMAIN run.inbox |->
                     IF n \in reached THEN Append(run.inbox[n], packet) ELSE run.inbox[n]]
<1>2. IsInbox(ids, box)
  <2>1. DOMAIN run.inbox = ids /\ \A n \in ids : IsList(run.inbox[n])
    BY DEF IsRun, IsInbox
  <2>2. \A n \in ids : box[n] = Append(run.inbox[n], packet) \/ box[n] = run.inbox[n]
    BY <2>1
  <2>3. box = [n \in ids |-> box[n]]
    BY <2>1
  <2> HIDE DEF box
  <2>4. ASSUME NEW n \in ids
        PROVE  IsList(box[n])
    <3> DEFINE q == run.inbox[n]
    <3>1. IsList(q)
      BY <2>1
    <3> HIDE DEF q
    <3>2. IsList(Append(q, packet))
      BY <3>1, AppendedList
    <3> QED BY <2>2, <3>1, <3>2 DEF q
  <2> QED BY <2>3, <2>4 DEF IsInbox
<1> HIDE DEF box
<1>3. s = [run EXCEPT !.sent = a, !.partitioned = b, !.unreachable = c, !.inbox = box]
  BY <1>1, Zenon DEF box
<1>4. /\ DOMAIN s = DOMAIN run /\ s.trace = run.trace /\ s.frames = run.frames /\ s.on = run.on
      /\ "inbox" \in DOMAIN run => s.inbox = box
  BY <1>3
<1>5. IsRun(ids, s)
  BY <1>2, <1>4 DEF IsRun, RunParts
<1> QED BY <1>5 DEF s

LEMMA NodeSendIsRun ==
  ASSUME NEW ids, NEW run, IsRun(ids, run), NEW op
  PROVE  IsRun(ids, NodeSend(run, op))
<1>1. \/ NodeSend(run, op) = run
      \/ NodeSend(run, op) = Traced(run, op.from, <<[type |-> <<"net_err", "payload_too_large">>]>>)
      \/ NodeSend(run, op) = Traced(run, op.from, <<[type |-> <<"net_err", "node_down">>]>>)
      \/ NodeSend(run, op) = Transmitted(run, op)
  BY DEF NodeSend
<1>2. /\ IsKinds(<<[type |-> <<"net_err", "payload_too_large">>]>>)
      /\ IsKinds(<<[type |-> <<"net_err", "node_down">>]>>)
  BY RejectionKinds, OneKind
<1> QED BY <1>1, <1>2, TracedIsRun, TransmittedIsRun

LEMMA NodePresentIsRun ==
  ASSUME NEW ids, NEW run, IsRun(ids, run), NEW op
  PROVE  IsRun(ids, NodePresent(run, op))
<1> DEFINE led == Presented(run.frames[op.node], run.now, op.level)
           s == [run EXCEPT !.frames[op.node] = led]
           f == [run.frames EXCEPT ![op.node] = led]
<1>1. \/ NodePresent(run, op) = run
      \/ NodePresent(run, op) = Traced(s, op.node, <<[type |-> <<"frame">>, digest |-> led[2]]>>)
      \/ NodePresent(run, op) = Traced(run, op.node, <<[type |-> <<"led_err", "powered_off">>]>>)
  BY DEF NodePresent
<1>2. led = <<led[1], led[2]>>
  BY DEF Presented
<1> HIDE DEF led
<1>3. IsStrips(ids, f)
  <2>1. run.frames = [id \in ids |-> run.frames[id]]
    BY DEF IsRun, IsStrips
  <2> DEFINE g == run.frames
  <2>2. \A id \in ids : g[id] = <<g[id][1], g[id][2]>>
    BY DEF IsRun, IsStrips
  <2>3. DOMAIN g = ids
    BY <2>1
  <2> HIDE DEF g
  <2>4. f = [id \in ids |-> IF id = op.node THEN led ELSE g[id]]
    BY <2>3 DEF g
  <2>5. f = [id \in ids |-> f[id]] /\ \A id \in ids : f[id] = led \/ f[id] = g[id]
    BY <2>4
  <2> HIDE DEF f
  <2>6. \A id \in ids : f[id] = <<f[id][1], f[id][2]>>
    BY <1>2, <2>2, <2>5
  <2> QED BY <2>5, <2>6 DEF IsStrips
<1>4. s = [run EXCEPT !.frames = f]
  OBVIOUS
<1> HIDE DEF f
<1>5. /\ DOMAIN s = DOMAIN run /\ s.trace = run.trace /\ s.inbox = run.inbox /\ s.on = run.on
      /\ "frames" \in DOMAIN run => s.frames = f
  BY <1>4
<1> HIDE DEF s
<1>6. IsRun(ids, s)
  BY <1>3, <1>5 DEF IsRun, RunParts
<1>7. /\ IsKinds(<<[type |-> <<"frame">>, digest |-> led[2]]>>)
      /\ IsKinds(<<[type |-> <<"led_err", "powered_off">>]>>)
  BY KindsMade, RejectionKinds, OneKind
<1> QED BY <1>1, <1>6, <1>7, TracedIsRun DEF s

LEMMA ApplyIsRun ==
  ASSUME NEW ids, NEW before, IsRun(ids, before), NEW op, op.tag \in OpTags
  PROVE  IsRun(ids, Apply(before, op))
<1> DEFINE run == Traced(before, OpNode(op), <<[type |-> <<"op", op.tag>>]>>)
           all == DOMAIN run.frames
           s == Apply(before, op)
           told == <<[type |-> <<"event", "tick">>]>>
<1>1. IsRun(ids, run)
  BY RejectionKinds, OneKind, TracedIsRun
<1> DEFINE joined == [run EXCEPT !.joined = @ \cup {<<op.node, op.group>>}]
           down == Traced(run, op.node, <<[type |-> <<"net_err", "node_down">>]>>)
           killed == [run EXCEPT !.on = @ \ {op.node}, !.inbox[op.node] = <<>>,
                                 !.unreachable = @ + Len(run.inbox[op.node])]
           revived == [run EXCEPT !.on = @ \cup ({op.node} \cap all)]
           parted == [run EXCEPT !.cut = @ \cup {{op.a, op.b}}]
           healed == [run EXCEPT !.cut = @ \ {{op.a, op.b}}]
           whole == [run EXCEPT !.cut = {}]
           split == [run EXCEPT !.cut = @ \cup {{op.left[i], op.right[j]} :
                                                   i \in DOMAIN op.left, j \in DOMAIN op.right}]
           refused == Traced(run, op.node, <<[type |-> <<"store_err", "value_too_long">>]>>)
<1>2. s = CASE op.tag = "tick" /\ op.node \in run.on -> Traced(run, op.node, told \o CoreActions)
            [] op.tag \in {"send", "multicast"} -> NodeSend(run, op)
            [] op.tag = "join" /\ op.node \in run.on -> joined
            [] op.tag = "join" /\ op.node \in all \ run.on -> down
            [] op.tag = "kill" /\ op.node \in all -> killed
            [] op.tag = "revive" -> revived
            [] op.tag = "partition" -> parted
            [] op.tag = "heal" -> healed
            [] op.tag = "heal_all" -> whole
            [] op.tag = "split" -> split
            [] op.tag = "present" -> NodePresent(run, op)
            [] op.tag = "store" /\ op.node \in all /\ Len(op.value) > MaxValueLength -> refused
            [] OTHER -> run
  BY DEF Apply
<1>3. all = ids
  BY <1>1 DEF IsRun, IsStrips
<1> HIDE DEF run, all, s, told, joined, down, killed, revived, parted, healed, whole, split, refused
<1>3a. s \in {Traced(run, op.node, told \o CoreActions), NodeSend(run, op), joined, down, killed,
              revived, parted, healed, whole, split, NodePresent(run, op), refused, run}
  BY <1>2
<1>4. CASE s = Traced(run, op.node, told \o CoreActions)
  <2>1. IsKinds(told)
    BY RejectionKinds, OneKind DEF told
  <2>2. IsKinds(told \o CoreActions)
    BY <2>1, CoreKinds, KindsJoined
  <2> QED BY <1>1, <1>4, <2>2, TracedIsRun DEF s
<1>5. CASE s = NodeSend(run, op)
  BY <1>1, <1>5, NodeSendIsRun DEF s
<1>6. CASE s = joined
  <2>1. /\ DOMAIN s = DOMAIN run /\ s.trace = run.trace /\ s.frames = run.frames
        /\ s.inbox = run.inbox /\ s.on = run.on
    BY <1>6 DEF joined
  <2> QED BY <1>1, <2>1 DEF s, IsRun
<1>7. CASE s = down
  BY <1>1, <1>7, RejectionKinds, OneKind, TracedIsRun DEF s, down
<1>8. CASE s = killed
  <2> DEFINE box == [run.inbox EXCEPT ![op.node] = <<>>]
             on == run.on \ {op.node}
             lost == run.unreachable + Len(run.inbox[op.node])
  <2>1. IsInbox(ids, box)
    <3> DEFINE b == run.inbox
    <3>1. b = [id \in ids |-> b[id]] /\ \A id \in ids : IsList(b[id])
      BY <1>1 DEF IsRun, IsInbox
    <3> HIDE DEF b
    <3>2. box = [id \in ids |-> IF id = op.node THEN <<>> ELSE b[id]]
      BY <3>1 DEF b
    <3>3. box = [id \in ids |-> box[id]] /\ \A id \in ids : box[id] = <<>> \/ box[id] = b[id]
      BY <3>2
    <3> HIDE DEF box
    <3> QED BY <3>1, <3>3, ShortLists DEF IsInbox
  <2>2. on \subseteq ids
    BY <1>1 DEF IsRun
  <2>3. s = [run EXCEPT !.on = on, !.inbox = box, !.unreachable = lost]
    BY <1>8 DEF killed
  <2> HIDE DEF on, box, lost
  <2>4. /\ DOMAIN s = DOMAIN run /\ s.trace = run.trace /\ s.frames = run.frames
        /\ "inbox" \in DOMAIN run => s.inbox = box
        /\ "on" \in DOMAIN run => s.on = on
    BY <2>3
  <2> QED BY <1>1, <2>1, <2>2, <2>4 DEF s, IsRun, RunParts
<1>9. CASE s = revived
  <2>1. /\ DOMAIN s = DOMAIN run /\ s.trace = run.trace /\ s.frames = run.frames
        /\ s.inbox = run.inbox
        /\ "on" \in DOMAIN run => s.on = run.on \cup ({op.node} \cap all)
    BY <1>9 DEF revived
  <2> QED BY <1>1, <1>3, <2>1 DEF s, IsRun, RunParts
<1>10. CASE s \in {parted, healed, whole, split}
  <2>1. /\ DOMAIN s = DOMAIN run /\ s.trace = run.trace /\ s.frames = run.frames
        /\ s.inbox = run.inbox /\ s.on = run.on
    <3>1. CASE s = parted
      BY <3>1 DEF parted
    <3>2. CASE s = healed
      BY <3>2 DEF healed
    <3>3. CASE s = whole
      BY <3>3 DEF whole
    <3>4. CASE s = split
      BY <3>4 DEF split
    <3> QED BY <1>10, <3>1, <3>2, <3>3, <3>4
  <2> QED BY <1>1, <2>1 DEF s, IsRun
<1>11. CASE s = NodePresent(run, op)
  BY <1>1, <1>11, NodePresentIsRun DEF s
<1>12. CASE s = refused
  BY <1>1, <1>12, RejectionKinds, OneKind, TracedIsRun DEF s, refused
<1>13. CASE s = run
  BY <1>1, <1>13 DEF s
<1> QED BY <1>3a, <1>4, <1>5, <1>6, <1>7, <1>8, <1>9, <1>10, <1>11, <1>12, <1>13

LEMMA ReceivedIsRun ==
  ASSUME NEW ids, NEW run, IsRun(ids, run), NEW node, NEW packet
  PROVE  IsRun(ids, Received(run, node, packet))
<1> DEFINE s == [run EXCEPT !.delivered = @ + 1]
           rx == [type |-> <<"rx">>, from |-> packet.from, len |-> Len(packet.bytes),
                  digest |-> DigestOf(packet.bytes)]
<1>1. Received(run, node, packet) = Traced(s, node, <<rx>> \o CoreActions)
  BY DEF Received
<1>2. /\ DOMAIN s = DOMAIN run /\ s.trace = run.trace /\ s.frames = run.frames
      /\ s.inbox = run.inbox /\ s.on = run.on
  OBVIOUS
<1>3. IsKind(rx)
  BY KindsMade
<1> HIDE DEF s, rx
<1>4. IsRun(ids, s)
  BY <1>2 DEF IsRun
<1>5. IsKinds(<<rx>> \o CoreActions)
  BY <1>3, OneKind, CoreKinds, KindsJoined
<1> QED BY <1>1, <1>4, <1>5, TracedIsRun

(* What is waiting in the inboxes of a run. *)
Waiting(run) == UNION {{n} \X DOMAIN run.inbox[n] : n \in run.on}

LEMMA WaitingIsFinite ==
  ASSUME NEW ids, IsFiniteSet(ids), NEW run, IsRun(ids, run)
  PROVE  Cardinality(Waiting(run)) \in Nat
<1> DEFINE box == run.inbox
           part(n) == {n} \X DOMAIN box[n]
           parts == {part(n) : n \in run.on}
<1>1. run.on \subseteq ids /\ \A n \in ids : IsList(box[n])
  BY DEF IsRun, IsInbox
<1>2. IsFiniteSet(run.on)
  BY <1>1, FS_Subset
<1>3. Waiting(run) = UNION parts
  BY DEF Waiting
<1> HIDE DEF box
<1>4. ASSUME NEW n \in run.on
      PROVE  IsFiniteSet(part(n))
  <2> DEFINE m == Len(box[n])
  <2>1. IsList(box[n])
    BY <1>1
  <2>2. m \in Nat /\ DOMAIN box[n] = 1..m
    BY <2>1, ListPlaces
  <2> HIDE DEF m
  <2>3. IsFiniteSet(1..m)
    BY <2>2, FS_Interval
  <2>4. IsFiniteSet({n})
    BY FS_Singleton
  <2> QED BY <2>2, <2>3, <2>4, FS_Product
<1>5. IsFiniteSet(parts)
  <2> HIDE DEF part
  <2> DEFINE f == [n \in run.on |-> part(n)]
  <2>1. f \in Surjection(run.on, parts)
    BY DEF Surjection
  <2> QED BY <1>2, <2>1, FS_Surjection
<1>6. \A p \in parts : IsFiniteSet(p)
  <2> HIDE DEF part
  <2> QED BY <1>4
<1>7. IsFiniteSet(UNION parts)
  <2> HIDE DEF parts
  <2> QED BY <1>5, <1>6, FS_UNION
<1> QED BY <1>3, <1>7, FS_CardinalityType

(* Draining the sockets, packet by packet, in some order. *)
IsSettleLoop(h, run, order, m) ==
  h = [k \in 0..m |->
         IF k = 0 THEN [run EXCEPT !.inbox = [n \in DOMAIN @ |-> <<>>]]
         ELSE Received(h[k - 1], order[k][1], run.inbox[order[k][1]][order[k][2]])]

LEMMA SettleLoop ==
  ASSUME NEW run, Cardinality(Waiting(run)) \in Nat
  PROVE  \E h, order : /\ IsSettleLoop(h, run, order, Cardinality(Waiting(run)))
                       /\ Settle(run) = h[Cardinality(Waiting(run))]
<1> DEFINE m == Cardinality(Waiting(run))
           order == InOrder(Waiting(run), LAMBDA x, y : x[1] < y[1] \/ (x[1] = y[1] /\ x[2] < y[2]))
           base == [run EXCEPT !.inbox = [n \in DOMAIN @ |-> <<>>]]
           Step(s, k) == Received(s, order[k][1], run.inbox[order[k][1]][order[k][2]])
           Loop(h, k) == h = [n \in 0..k |-> IF n = 0 THEN base ELSE Step(h[n - 1], n)]
           Some == {k \in Nat : \E h : Loop(h, k)}
<1>1. m \in Nat
  OBVIOUS
<1>6. Settle(run) = (CHOOSE h : Loop(h, m))[m]
  BY Zenon DEF Settle, Waiting
<1> HIDE DEF m, base, order, Step
<1>2. Loop([n \in 0..0 |-> base], 0)
  OBVIOUS
<1>3. ASSUME NEW k \in Nat, NEW h, Loop(h, k)
      PROVE  \E g : Loop(g, k + 1)
  <2> DEFINE g == [n \in 0..(k + 1) |-> IF n = 0 THEN base ELSE Step(h[n - 1], n)]
  <2>1. \A n \in 0..k : g[n] = h[n]
    BY <1>3
  <2>2. \A n \in 0..(k + 1) : n # 0 => n - 1 \in 0..k
    OBVIOUS
  <2>3. \A n \in 0..(k + 1) : n # 0 => Step(h[n - 1], n) = Step(g[n - 1], n)
    <3> HIDE DEF g
    <3> QED BY <2>1, <2>2
  <2>4. Loop(g, k + 1)
    BY <2>3, Zenon
  <2> QED BY <2>4, Zenon
<1>4. 0 \in Some /\ \A k \in Nat : k \in Some => k + 1 \in Some
  <2>1. \E h : Loop(h, 0)
    BY <1>2, Zenon
  <2> HIDE DEF Loop
  <2> QED BY <1>3, <2>1
<1>5. \E h : Loop(h, m)
  <2>1. \A k \in Nat : k \in Some
    <3> HIDE DEF Some
    <3> QED BY <1>4, EveryNumber
  <2> HIDE DEF Loop
  <2> QED BY <1>1, <2>1
<1> DEFINE h == CHOOSE g : Loop(g, m)
<1>7. Loop(h, m)
  <2> HIDE DEF Loop
  <2> QED BY <1>5, Zenon
<1> HIDE DEF h
<1>8. IsSettleLoop(h, run, order, m)
  BY <1>7, Zenon DEF IsSettleLoop, base, Step
<1> QED BY <1>6, <1>8, Zenon DEF h, m

LEMMA SettleIsRun ==
  ASSUME NEW ids, IsFiniteSet(ids), NEW run, IsRun(ids, run)
  PROVE  IsRun(ids, Settle(run))
<1> DEFINE m == Cardinality(Waiting(run))
<1>1. m \in Nat
  BY WaitingIsFinite
<1>2. PICK h, order : IsSettleLoop(h, run, order, m) /\ Settle(run) = h[m]
  BY <1>1, SettleLoop
<1> HIDE DEF m
<1> DEFINE P == {k \in 0..m : IsRun(ids, h[k])}
           box == [n \in DOMAIN run.inbox |-> <<>>]
           base == [run EXCEPT !.inbox = [n \in DOMAIN @ |-> <<>>]]
<1>3. \A k \in 0..m : h[k] = IF k = 0 THEN base
        ELSE Received(h[k - 1], order[k][1], run.inbox[order[k][1]][order[k][2]])
  BY <1>2, Zenon DEF IsSettleLoop
<1>4. IsRun(ids, base)
  <2>1. IsInbox(ids, box)
    <3>1. DOMAIN run.inbox = ids
      BY DEF IsRun, IsInbox
    <3>2. box = [n \in ids |-> <<>>]
      BY <3>1
    <3>3. box = [n \in ids |-> box[n]] /\ \A n \in ids : box[n] = <<>>
      BY <3>2
    <3> HIDE DEF box
    <3> QED BY <3>3, ShortLists DEF IsInbox
  <2>2. base = [run EXCEPT !.inbox = box]
    OBVIOUS
  <2> HIDE DEF box
  <2>3. /\ DOMAIN base = DOMAIN run /\ base.trace = run.trace /\ base.frames = run.frames
        /\ base.on = run.on
        /\ "inbox" \in DOMAIN run => base.inbox = box
    BY <2>2
  <2> HIDE DEF base
  <2> QED BY <2>1, <2>3 DEF IsRun, RunParts
<1> HIDE DEF base
<1>5. 0 \in P
  <2>1. 0 \in 0..m
    BY <1>1
  <2> QED BY <1>3, <1>4, <2>1
<1>6. ASSUME NEW k \in 0..m, k \in P, k + 1 <= m
      PROVE  k + 1 \in P
  <2>1. k + 1 \in 0..m /\ k + 1 # 0 /\ (k + 1) - 1 = k
    BY <1>1, <1>6
  <2>2. h[k + 1] = Received(h[k], order[k + 1][1], run.inbox[order[k + 1][1]][order[k + 1][2]])
    BY <1>3, <2>1
  <2>3. IsRun(ids, h[k + 1])
    BY <1>6, <2>2, ReceivedIsRun
  <2> QED BY <2>1, <2>3
<1> HIDE DEF P
<1>7. \A k \in 0..m : k \in P
  BY <1>1, <1>5, <1>6, EveryNumberUpTo
<1>8. m \in 0..m
  BY <1>1
<1> QED BY <1>2, <1>7, <1>8 DEF P

LEMMA DueIsRun ==
  ASSUME NEW ids, IsFiniteSet(ids), NEW run, IsRun(ids, run), NEW s, s.op.tag \in OpTags
  PROVE  IsRun(ids, Due(run, s))
<1> DEFINE o == s.op
           r == Settle(run)
           t == [r EXCEPT !.now = s.at]
<1>1. Due(run, s) = Apply(t, o) \/ Due(run, s) = Apply(run, o)
  BY DEF Due
<1>2. IsRun(ids, r)
  BY SettleIsRun
<1> HIDE DEF r
<1>3. /\ DOMAIN t = DOMAIN r /\ t.trace = r.trace /\ t.frames = r.frames
      /\ t.inbox = r.inbox /\ t.on = r.on
  OBVIOUS
<1> HIDE DEF t
<1>4. IsRun(ids, t)
  BY <1>2, <1>3 DEF IsRun
<1>5. o.tag \in OpTags
  OBVIOUS
<1> HIDE DEF o
<1> QED BY <1>1, <1>4, <1>5, ApplyIsRun

IsRunLoop(h, sc) ==
  h = [n \in 0..Len(sc.script) |->
         IF n = 0 THEN StartRun(sc)
         ELSE IF sc.script[n].at > sc.duration THEN h[n - 1]
         ELSE Due(h[n - 1], sc.script[n])]

LEMMA RunLoop ==
  ASSUME NEW sc, Len(sc.script) \in Nat
  PROVE  \E h : /\ IsRunLoop(h, sc)
                /\ LET end == Settle(h[Len(sc.script)])
                   IN  RunOf(sc) = [trace |-> end.trace, end |-> sc.duration,
                                    stats |-> <<end.sent, end.delivered, 0, end.partitioned,
                                                end.unreachable, 0, 0>>,
                                    frames |-> end.frames]
<1> DEFINE m == Len(sc.script)
           base == StartRun(sc)
           Step(r, n) == IF sc.script[n].at > sc.duration THEN r ELSE Due(r, sc.script[n])
           Loop(h, k) == h = [n \in 0..k |-> IF n = 0 THEN base ELSE Step(h[n - 1], n)]
           Some == {k \in Nat : \E h : Loop(h, k)}
           h == CHOOSE g : Loop(g, m)
           end == Settle(h[m])
<1>1. m \in Nat
  OBVIOUS
<1>6. RunOf(sc) = [trace |-> end.trace, end |-> sc.duration,
                   stats |-> <<end.sent, end.delivered, 0, end.partitioned, end.unreachable, 0, 0>>,
                   frames |-> end.frames]
  BY Zenon DEF RunOf
<1> HIDE DEF m, base, Step, h, end
<1>2. Loop([n \in 0..0 |-> base], 0)
  OBVIOUS
<1>3. ASSUME NEW k \in Nat, NEW f, Loop(f, k)
      PROVE  \E g : Loop(g, k + 1)
  <2> DEFINE g == [n \in 0..(k + 1) |-> IF n = 0 THEN base ELSE Step(f[n - 1], n)]
  <2>1. \A n \in 0..k : g[n] = f[n]
    BY <1>3
  <2>2. \A n \in 0..(k + 1) : n # 0 => n - 1 \in 0..k
    OBVIOUS
  <2>3. \A n \in 0..(k + 1) : n # 0 => Step(f[n - 1], n) = Step(g[n - 1], n)
    <3> HIDE DEF g
    <3> QED BY <2>1, <2>2
  <2>4. Loop(g, k + 1)
    BY <2>3, Zenon
  <2> QED BY <2>4, Zenon
<1>4. 0 \in Some /\ \A k \in Nat : k \in Some => k + 1 \in Some
  <2>1. \E f : Loop(f, 0)
    BY <1>2, Zenon
  <2> HIDE DEF Loop
  <2> QED BY <1>3, <2>1
<1>5. \E f : Loop(f, m)
  <2>1. \A k \in Nat : k \in Some
    <3> HIDE DEF Some
    <3> QED BY <1>4, EveryNumber
  <2> HIDE DEF Loop
  <2> QED BY <1>1, <2>1
<1>7. Loop(h, m)
  <2> HIDE DEF Loop
  <2> QED BY <1>5, Zenon DEF h
<1>8. IsRunLoop(h, sc)
  BY <1>7, Zenon DEF IsRunLoop, base, Step, m
<1> QED BY <1>6, <1>8, Zenon DEF end, m

(* A report with a list of events, and with the strips of the devices. *)
IsReport(rep) ==
  /\ rep = [trace |-> rep.trace, end |-> rep.end, stats |-> rep.stats, frames |-> rep.frames]
  /\ IsTrace(rep.trace)
  /\ IsList(rep.stats) /\ Len(rep.stats) = 7
  /\ IsStrips(DOMAIN rep.frames, rep.frames)
  /\ IsFiniteSet(DOMAIN rep.frames) /\ DOMAIN rep.frames \subseteq Nat

LEMMA RunIsReport ==
  ASSUME NEW scenario, IsScenario(scenario)
  PROVE  IsReport(Run(scenario)) /\ Run(scenario).end = scenario.duration
<1> DEFINE sc == Normalise(scenario)
           m == Len(sc.script)
           ids == Ids(sc)
<1>1. IsScenario(sc)
  BY NormalForm
<1>2. sc.duration = scenario.duration
  <2>1. scenario = [seed |-> scenario.seed, duration |-> scenario.duration,
                    nodes |-> scenario.nodes, faults |-> scenario.faults,
                    script |-> scenario.script]
    BY ScenarioParts
  <2>2. \A s : [scenario EXCEPT !.script = s].duration = scenario.duration
    BY <2>1
  <2> QED BY <2>2, Normalised
<1> HIDE DEF sc
<1>3. /\ IsList(sc.nodes) /\ IsList(sc.script)
      /\ \A i \in DOMAIN sc.nodes : sc.nodes[i].id \in Nat
      /\ \A i \in DOMAIN sc.script : IsEntry(sc.script[i])
  BY <1>1, ScenarioParts
<1>4. m \in Nat /\ \A i \in 1..m : sc.script[i].op.tag \in OpTags
  BY <1>3, ListPlaces DEF IsEntry, IsOp
<1>5. IsFiniteSet(ids) /\ ids \subseteq Nat
  <2> DEFINE n == Len(sc.nodes)
             f == [i \in 1..n |-> sc.nodes[i].id]
  <2>1. n \in Nat /\ DOMAIN sc.nodes = 1..n
    BY <1>3, ListPlaces
  <2>2. ids = {sc.nodes[i].id : i \in 1..n}
    BY <2>1 DEF Ids
  <2> HIDE DEF n
  <2>3. f \in Surjection(1..n, ids)
    BY <2>2 DEF Surjection
  <2>4. IsFiniteSet(1..n)
    BY <2>1, FS_Interval
  <2> HIDE DEF f, ids
  <2>5. IsFiniteSet(ids)
    BY <2>3, <2>4, FS_Surjection
  <2> QED BY <1>3, <2>1, <2>2, <2>5
<1>6. PICK h : /\ IsRunLoop(h, sc)
               /\ LET end == Settle(h[m])
                  IN  RunOf(sc) = [trace |-> end.trace, end |-> sc.duration,
                                   stats |-> <<end.sent, end.delivered, 0, end.partitioned,
                                               end.unreachable, 0, 0>>,
                                   frames |-> end.frames]
  BY <1>4, RunLoop
<1> HIDE DEF m, ids
<1>7. \A n \in 0..m : h[n] = IF n = 0 THEN StartRun(sc)
                             ELSE IF sc.script[n].at > sc.duration THEN h[n - 1]
                             ELSE Due(h[n - 1], sc.script[n])
  BY <1>6, Zenon DEF IsRunLoop, m
<1>8. IsRun(ids, h[m])
  <2> DEFINE P == {k \in 0..m : IsRun(ids, h[k])}
  <2>1. 0 \in P
    <3>1. 0 \in 0..m
      BY <1>4
    <3> QED BY <1>7, <3>1, StartIsRun DEF ids
  <2>2. ASSUME NEW k \in 0..m, k \in P, k + 1 <= m
        PROVE  k + 1 \in P
    <3>1. k + 1 \in 0..m /\ k + 1 \in 1..m /\ k + 1 # 0 /\ (k + 1) - 1 = k
      BY <1>4, <2>2
    <3>2. h[k + 1] = h[k] \/ h[k + 1] = Due(h[k], sc.script[k + 1])
      BY <1>7, <3>1
    <3>3. IsRun(ids, Due(h[k], sc.script[k + 1]))
      BY <1>4, <1>5, <2>2, <3>1, DueIsRun
    <3> QED BY <2>2, <3>1, <3>2, <3>3
  <2> HIDE DEF P
  <2>3. \A k \in 0..m : k \in P
    BY <1>4, <2>1, <2>2, EveryNumberUpTo
  <2>4. m \in 0..m
    BY <1>4
  <2> QED BY <2>3, <2>4 DEF P
<1> DEFINE end == Settle(h[m])
           stats == <<end.sent, end.delivered, 0, end.partitioned, end.unreachable, 0, 0>>
           rep == RunOf(sc)
<1>9. IsRun(ids, end)
  BY <1>5, <1>8, SettleIsRun
<1>10. IsList(stats) /\ Len(stats) = 7
  <2>1. /\ stats \in Seq({end.sent, end.delivered, 0, end.partitioned, end.unreachable})
        /\ Len(stats) = 7
    OBVIOUS
  <2> HIDE DEF stats
  <2> QED BY <2>1, ListOfItsOwn DEF IsList
<1>11. rep = [trace |-> end.trace, end |-> sc.duration, stats |-> stats, frames |-> end.frames]
  BY <1>6, Zenon
<1> HIDE DEF end, stats, rep
<1>12. /\ rep.trace = end.trace /\ rep.end = sc.duration /\ rep.stats = stats
       /\ rep.frames = end.frames
       /\ rep = [trace |-> rep.trace, end |-> rep.end, stats |-> rep.stats, frames |-> rep.frames]
  BY <1>11
<1>13. DOMAIN end.frames = ids
  BY <1>9 DEF IsRun, IsStrips
<1>14. IsReport(rep)
  BY <1>5, <1>9, <1>10, <1>12, <1>13 DEF IsReport, IsRun
<1>15. Run(scenario) = rep
  BY Zenon DEF Run, rep, sc
<1> QED BY <1>2, <1>12, <1>14, <1>15

-----------------------------------------------------------------------------
(* The text of a recording, line by line.                                  *)

IdsOf(rep) == InOrder(DOMAIN rep.frames, <)

NodeLine(n) == <<W("node")>> \o WriteAll(NodeFields, n)
OpLine(s) == <<W("op"), N(s.at)>> \o OpToText(s.op)
FrameLine(rep, id) ==
  <<W("frames"), N(id), N(rep.frames[id][1]), D(rep.frames[id][2])>>
TraceLine(e) == <<W("trace"), N(e.at), N(e.node)>> \o TraceToText(e.kind)

HeadLines(sc) ==
  <<<<W("lumen-sim-recording"), N(FormatVersion)>>,
    <<W("seed"), N(sc.seed)>>,
    <<W("duration_us"), N(sc.duration)>>,
    <<W("faults")>> \o Numbers(sc.faults)>>
EndLines(rep) == <<<<W("end"), N(rep.end)>>, <<W("stats")>> \o Numbers(rep.stats)>>

NodeLines(sc) == [i \in DOMAIN sc.nodes |-> NodeLine(sc.nodes[i])]
OpLines(sc) == [i \in DOMAIN sc.script |-> OpLine(sc.script[i])]
FrameLines(rep) == [i \in DOMAIN IdsOf(rep) |-> FrameLine(rep, IdsOf(rep)[i])]
TraceLines(rep) == [i \in DOMAIN rep.trace |-> TraceLine(rep.trace[i])]

LEMMA TextInParts ==
  ASSUME NEW r
  PROVE  ToText(r) = HeadLines(r.scenario) \o NodeLines(r.scenario) \o OpLines(r.scenario)
                       \o EndLines(r.report) \o FrameLines(r.report) \o TraceLines(r.report)
BY Zenon DEF ToText, Each, HeadLines, NodeLines, OpLines, EndLines, FrameLines, TraceLines,
             NodeLine, OpLine, FrameLine, TraceLine, IdsOf

(* Each part of a joined list is where those before it end. *)
InSixParts(t, p1, p2, p3, p4, p5, p6) ==
  /\ IsList(t)
  /\ Len(t) = Len(p1) + Len(p2) + Len(p3) + Len(p4) + Len(p5) + Len(p6)
  /\ \A i \in 1..Len(p1) : t[i] = p1[i]
  /\ \A i \in 1..Len(p2) : t[Len(p1) + i] = p2[i]
  /\ \A i \in 1..Len(p3) : t[Len(p1) + Len(p2) + i] = p3[i]
  /\ \A i \in 1..Len(p4) : t[Len(p1) + Len(p2) + Len(p3) + i] = p4[i]
  /\ \A i \in 1..Len(p5) : t[Len(p1) + Len(p2) + Len(p3) + Len(p4) + i] = p5[i]
  /\ \A i \in 1..Len(p6) : t[Len(p1) + Len(p2) + Len(p3) + Len(p4) + Len(p5) + i] = p6[i]

LEMMA JoinedSix ==
  ASSUME NEW p1, NEW p2, NEW p3, NEW p4, NEW p5, NEW p6,
         IsList(p1), IsList(p2), IsList(p3), IsList(p4), IsList(p5), IsList(p6),
         NEW t, t = p1 \o p2 \o p3 \o p4 \o p5 \o p6
  PROVE  InSixParts(t, p1, p2, p3, p4, p5, p6)
<1> DEFINE t2 == p1 \o p2
           t3 == t2 \o p3
           t4 == t3 \o p4
           t5 == t4 \o p5
<1>1. t = t5 \o p6
  OBVIOUS
<1>2. /\ IsList(t2) /\ Len(t2) = Len(p1) + Len(p2)
      /\ \A i \in 1..Len(p1) : t2[i] = p1[i]
      /\ \A i \in 1..Len(p2) : t2[Len(p1) + i] = p2[i]
  BY JoinedIsList, JoinedPlaces
<1> HIDE DEF t2
<1>2a. IsList(t2)
  BY <1>2
<1>3. /\ IsList(t3) /\ Len(t3) = Len(t2) + Len(p3)
      /\ \A i \in 1..Len(t2) : t3[i] = t2[i]
      /\ \A i \in 1..Len(p3) : t3[Len(t2) + i] = p3[i]
  BY <1>2a, JoinedIsList, JoinedPlaces
<1> HIDE DEF t3
<1>3a. IsList(t3)
  BY <1>3
<1>4. /\ IsList(t4) /\ Len(t4) = Len(t3) + Len(p4)
      /\ \A i \in 1..Len(t3) : t4[i] = t3[i]
      /\ \A i \in 1..Len(p4) : t4[Len(t3) + i] = p4[i]
  BY <1>3a, JoinedIsList, JoinedPlaces
<1> HIDE DEF t4
<1>4a. IsList(t4)
  BY <1>4
<1>5. /\ IsList(t5) /\ Len(t5) = Len(t4) + Len(p5)
      /\ \A i \in 1..Len(t4) : t5[i] = t4[i]
      /\ \A i \in 1..Len(p5) : t5[Len(t4) + i] = p5[i]
  BY <1>4a, JoinedIsList, JoinedPlaces
<1> HIDE DEF t5
<1>5a. IsList(t5)
  BY <1>5
<1>6. /\ IsList(t) /\ Len(t) = Len(t5) + Len(p6)
      /\ \A i \in 1..Len(t5) : t[i] = t5[i]
      /\ \A i \in 1..Len(p6) : t[Len(t5) + i] = p6[i]
  <2>1. IsList(t5 \o p6)
    BY <1>5a, JoinedIsList
  <2>2. /\ Len(t5 \o p6) = Len(t5) + Len(p6)
        /\ \A i \in 1..Len(t5) : (t5 \o p6)[i] = t5[i]
        /\ \A i \in 1..Len(p6) : (t5 \o p6)[Len(t5) + i] = p6[i]
    BY <1>5a, JoinedPlaces
  <2> QED BY <1>1, <2>1, <2>2
<1>7. /\ Len(p1) \in Nat /\ Len(p2) \in Nat /\ Len(p3) \in Nat
      /\ Len(p4) \in Nat /\ Len(p5) \in Nat /\ Len(p6) \in Nat
  BY ListPlaces
<1> DEFINE n1 == Len(p1)
           m2 == n1 + Len(p2)
           m3 == m2 + Len(p3)
           m4 == m3 + Len(p4)
           m5 == m4 + Len(p5)
<1>8. Len(t2) = m2 /\ Len(t3) = m3 /\ Len(t4) = m4 /\ Len(t5) = m5
  BY <1>2, <1>3, <1>4, <1>5
<1>9. n1 \in 0..m2 /\ m2 \in 0..m3 /\ m3 \in 0..m4 /\ m4 \in 0..m5
  BY <1>7
<1>10. /\ \A i \in 1..Len(p2) : n1 + i \in 1..m2
       /\ \A i \in 1..Len(p3) : m2 + i \in 1..m3
       /\ \A i \in 1..Len(p4) : m3 + i \in 1..m4
       /\ \A i \in 1..Len(p5) : m4 + i \in 1..m5
  BY <1>7
<1> HIDE DEF n1, m2, m3, m4, m5
<1>11. \A i \in 1..m4 : t[i] = t4[i]
  BY <1>5, <1>6, <1>8, <1>9
<1>12. \A i \in 1..m3 : t[i] = t3[i]
  <2>1. \A i \in 1..m3 : i \in 1..m4 /\ t4[i] = t3[i]
    BY <1>4, <1>8, <1>9
  <2> QED BY <1>11, <2>1
<1>13. \A i \in 1..m2 : t[i] = t2[i]
  <2>1. \A i \in 1..m2 : i \in 1..m3 /\ t3[i] = t2[i]
    BY <1>3, <1>8, <1>9
  <2> QED BY <1>12, <2>1
<1>14. \A i \in 1..n1 : t[i] = p1[i]
  BY <1>2, <1>9, <1>13 DEF n1
<1>15. \A i \in 1..Len(p2) : t[n1 + i] = p2[i]
  BY <1>2, <1>10, <1>13 DEF n1
<1>16. \A i \in 1..Len(p3) : t[m2 + i] = p3[i]
  BY <1>3, <1>8, <1>10, <1>12
<1>17. \A i \in 1..Len(p4) : t[m3 + i] = p4[i]
  BY <1>4, <1>8, <1>10, <1>11
<1>18. \A i \in 1..Len(p5) : t[m4 + i] = p5[i]
  BY <1>5, <1>6, <1>8, <1>10
<1> QED BY <1>6, <1>8, <1>14, <1>15, <1>16, <1>17, <1>18 DEF InSixParts, m5, m4, m3, m2, n1

(* The devices of a report in order: each is listed. *)
LEMMA IdsListed ==
  ASSUME NEW rep, IsReport(rep)
  PROVE  /\ IsList(IdsOf(rep))
         /\ {IdsOf(rep)[i] : i \in 1..Len(IdsOf(rep))} = DOMAIN rep.frames
<1> DEFINE S == DOMAIN rep.frames
           R == {xy \in S \X S : xy[1] < xy[2]}
           n == Cardinality(S)
           P(y, x) == y < x
           ids == IdsOf(rep)
<1>1. IsFiniteSet(S) /\ S \subseteq Nat
  BY DEF IsReport
<1> HIDE DEF S
<1>2. \A x, y \in S : <<x, y>> \in R <=> x < y
  OBVIOUS
<1> HIDE DEF R
<1>3. StrictOrder(S, R)
  BY <1>1, <1>2 DEF StrictOrder
<1>4. \A x \in S : {y \in S : P(y, x)} = Before(S, R, x)
  BY <1>2 DEF Before
<1>5. ids = [k \in 1..n |-> CHOOSE x \in S : Cardinality({y \in S : P(y, x)}) = k - 1]
  BY Zenon DEF IdsOf, InOrder, S
<1>5a. ids = [k \in 1..n |-> ids[k]]
  <2> DEFINE c(k) == CHOOSE x \in S : Cardinality({y \in S : P(y, x)}) = k - 1
  <2>1. ids = [k \in 1..n |-> c(k)]
    BY <1>5
  <2> HIDE DEF ids, c, n
  <2> QED BY <2>1
<1> HIDE DEF n, ids, P
<1>6. n \in Nat
  BY <1>1, <1>3, PlacesAreTaken DEF n
<1>7. DOMAIN ids = 1..n
  BY <1>5
<1>8. \A k \in 1..n : ids[k] \in S /\ Cardinality(Before(S, R, ids[k])) = k - 1
  <2>1. ASSUME NEW k \in 1..n
        PROVE  ids[k] \in S /\ Cardinality(Before(S, R, ids[k])) = k - 1
    <3>1. \E x \in S : Cardinality(Before(S, R, x)) = k - 1
      BY <1>1, <1>3, PlacesAreTaken DEF n
    <3>2. \E x \in S : Cardinality({y \in S : P(y, x)}) = k - 1
      BY <1>4, <3>1
    <3>3. ids[k] = CHOOSE x \in S : Cardinality({y \in S : P(y, x)}) = k - 1
      BY <1>5
    <3>4. ids[k] \in S /\ Cardinality({y \in S : P(y, ids[k])}) = k - 1
      BY <3>2, <3>3, Zenon
    <3> QED BY <1>4, <3>4
  <2> QED BY <2>1
<1>9. \A x \in S : \E k \in 1..n : ids[k] = x
  <2>1. ASSUME NEW x \in S
        PROVE  \E k \in 1..n : ids[k] = x
    <3> DEFINE k == Cardinality(Before(S, R, x)) + 1
    <3>1. Cardinality(Before(S, R, x)) \in 0..(n - 1)
      BY <1>1, <1>3, PlacesAreTaken DEF n
    <3>2. k \in 1..n /\ Cardinality(Before(S, R, x)) = k - 1
      BY <1>6, <3>1
    <3> HIDE DEF k
    <3>3. ids[k] \in S /\ Cardinality(Before(S, R, ids[k])) = k - 1
      BY <1>8, <3>2
    <3>4. \A s, o \in S : <<s, o>> \in R =>
            Cardinality(Before(S, R, s)) < Cardinality(Before(S, R, o))
      BY <1>1, <1>3, PlacesAreTaken
    <3>5. <<ids[k], x>> \notin R /\ <<x, ids[k]>> \notin R
      BY <3>2, <3>3, <3>4
    <3>6. ids[k] = x
      BY <1>3, <3>3, <3>5 DEF StrictOrder
    <3> QED BY <3>2, <3>6
  <2> QED BY <2>1
<1>10. IsList(ids) /\ Len(ids) = n
  BY <1>5a, <1>6, ListByPlace
<1> QED BY <1>8, <1>9, <1>10 DEF ids, S

(* A recording that can be written. *)
IsRecording(r) ==
  /\ r = [scenario |-> r.scenario, report |-> r.report]
  /\ IsScenario(r.scenario) /\ IsReport(r.report)

Nodes(r) == Len(r.scenario.nodes)
Script(r) == Len(r.scenario.script)
Strips(r) == Len(IdsOf(r.report))
Entries(r) == Len(r.report.trace)

LEMMA CountsAre ==
  ASSUME NEW r, IsRecording(r)
  PROVE  /\ Nodes(r) \in Nat /\ Script(r) \in Nat /\ Strips(r) \in Nat /\ Entries(r) \in Nat
         /\ IsList(r.scenario.nodes) /\ DOMAIN r.scenario.nodes = 1..Nodes(r)
         /\ IsList(r.scenario.script) /\ DOMAIN r.scenario.script = 1..Script(r)
         /\ IsList(IdsOf(r.report)) /\ DOMAIN IdsOf(r.report) = 1..Strips(r)
         /\ IsList(r.report.trace) /\ DOMAIN r.report.trace = 1..Entries(r)
<1>1. IsList(r.scenario.nodes) /\ IsList(r.scenario.script)
  BY ScenarioParts DEF IsRecording
<1>2. IsList(IdsOf(r.report))
  BY IdsListed DEF IsRecording
<1>3. IsList(r.report.trace)
  BY DEF IsRecording, IsReport, IsTrace
<1> QED BY <1>1, <1>2, <1>3, ListPlaces DEF Nodes, Script, Strips, Entries

LEMMA TextLines ==
  ASSUME NEW r, IsRecording(r)
  PROVE  /\ IsList(ToText(r))
         /\ Len(ToText(r)) = 6 + Nodes(r) + Script(r) + Strips(r) + Entries(r)
         /\ ToText(r)[1] = <<W("lumen-sim-recording"), N(FormatVersion)>>
         /\ ToText(r)[2] = <<W("seed"), N(r.scenario.seed)>>
         /\ ToText(r)[3] = <<W("duration_us"), N(r.scenario.duration)>>
         /\ ToText(r)[4] = <<W("faults")>> \o Numbers(r.scenario.faults)
         /\ \A i \in 1..Nodes(r) : ToText(r)[4 + i] = NodeLine(r.scenario.nodes[i])
         /\ \A i \in 1..Script(r) : ToText(r)[4 + Nodes(r) + i] = OpLine(r.scenario.script[i])
         /\ ToText(r)[5 + Nodes(r) + Script(r)] = <<W("end"), N(r.report.end)>>
         /\ ToText(r)[6 + Nodes(r) + Script(r)] = <<W("stats")>> \o Numbers(r.report.stats)
         /\ \A i \in 1..Strips(r) :
              ToText(r)[6 + Nodes(r) + Script(r) + i] = FrameLine(r.report, IdsOf(r.report)[i])
         /\ \A i \in 1..Entries(r) :
              ToText(r)[6 + Nodes(r) + Script(r) + Strips(r) + i] = TraceLine(r.report.trace[i])
<1> DEFINE sc == r.scenario
           rep == r.report
           p1 == HeadLines(sc)
           p2 == NodeLines(sc)
           p3 == OpLines(sc)
           p4 == EndLines(rep)
           p5 == FrameLines(rep)
           p6 == TraceLines(rep)
           t == ToText(r)
<1>1. IsList(p1) /\ Len(p1) = 4
  <2> DEFINE a == <<W("lumen-sim-recording"), N(FormatVersion)>>
             b == <<W("seed"), N(sc.seed)>>
             c == <<W("duration_us"), N(sc.duration)>>
             d == <<W("faults")>> \o Numbers(sc.faults)
  <2>1. p1 = <<a, b, c, d>>
    BY DEF HeadLines
  <2> HIDE DEF a, b, c, d
  <2>2. p1 \in Seq({a, b, c, d}) /\ Len(p1) = 4
    BY <2>1
  <2> QED BY <2>2, ListOfItsOwn DEF IsList
<1>2. /\ p1[1] = <<W("lumen-sim-recording"), N(FormatVersion)>>
      /\ p1[2] = <<W("seed"), N(sc.seed)>>
      /\ p1[3] = <<W("duration_us"), N(sc.duration)>>
      /\ p1[4] = <<W("faults")>> \o Numbers(sc.faults)
  BY DEF HeadLines
<1>3. /\ IsList(p4) /\ Len(p4) = 2
      /\ p4[1] = <<W("end"), N(rep.end)>> /\ p4[2] = <<W("stats")>> \o Numbers(rep.stats)
  <2> DEFINE a == <<W("end"), N(rep.end)>>
             b == <<W("stats")>> \o Numbers(rep.stats)
  <2>1. p4 = <<a, b>>
    BY DEF EndLines
  <2> HIDE DEF a, b
  <2>2. p4[1] = a /\ p4[2] = b
    BY <2>1
  <2> QED BY <2>1, <2>2, ListsOfTwo DEF a, b
<1>4. /\ Nodes(r) \in Nat /\ Script(r) \in Nat /\ Strips(r) \in Nat /\ Entries(r) \in Nat
      /\ DOMAIN sc.nodes = 1..Nodes(r) /\ DOMAIN sc.script = 1..Script(r)
      /\ DOMAIN IdsOf(rep) = 1..Strips(r) /\ DOMAIN rep.trace = 1..Entries(r)
  BY CountsAre
<1>5. /\ IsList(p2) /\ Len(p2) = Nodes(r)
      /\ \A i \in 1..Nodes(r) : p2[i] = NodeLine(sc.nodes[i])
  <2>1. \A i \in 1..Nodes(r) : p2[i] = NodeLine(sc.nodes[i])
    BY <1>4 DEF NodeLines
  <2>2. p2 = [i \in 1..Nodes(r) |-> p2[i]]
    BY <1>4 DEF NodeLines
  <2> HIDE DEF p2
  <2> QED BY <1>4, <2>1, <2>2, ListByPlace
<1>6. /\ IsList(p3) /\ Len(p3) = Script(r)
      /\ \A i \in 1..Script(r) : p3[i] = OpLine(sc.script[i])
  <2>1. \A i \in 1..Script(r) : p3[i] = OpLine(sc.script[i])
    BY <1>4 DEF OpLines
  <2>2. p3 = [i \in 1..Script(r) |-> p3[i]]
    BY <1>4 DEF OpLines
  <2> HIDE DEF p3
  <2> QED BY <1>4, <2>1, <2>2, ListByPlace
<1>7. /\ IsList(p5) /\ Len(p5) = Strips(r)
      /\ \A i \in 1..Strips(r) : p5[i] = FrameLine(rep, IdsOf(rep)[i])
  <2>1. \A i \in 1..Strips(r) : p5[i] = FrameLine(rep, IdsOf(rep)[i])
    BY <1>4 DEF FrameLines
  <2>2. p5 = [i \in 1..Strips(r) |-> p5[i]]
    BY <1>4 DEF FrameLines
  <2> HIDE DEF p5
  <2> QED BY <1>4, <2>1, <2>2, ListByPlace
<1>8. /\ IsList(p6) /\ Len(p6) = Entries(r)
      /\ \A i \in 1..Entries(r) : p6[i] = TraceLine(rep.trace[i])
  <2>1. \A i \in 1..Entries(r) : p6[i] = TraceLine(rep.trace[i])
    BY <1>4 DEF TraceLines
  <2>2. p6 = [i \in 1..Entries(r) |-> p6[i]]
    BY <1>4 DEF TraceLines
  <2> HIDE DEF p6
  <2> QED BY <1>4, <2>1, <2>2, ListByPlace
<1>9. t = p1 \o p2 \o p3 \o p4 \o p5 \o p6
  BY TextInParts, Zenon
<1>10. IsList(p1) /\ IsList(p2) /\ IsList(p3) /\ IsList(p4) /\ IsList(p5) /\ IsList(p6)
  BY <1>1, <1>3, <1>5, <1>6, <1>7, <1>8
<1> HIDE DEF p1, p2, p3, p4, p5, p6, t
<1>11. /\ IsList(t)
       /\ Len(t) = Len(p1) + Len(p2) + Len(p3) + Len(p4) + Len(p5) + Len(p6)
       /\ \A i \in 1..Len(p1) : t[i] = p1[i]
       /\ \A i \in 1..Len(p2) : t[Len(p1) + i] = p2[i]
       /\ \A i \in 1..Len(p3) : t[Len(p1) + Len(p2) + i] = p3[i]
       /\ \A i \in 1..Len(p4) : t[Len(p1) + Len(p2) + Len(p3) + i] = p4[i]
       /\ \A i \in 1..Len(p5) : t[Len(p1) + Len(p2) + Len(p3) + Len(p4) + i] = p5[i]
       /\ \A i \in 1..Len(p6) : t[Len(p1) + Len(p2) + Len(p3) + Len(p4) + Len(p5) + i] = p6[i]
  <2>1. InSixParts(t, p1, p2, p3, p4, p5, p6)
    BY <1>9, <1>10, JoinedSix, Zenon
  <2> QED BY <2>1, Zenon DEF InSixParts
<1> DEFINE n == Nodes(r)
           m == Script(r)
           k == Strips(r)
           l == Entries(r)
<1>12. /\ Len(p1) = 4 /\ Len(p2) = n /\ Len(p3) = m /\ Len(p4) = 2 /\ Len(p5) = k /\ Len(p6) = l
       /\ n \in Nat /\ m \in Nat /\ k \in Nat /\ l \in Nat
  BY <1>1, <1>3, <1>4, <1>5, <1>6, <1>7, <1>8
<1> HIDE DEF n, m, k, l
<1>13. Len(t) = 6 + n + m + k + l
  BY <1>11, <1>12
<1>14. t[1] = p1[1] /\ t[2] = p1[2] /\ t[3] = p1[3] /\ t[4] = p1[4]
  BY <1>11, <1>12
<1>15. \A i \in 1..n : t[4 + i] = p2[i]
  BY <1>11, <1>12
<1>16. \A i \in 1..m : t[4 + n + i] = p3[i]
  BY <1>11, <1>12
<1>17. t[5 + n + m] = p4[1] /\ t[6 + n + m] = p4[2]
  <2>1. \A i \in 1..2 : t[4 + n + m + i] = p4[i]
    BY <1>11, <1>12
  <2>2. 4 + n + m + 1 = 5 + n + m /\ 4 + n + m + 2 = 6 + n + m /\ 1 \in 1..2 /\ 2 \in 1..2
    BY <1>12
  <2> QED BY <2>1, <2>2
<1>18. \A i \in 1..k : t[6 + n + m + i] = p5[i]
  <2>1. \A i \in 1..k : t[4 + n + m + 2 + i] = p5[i]
    BY <1>11, <1>12
  <2>2. 4 + n + m + 2 = 6 + n + m
    BY <1>12
  <2> QED BY <2>1, <2>2
<1>19. \A i \in 1..l : t[6 + n + m + k + i] = p6[i]
  <2>1. \A i \in 1..l : t[4 + n + m + 2 + k + i] = p6[i]
    BY <1>11, <1>12
  <2>2. 4 + n + m + 2 = 6 + n + m
    BY <1>12
  <2> QED BY <2>1, <2>2
<1> QED BY <1>2, <1>3, <1>5, <1>6, <1>7, <1>8, <1>11, <1>13, <1>14, <1>15, <1>16, <1>17, <1>18, <1>19
        DEF n, m, k, l, t

(* What has been read of a recording after some lines of its text. *)
FirstOf(s, n) == [i \in {x \in DOMAIN s : x <= n} |-> s[i]]

StripsOf(rep, n) ==
  [id \in {IdsOf(rep)[i] : i \in {x \in DOMAIN IdsOf(rep) : x <= n}} |-> rep.frames[id]]

EndLine(r) == 5 + Nodes(r) + Script(r)

SeedRead(r, m) == IF m >= 2 THEN {r.scenario.seed} ELSE {}
DurationRead(r, m) == IF m >= 3 THEN {r.scenario.duration} ELSE {}
FaultsRead(r, m) == IF m >= 4 THEN r.scenario.faults ELSE PerfectFaults
NodesRead(r, m) == FirstOf(r.scenario.nodes, m - 4)
ScriptRead(r, m) == FirstOf(r.scenario.script, m - (4 + Nodes(r)))
EndRead(r, m) == IF m >= EndLine(r) THEN r.report.end ELSE 0
StatsRead(r, m) == IF m >= EndLine(r) + 1 THEN r.report.stats ELSE <<0, 0, 0, 0, 0, 0, 0>>
StripsRead(r, m) == StripsOf(r.report, m - (EndLine(r) + 1))
TraceRead(r, m) == FirstOf(r.report.trace, m - (EndLine(r) + 1 + Strips(r)))

ReadSoFar(r, m) ==
  [header |-> m >= 1, seed |-> SeedRead(r, m), duration |-> DurationRead(r, m),
   faults |-> FaultsRead(r, m), nodes |-> NodesRead(r, m), script |-> ScriptRead(r, m),
   end |-> EndRead(r, m), stats |-> StatsRead(r, m), frames |-> StripsRead(r, m),
   trace |-> TraceRead(r, m)]

LEMMA FirstParts ==
  ASSUME NEW s, IsList(s), NEW n \in Int
  PROVE  /\ n <= 0 => FirstOf(s, n) = <<>>
         /\ n >= Len(s) => FirstOf(s, n) = s
         /\ n \in 0..(Len(s) - 1) => FirstOf(s, n + 1) = Append(FirstOf(s, n), s[n + 1])
<1>1. Len(s) \in Nat /\ DOMAIN s = 1..Len(s) /\ s = [i \in 1..Len(s) |-> s[i]]
  BY ListPlaces
<1> DEFINE l == Len(s)
<1>2. l \in Nat /\ DOMAIN s = 1..l /\ s = [i \in 1..l |-> s[i]]
  BY <1>1
<1> HIDE DEF l
<1>3. FirstOf(s, n) = [i \in {x \in 1..l : x <= n} |-> s[i]]
  BY <1>2 DEF FirstOf
<1>4. ASSUME n <= 0
      PROVE  FirstOf(s, n) = <<>>
  <2>1. {x \in 1..l : x <= n} = {}
    BY <1>2, <1>4
  <2>2. [i \in {} |-> s[i]] = <<>>
    OBVIOUS
  <2> QED BY <1>3, <2>1, <2>2
<1>5. ASSUME n >= l
      PROVE  FirstOf(s, n) = s
  <2>1. {x \in 1..l : x <= n} = 1..l
    BY <1>2, <1>5
  <2> QED BY <1>2, <1>3, <2>1
<1>6. ASSUME n \in 0..(l - 1)
      PROVE  FirstOf(s, n + 1) = Append(FirstOf(s, n), s[n + 1])
  <2> DEFINE p == FirstOf(s, n)
             q == FirstOf(s, n + 1)
             a == Append(p, s[n + 1])
  <2>1. {x \in 1..l : x <= n} = 1..n /\ {x \in 1..l : x <= n + 1} = 1..(n + 1)
    BY <1>2, <1>6
  <2>2. p = [i \in 1..n |-> s[i]]
    BY <1>3, <2>1
  <2>3. q = [i \in 1..(n + 1) |-> s[i]]
    BY <1>2, <2>1 DEF FirstOf
  <2> HIDE DEF p, q
  <2>4. p = [i \in 1..n |-> p[i]] /\ q = [i \in 1..(n + 1) |-> q[i]]
    BY <2>2, <2>3
  <2>5. IsList(p) /\ Len(p) = n
    BY <1>6, <2>4, ListByPlace
  <2>6. IsList(q) /\ Len(q) = n + 1
    BY <1>6, <2>4, ListByPlace
  <2>7. /\ IsList(a) /\ Len(a) = Len(p) + 1
        /\ \A i \in 1..Len(p) : a[i] = p[i]
        /\ a[Len(p) + 1] = s[n + 1]
    <3>1. IsList(p)
      BY <2>5
    <3> QED BY <3>1, AppendedList
  <2>8. \A i \in 1..(n + 1) : a[i] = q[i]
    <3>1. \A i \in 1..(n + 1) : i \in 1..n \/ i = n + 1
      BY <1>6
    <3>2. \A i \in 1..n : a[i] = s[i]
      BY <2>2, <2>5, <2>7
    <3>3. a[n + 1] = s[n + 1]
      BY <2>5, <2>7
    <3> QED BY <2>3, <3>1, <3>2, <3>3
  <2> HIDE DEF a
  <2>9. Len(a) = n + 1 /\ IsList(a)
    BY <2>5, <2>7
  <2>10. a = q
    BY <2>6, <2>8, <2>9, SameLists
  <2> QED BY <2>10 DEF a, p, q
<1> QED BY <1>4, <1>5, <1>6 DEF l

LEMMA StripsParts ==
  ASSUME NEW rep, IsReport(rep), NEW n \in Int
  PROVE  /\ n <= 0 => StripsOf(rep, n) = <<>>
         /\ n >= Len(IdsOf(rep)) => StripsOf(rep, n) = rep.frames
         /\ n \in 0..(Len(IdsOf(rep)) - 1) =>
              LET id == IdsOf(rep)[n + 1]
              IN  With(StripsOf(rep, n), id, <<rep.frames[id][1], rep.frames[id][2]>>)
                    = StripsOf(rep, n + 1)
<1> DEFINE ids == IdsOf(rep)
           l == Len(ids)
           f == rep.frames
           S(k) == {ids[i] : i \in {x \in 1..l : x <= k}}
<1>1. IsList(ids) /\ {ids[i] : i \in 1..l} = DOMAIN f
  BY IdsListed
<1>2. l \in Nat /\ DOMAIN ids = 1..l
  BY <1>1, ListPlaces
<1>3. /\ f = [id \in DOMAIN f |-> f[id]]
      /\ \A id \in DOMAIN f : f[id] = <<f[id][1], f[id][2]>>
  BY DEF IsReport, IsStrips
<1>4. \A k : StripsOf(rep, k) = [id \in S(k) |-> f[id]]
  BY <1>2 DEF StripsOf
<1> HIDE DEF l, f, ids
<1>5. ASSUME n <= 0
      PROVE  StripsOf(rep, n) = <<>>
  <2>1. S(n) = {}
    BY <1>2, <1>5
  <2>2. [id \in {} |-> f[id]] = <<>>
    OBVIOUS
  <2> HIDE DEF S
  <2> QED BY <1>4, <2>1, <2>2
<1>6. ASSUME n >= l
      PROVE  StripsOf(rep, n) = f
  <2>1. {x \in 1..l : x <= n} = 1..l
    BY <1>2, <1>6
  <2>2. S(n) = DOMAIN f
    BY <1>1, <2>1
  <2> HIDE DEF S
  <2> QED BY <1>3, <1>4, <2>2
<1>7. ASSUME n \in 0..(l - 1)
      PROVE  With(StripsOf(rep, n), ids[n + 1], <<f[ids[n + 1]][1], f[ids[n + 1]][2]>>)
               = StripsOf(rep, n + 1)
  <2> DEFINE id == ids[n + 1]
             p == StripsOf(rep, n)
  <2>1. {x \in 1..l : x <= n + 1} = {x \in 1..l : x <= n} \cup {n + 1}
    BY <1>2, <1>7
  <2>2. S(n + 1) = S(n) \cup {id}
    BY <2>1
  <2>3. id \in DOMAIN f
    <3>1. n + 1 \in 1..l
      BY <1>2, <1>7
    <3> QED BY <1>1, <3>1
  <2>4. <<f[id][1], f[id][2]>> = f[id]
    BY <1>3, <2>3
  <2> HIDE DEF S, id
  <2>5. p = [g \in S(n) |-> f[g]] /\ DOMAIN p = S(n)
    BY <1>4
  <2>6. StripsOf(rep, n + 1) = [g \in S(n) \cup {id} |-> f[g]]
    BY <1>4, <2>2
  <2> HIDE DEF p
  <2>7. With(p, id, f[id]) = [g \in S(n) \cup {id} |-> f[g]]
    BY <2>5 DEF With
  <2> QED BY <2>4, <2>6, <2>7 DEF p, id
<1> QED BY <1>5, <1>6, <1>7 DEF l, f, ids

LEMMA NothingRead ==
  ASSUME NEW r, IsRecording(r)
  PROVE  ReadSoFar(r, 0) = Unread
<1> DEFINE n == Nodes(r)
           s == Script(r)
           k == Strips(r)
<1>1. n \in Nat /\ s \in Nat /\ k \in Nat
  BY CountsAre
<1>2. /\ IsList(r.scenario.nodes) /\ IsList(r.scenario.script) /\ IsList(r.report.trace)
      /\ IsReport(r.report)
  BY CountsAre DEF IsRecording
<1> HIDE DEF n, s, k
<1>3. /\ 0 - 4 \in Int /\ 0 - 4 <= 0
      /\ 0 - (4 + n) \in Int /\ 0 - (4 + n) <= 0
      /\ 0 - (5 + n + s + 1) \in Int /\ 0 - (5 + n + s + 1) <= 0
      /\ 0 - (5 + n + s + 1 + k) \in Int /\ 0 - (5 + n + s + 1 + k) <= 0
      /\ ~(0 >= 5 + n + s) /\ ~(0 >= 5 + n + s + 1)
  BY <1>1
<1>4. NodesRead(r, 0) = <<>>
  BY <1>2, <1>3, FirstParts DEF NodesRead
<1>5. ScriptRead(r, 0) = <<>>
  BY <1>2, <1>3, FirstParts DEF ScriptRead, n
<1>6. StripsRead(r, 0) = <<>>
  BY <1>2, <1>3, StripsParts DEF StripsRead, EndLine, n, s
<1>7. TraceRead(r, 0) = <<>>
  BY <1>2, <1>3, FirstParts DEF TraceRead, EndLine, n, s, k
<1>8. EndRead(r, 0) = 0 /\ StatsRead(r, 0) = <<0, 0, 0, 0, 0, 0, 0>>
  BY <1>3 DEF EndRead, StatsRead, EndLine, n, s
<1>9. SeedRead(r, 0) = {} /\ DurationRead(r, 0) = {} /\ FaultsRead(r, 0) = PerfectFaults
  BY DEF SeedRead, DurationRead, FaultsRead
<1>10. (0 >= 1) = FALSE
  OBVIOUS
<1> QED BY <1>4, <1>5, <1>6, <1>7, <1>8, <1>9, <1>10, Zenon DEF ReadSoFar, Unread

LEMMA AllRead ==
  ASSUME NEW r, IsRecording(r), NEW m \in Nat, m >= EndLine(r) - 1
  PROVE  /\ (m >= 1) = TRUE
         /\ SeedRead(r, m) = {r.scenario.seed} /\ DurationRead(r, m) = {r.scenario.duration}
         /\ FaultsRead(r, m) = r.scenario.faults
         /\ NodesRead(r, m) = r.scenario.nodes /\ ScriptRead(r, m) = r.scenario.script
         /\ m >= EndLine(r) + 1 + Strips(r) + Entries(r) =>
              /\ EndRead(r, m) = r.report.end /\ StatsRead(r, m) = r.report.stats
              /\ StripsRead(r, m) = r.report.frames /\ TraceRead(r, m) = r.report.trace
<1> DEFINE n == Nodes(r)
           s == Script(r)
           k == Strips(r)
           e == EndLine(r)
           l == Entries(r)
<1>1. n \in Nat /\ s \in Nat /\ k \in Nat /\ l \in Nat /\ e = 5 + n + s
  BY CountsAre DEF EndLine
<1>2. /\ IsList(r.scenario.nodes) /\ IsList(r.scenario.script) /\ IsList(r.report.trace)
      /\ IsReport(r.report)
  BY CountsAre DEF IsRecording
<1>3. /\ Len(r.scenario.nodes) = n /\ Len(r.scenario.script) = s /\ Len(r.report.trace) = l
      /\ Len(IdsOf(r.report)) = k
  BY DEF Nodes, Script, Strips, Entries
<1> HIDE DEF n, s, k, e, l
<1>4. /\ m - 4 \in Int /\ m - 4 >= n
      /\ m - (4 + n) \in Int /\ m - (4 + n) >= s
      /\ m - (e + 1) \in Int
      /\ m - (e + 1 + k) \in Int
      /\ m >= 1 /\ m >= 2 /\ m >= 3 /\ m >= 4
  BY <1>1 DEF e
<1>5. NodesRead(r, m) = r.scenario.nodes
  BY <1>2, <1>3, <1>4, FirstParts DEF NodesRead
<1>6. ScriptRead(r, m) = r.scenario.script
  BY <1>2, <1>3, <1>4, FirstParts DEF ScriptRead, n
<1>7. /\ SeedRead(r, m) = {r.scenario.seed} /\ DurationRead(r, m) = {r.scenario.duration}
      /\ FaultsRead(r, m) = r.scenario.faults
  BY <1>4 DEF SeedRead, DurationRead, FaultsRead
<1>8. ASSUME m >= e + 1 + k + l
      PROVE  /\ EndRead(r, m) = r.report.end /\ StatsRead(r, m) = r.report.stats
             /\ StripsRead(r, m) = r.report.frames /\ TraceRead(r, m) = r.report.trace
  <2>1. m >= e /\ m >= e + 1 /\ m - (e + 1) >= k /\ m - (e + 1 + k) >= l
    BY <1>1, <1>8
  <2>2. EndRead(r, m) = r.report.end /\ StatsRead(r, m) = r.report.stats
    BY <2>1 DEF EndRead, StatsRead, e
  <2>3. StripsRead(r, m) = r.report.frames
    BY <1>2, <1>3, <1>4, <2>1, StripsParts DEF StripsRead, e
  <2>4. TraceRead(r, m) = r.report.trace
    BY <1>2, <1>3, <1>4, <2>1, FirstParts DEF TraceRead, e, k
  <2> QED BY <2>2, <2>3, <2>4
<1> QED BY <1>4, <1>5, <1>6, <1>7, <1>8 DEF e, k, l

(* A line adds to one thing, and leaves the others alone. *)
LEMMA OthersStay ==
  ASSUME NEW r, IsRecording(r), NEW m \in Nat \ {0}
  PROVE  /\ m # 1 => (m >= 1) = (m - 1 >= 1)
         /\ m # 2 => SeedRead(r, m) = SeedRead(r, m - 1)
         /\ m # 3 => DurationRead(r, m) = DurationRead(r, m - 1)
         /\ m # 4 => FaultsRead(r, m) = FaultsRead(r, m - 1)
         /\ m \notin 5..(4 + Nodes(r)) => NodesRead(r, m) = NodesRead(r, m - 1)
         /\ m \notin (5 + Nodes(r))..(EndLine(r) - 1) => ScriptRead(r, m) = ScriptRead(r, m - 1)
         /\ m # EndLine(r) => EndRead(r, m) = EndRead(r, m - 1)
         /\ m # EndLine(r) + 1 => StatsRead(r, m) = StatsRead(r, m - 1)
         /\ m \notin (EndLine(r) + 2)..(EndLine(r) + 1 + Strips(r)) =>
              StripsRead(r, m) = StripsRead(r, m - 1)
         /\ m <= EndLine(r) + 1 + Strips(r) => TraceRead(r, m) = TraceRead(r, m - 1)
<1> DEFINE n == Nodes(r)
           s == Script(r)
           k == Strips(r)
           e == EndLine(r)
<1>1. n \in Nat /\ s \in Nat /\ k \in Nat /\ e = 5 + n + s
  BY CountsAre DEF EndLine
<1>2. /\ IsList(r.scenario.nodes) /\ IsList(r.scenario.script) /\ IsList(r.report.trace)
      /\ IsReport(r.report)
  BY CountsAre DEF IsRecording
<1>3. /\ Len(r.scenario.nodes) = n /\ Len(r.scenario.script) = s
      /\ Len(IdsOf(r.report)) = k
  BY DEF Nodes, Script, Strips
<1> HIDE DEF n, s, k, e
<1>4. m # 1 => (m >= 1) = (m - 1 >= 1)
  OBVIOUS
<1>5. /\ m # 2 => SeedRead(r, m) = SeedRead(r, m - 1)
      /\ m # 3 => DurationRead(r, m) = DurationRead(r, m - 1)
      /\ m # 4 => FaultsRead(r, m) = FaultsRead(r, m - 1)
  BY DEF SeedRead, DurationRead, FaultsRead
<1>6. /\ m # e => EndRead(r, m) = EndRead(r, m - 1)
      /\ m # e + 1 => StatsRead(r, m) = StatsRead(r, m - 1)
  BY <1>1 DEF EndRead, StatsRead, e
<1>7. ASSUME m \notin 5..(4 + n)
      PROVE  NodesRead(r, m) = NodesRead(r, m - 1)
  <2>1. m - 4 \in Int /\ (m - 1) - 4 \in Int
    OBVIOUS
  <2>2. (m - 4 <= 0 /\ (m - 1) - 4 <= 0) \/ (m - 4 >= n /\ (m - 1) - 4 >= n)
    BY <1>1, <1>7
  <2> QED BY <1>2, <1>3, <2>1, <2>2, FirstParts DEF NodesRead
<1>8. ASSUME m \notin (5 + n)..(e - 1)
      PROVE  ScriptRead(r, m) = ScriptRead(r, m - 1)
  <2>1. m - (4 + n) \in Int /\ (m - 1) - (4 + n) \in Int
    BY <1>1
  <2>2. \/ m - (4 + n) <= 0 /\ (m - 1) - (4 + n) <= 0
        \/ m - (4 + n) >= s /\ (m - 1) - (4 + n) >= s
    BY <1>1, <1>8
  <2> QED BY <1>2, <1>3, <2>1, <2>2, FirstParts DEF ScriptRead, n
<1>9. ASSUME m \notin (e + 2)..(e + 1 + k)
      PROVE  StripsRead(r, m) = StripsRead(r, m - 1)
  <2>1. m - (e + 1) \in Int /\ (m - 1) - (e + 1) \in Int
    BY <1>1
  <2>2. \/ m - (e + 1) <= 0 /\ (m - 1) - (e + 1) <= 0
        \/ m - (e + 1) >= k /\ (m - 1) - (e + 1) >= k
    BY <1>1, <1>9
  <2> QED BY <1>2, <1>3, <2>1, <2>2, StripsParts DEF StripsRead, e
<1>10. ASSUME m <= e + 1 + k
       PROVE  TraceRead(r, m) = TraceRead(r, m - 1)
  <2>1. /\ m - (e + 1 + k) \in Int /\ (m - 1) - (e + 1 + k) \in Int
        /\ m - (e + 1 + k) <= 0 /\ (m - 1) - (e + 1 + k) <= 0
    BY <1>1, <1>10
  <2> QED BY <1>2, <2>1, FirstParts DEF TraceRead, e, k
<1> QED BY <1>4, <1>5, <1>6, <1>7, <1>8, <1>9, <1>10 DEF n, e, k

LEMMA TwoTokens ==
  \A x, y : <<x, y>> # <<>> /\ <<x, y>>[1] = x /\ Tail(<<x, y>>) = <<y>>
OBVIOUS

LEMMA NumberAlone ==
  ASSUME NEW x
  PROVE  NumberIn(<<N(x)>>) = {[value |-> x, rest |-> <<>>]}
<1> DEFINE p == <<N(x)>>
<1>1. IsList(p) /\ IsList(<<>>)
  BY ShortLists
<1>2. NumberIn(p \o <<>>) = {[value |-> x, rest |-> <<>>]}
  BY <1>1, NumberBack
<1> HIDE DEF p
<1>3. p \o <<>> = p
  BY <1>1, JoinedWithNone
<1> QED BY <1>2, <1>3 DEF p

(* A line that has two numbers after its key. *)
LEMMA TwoNumbersBack ==
  ASSUME NEW w, NEW x, NEW y, NEW q, IsList(q)
  PROVE  LET line == <<w, N(x), N(y)>> \o q
             v == <<x, y>>
         IN  /\ IsList(line) /\ line # <<>> /\ line[1] = w
             /\ NumbersIn(2, Tail(line)) = {[value |-> v, rest |-> q]}
             /\ v[1] = x /\ v[2] = y
<1> DEFINE v == <<x, y>>
           a == <<w, N(x), N(y)>>
           o == <<w>>
           line == a \o q
<1>1. IsList(v) /\ Len(v) = 2 /\ DOMAIN v = 1..2 /\ v[1] = x /\ v[2] = y
  BY ListsOfTwo
<1>2. IsList(a) /\ Len(a) = 3 /\ a[1] = w /\ a[2] = N(x) /\ a[3] = N(y)
  BY ListsOfThree
<1>3. IsList(o) /\ Len(o) = 1 /\ o[1] = w
  BY ShortLists
<1> HIDE DEF v, a, o
<1>4. IsList(Numbers(v)) /\ Len(Numbers(v)) = 2 /\ Numbers(v)[1] = N(x) /\ Numbers(v)[2] = N(y)
  BY <1>1, NumbersAre
<1>5. o \o Numbers(v) = a
  <2> DEFINE b == o \o Numbers(v)
  <2>1. IsList(b)
    BY <1>3, <1>4, JoinedIsList
  <2>2. /\ Len(b) = Len(o) + Len(Numbers(v))
        /\ \A i \in 1..Len(o) : b[i] = o[i]
        /\ \A i \in 1..Len(Numbers(v)) : b[Len(o) + i] = Numbers(v)[i]
    <3>1. IsList(o) /\ IsList(Numbers(v))
      BY <1>3, <1>4
    <3> QED BY <3>1, JoinedPlaces
  <2> HIDE DEF b
  <2>3. Len(b) = 3 /\ b[1] = w
    BY <1>3, <1>4, <2>2
  <2>4. b[2] = N(x) /\ b[3] = N(y)
    <3>1. \A i \in 1..2 : b[1 + i] = Numbers(v)[i]
      BY <1>3, <1>4, <2>2
    <3>2. b[1 + 1] = N(x) /\ b[1 + 2] = N(y)
      BY <1>4, <3>1
    <3> QED BY <3>2
  <2>5. \A i \in 1..3 : i = 1 \/ i = 2 \/ i = 3
    OBVIOUS
  <2>6. \A i \in 1..3 : a[i] = b[i]
    BY <1>2, <2>3, <2>4, <2>5
  <2>7. b = a
    BY <1>2, <2>1, <2>3, <2>6, SameLists
  <2> QED BY <2>7 DEF b
<1>6. IsList(Numbers(v) \o q) /\ NumbersIn(Len(v), Numbers(v) \o q) = {[value |-> v, rest |-> q]}
  BY <1>1, NumbersBack
<1>7. line = o \o (Numbers(v) \o q)
  <2>1. IsList(o) /\ IsList(Numbers(v))
    BY <1>3, <1>4
  <2>2. (o \o Numbers(v)) \o q = o \o (Numbers(v) \o q)
    BY <2>1, JoinedAssociative
  <2> QED BY <1>5, <2>2
<1>8. IsList(line) /\ line # <<>> /\ line[1] = w /\ Tail(line) = Numbers(v) \o q
  BY <1>6, <1>7, TokenFirst DEF o
<1> HIDE DEF line
<1>9. NumbersIn(2, Tail(line)) = {[value |-> v, rest |-> q]}
  BY <1>1, <1>6, <1>8
<1> QED BY <1>1, <1>8, <1>9 DEF line, a, v

LEMMA OneAdded ==
  ASSUME NEW r, IsRecording(r), NEW m \in Nat \ {0}
  PROVE  LET acc == ReadSoFar(r, m - 1)
             next == ReadSoFar(r, m)
         IN  /\ m = 1 => [acc EXCEPT !.header = TRUE] = next
             /\ m = 2 => [acc EXCEPT !.seed = SeedRead(r, m)] = next
             /\ m = 3 => [acc EXCEPT !.duration = DurationRead(r, m)] = next
             /\ m = 4 => [acc EXCEPT !.faults = FaultsRead(r, m)] = next
             /\ m \in 5..(4 + Nodes(r)) => [acc EXCEPT !.nodes = NodesRead(r, m)] = next
             /\ m \in (5 + Nodes(r))..(EndLine(r) - 1) =>
                  [acc EXCEPT !.script = ScriptRead(r, m)] = next
             /\ m = EndLine(r) => [acc EXCEPT !.end = EndRead(r, m)] = next
             /\ m = EndLine(r) + 1 => [acc EXCEPT !.stats = StatsRead(r, m)] = next
             /\ m \in (EndLine(r) + 2)..(EndLine(r) + 1 + Strips(r)) =>
                  [acc EXCEPT !.frames = StripsRead(r, m)] = next
             /\ m > EndLine(r) + 1 + Strips(r) => [acc EXCEPT !.trace = TraceRead(r, m)] = next
             /\ acc.nodes = NodesRead(r, m - 1) /\ acc.script = ScriptRead(r, m - 1)
             /\ acc.frames = StripsRead(r, m - 1) /\ acc.trace = TraceRead(r, m - 1)
<1> DEFINE n == Nodes(r)
           e == EndLine(r)
           k == Strips(r)
           s == Script(r)
           acc == ReadSoFar(r, m - 1)
           next == ReadSoFar(r, m)
           a1 == m - 1 >= 1
           a2 == SeedRead(r, m - 1)
           a3 == DurationRead(r, m - 1)
           a4 == FaultsRead(r, m - 1)
           a5 == NodesRead(r, m - 1)
           a6 == ScriptRead(r, m - 1)
           a7 == EndRead(r, m - 1)
           a8 == StatsRead(r, m - 1)
           a9 == StripsRead(r, m - 1)
           a10 == TraceRead(r, m - 1)
           b1 == m >= 1
           b2 == SeedRead(r, m)
           b3 == DurationRead(r, m)
           b4 == FaultsRead(r, m)
           b5 == NodesRead(r, m)
           b6 == ScriptRead(r, m)
           b7 == EndRead(r, m)
           b8 == StatsRead(r, m)
           b9 == StripsRead(r, m)
           b10 == TraceRead(r, m)
<1>1. /\ m # 1 => b1 = a1
      /\ m # 2 => b2 = a2
      /\ m # 3 => b3 = a3
      /\ m # 4 => b4 = a4
      /\ m \notin 5..(4 + n) => b5 = a5
      /\ m \notin (5 + n)..(e - 1) => b6 = a6
      /\ m # e => b7 = a7
      /\ m # e + 1 => b8 = a8
      /\ m \notin (e + 2)..(e + 1 + k) => b9 = a9
      /\ m <= e + 1 + k => b10 = a10
  BY OthersStay
<1>2. acc = [header |-> a1, seed |-> a2, duration |-> a3, faults |-> a4, nodes |-> a5,
             script |-> a6, end |-> a7, stats |-> a8, frames |-> a9, trace |-> a10]
  BY Zenon DEF ReadSoFar
<1>3. next = [header |-> b1, seed |-> b2, duration |-> b3, faults |-> b4, nodes |-> b5,
              script |-> b6, end |-> b7, stats |-> b8, frames |-> b9, trace |-> b10]
  BY Zenon DEF ReadSoFar
<1>4. n \in Nat /\ s \in Nat /\ k \in Nat /\ e = 5 + n + s
  BY CountsAre DEF EndLine
<1>5. b1 = TRUE
  OBVIOUS
<1> HIDE DEF n, e, k, s, acc, next, a1, a2, a3, a4, a5, a6, a7, a8, a9, a10,
             b1, b2, b3, b4, b5, b6, b7, b8, b9, b10
<1>6. acc.nodes = a5 /\ acc.script = a6 /\ acc.frames = a9 /\ acc.trace = a10
  BY <1>2
<1>7. m = 1 => [acc EXCEPT !.header = TRUE] = next
  <2> SUFFICES ASSUME m = 1
               PROVE  [acc EXCEPT !.header = TRUE] = next
    OBVIOUS
  <2>1. /\ b2 = a2 /\ b3 = a3 /\ b4 = a4 /\ b5 = a5 /\ b6 = a6 /\ b7 = a7 /\ b8 = a8
        /\ b9 = a9 /\ b10 = a10
    BY <1>1, <1>4
  <2>2. [acc EXCEPT !.header = b1] = next
    BY <1>2, <1>3, <2>1
  <2> QED BY <1>5, <2>2, Zenon
<1>8. m = 2 => [acc EXCEPT !.seed = b2] = next
  <2> SUFFICES ASSUME m = 2
               PROVE  [acc EXCEPT !.seed = b2] = next
    OBVIOUS
  <2>1. /\ b1 = a1 /\ b3 = a3 /\ b4 = a4 /\ b5 = a5 /\ b6 = a6 /\ b7 = a7 /\ b8 = a8
        /\ b9 = a9 /\ b10 = a10
    BY <1>1, <1>4
  <2> QED BY <1>2, <1>3, <2>1
<1>9. m = 3 => [acc EXCEPT !.duration = b3] = next
  <2> SUFFICES ASSUME m = 3
               PROVE  [acc EXCEPT !.duration = b3] = next
    OBVIOUS
  <2>1. /\ b1 = a1 /\ b2 = a2 /\ b4 = a4 /\ b5 = a5 /\ b6 = a6 /\ b7 = a7 /\ b8 = a8
        /\ b9 = a9 /\ b10 = a10
    BY <1>1, <1>4
  <2> QED BY <1>2, <1>3, <2>1
<1>10. m = 4 => [acc EXCEPT !.faults = b4] = next
  <2> SUFFICES ASSUME m = 4
               PROVE  [acc EXCEPT !.faults = b4] = next
    OBVIOUS
  <2>1. /\ b1 = a1 /\ b2 = a2 /\ b3 = a3 /\ b5 = a5 /\ b6 = a6 /\ b7 = a7 /\ b8 = a8
        /\ b9 = a9 /\ b10 = a10
    BY <1>1, <1>4
  <2> QED BY <1>2, <1>3, <2>1
<1>11. m \in 5..(4 + n) => [acc EXCEPT !.nodes = b5] = next
  <2> SUFFICES ASSUME m \in 5..(4 + n)
               PROVE  [acc EXCEPT !.nodes = b5] = next
    OBVIOUS
  <2>1. /\ b1 = a1 /\ b2 = a2 /\ b3 = a3 /\ b4 = a4 /\ b6 = a6 /\ b7 = a7 /\ b8 = a8
        /\ b9 = a9 /\ b10 = a10
    BY <1>1, <1>4
  <2> QED BY <1>2, <1>3, <2>1
<1>12. m \in (5 + n)..(e - 1) => [acc EXCEPT !.script = b6] = next
  <2> SUFFICES ASSUME m \in (5 + n)..(e - 1)
               PROVE  [acc EXCEPT !.script = b6] = next
    OBVIOUS
  <2>1. /\ b1 = a1 /\ b2 = a2 /\ b3 = a3 /\ b4 = a4 /\ b5 = a5 /\ b7 = a7 /\ b8 = a8
        /\ b9 = a9 /\ b10 = a10
    BY <1>1, <1>4
  <2> QED BY <1>2, <1>3, <2>1
<1>13. m = e => [acc EXCEPT !.end = b7] = next
  <2> SUFFICES ASSUME m = e
               PROVE  [acc EXCEPT !.end = b7] = next
    OBVIOUS
  <2>1. /\ b1 = a1 /\ b2 = a2 /\ b3 = a3 /\ b4 = a4 /\ b5 = a5 /\ b6 = a6 /\ b8 = a8
        /\ b9 = a9 /\ b10 = a10
    BY <1>1, <1>4
  <2> QED BY <1>2, <1>3, <2>1
<1>14. m = e + 1 => [acc EXCEPT !.stats = b8] = next
  <2> SUFFICES ASSUME m = e + 1
               PROVE  [acc EXCEPT !.stats = b8] = next
    OBVIOUS
  <2>1. /\ b1 = a1 /\ b2 = a2 /\ b3 = a3 /\ b4 = a4 /\ b5 = a5 /\ b6 = a6 /\ b7 = a7
        /\ b9 = a9 /\ b10 = a10
    BY <1>1, <1>4
  <2> QED BY <1>2, <1>3, <2>1
<1>15. m \in (e + 2)..(e + 1 + k) => [acc EXCEPT !.frames = b9] = next
  <2> SUFFICES ASSUME m \in (e + 2)..(e + 1 + k)
               PROVE  [acc EXCEPT !.frames = b9] = next
    OBVIOUS
  <2>1. /\ b1 = a1 /\ b2 = a2 /\ b3 = a3 /\ b4 = a4 /\ b5 = a5 /\ b6 = a6 /\ b7 = a7
        /\ b8 = a8 /\ b10 = a10
    BY <1>1, <1>4
  <2> QED BY <1>2, <1>3, <2>1
<1>16. m > e + 1 + k => [acc EXCEPT !.trace = b10] = next
  <2> SUFFICES ASSUME m > e + 1 + k
               PROVE  [acc EXCEPT !.trace = b10] = next
    OBVIOUS
  <2>1. /\ b1 = a1 /\ b2 = a2 /\ b3 = a3 /\ b4 = a4 /\ b5 = a5 /\ b6 = a6 /\ b7 = a7
        /\ b8 = a8 /\ b9 = a9
    BY <1>1, <1>4
  <2> QED BY <1>2, <1>3, <2>1
<1> QED BY <1>6, <1>7, <1>8, <1>9, <1>10, <1>11, <1>12, <1>13, <1>14, <1>15, <1>16, Zenon
        DEF n, e, k, acc, next, a5, a6, a9, a10, b2, b3, b4, b5, b6, b7, b8, b9, b10

(* What each kind of line reads as. *)
LEMMA NoNote ==
  ASSUME NEW line, NEW key, line # <<>>, line[1] = W(key), key # "#"
  PROVE  ~IsNote(line)
BY DEF IsNote, W

LEMMA PairJoined ==
  \A x, y : <<x>> \o <<y>> = <<x, y>>
<1> SUFFICES ASSUME NEW x, NEW y
             PROVE  <<x>> \o <<y>> = <<x, y>>
  OBVIOUS
<1> DEFINE p == <<x>>
           q == <<y>>
           o == <<x, y>>
           j == p \o q
<1>1. IsList(p) /\ Len(p) = 1 /\ p[1] = x /\ IsList(q) /\ Len(q) = 1 /\ q[1] = y
  BY ShortLists
<1>2. IsList(o) /\ Len(o) = 2 /\ o[1] = x /\ o[2] = y
  BY ListsOfTwo
<1> HIDE DEF p, q, o
<1>3. IsList(p) /\ IsList(q)
  BY <1>1
<1>4. /\ IsList(j) /\ Len(j) = Len(p) + Len(q)
      /\ \A i \in 1..Len(p) : j[i] = p[i]
      /\ \A i \in 1..Len(q) : j[Len(p) + i] = q[i]
  BY <1>3, JoinedIsList, JoinedPlaces
<1> HIDE DEF j
<1>5. Len(j) = 2 /\ j[1] = x
  BY <1>1, <1>4
<1>6. j[2] = y
  <2>1. j[1 + 1] = q[1]
    BY <1>1, <1>4
  <2> QED BY <1>1, <2>1
<1>7. \A i \in 1..2 : j[i] = o[i]
  <2>1. \A i \in 1..2 : i = 1 \/ i = 2
    OBVIOUS
  <2> QED BY <1>2, <1>5, <1>6, <2>1
<1>8. j = o
  BY <1>2, <1>4, <1>5, <1>7, SameLists
<1> QED BY <1>8 DEF j, p, q, o

LEMMA NumberLinesRead ==
  ASSUME NEW acc, NEW x
  PROVE  /\ x = FormatVersion =>
              ReadLine(acc, <<W("lumen-sim-recording"), N(x)>>) = {[acc EXCEPT !.header = TRUE]}
         /\ ReadLine(acc, <<W("end"), N(x)>>) = {[acc EXCEPT !.end = x]}
         /\ \A key \in {"lumen-sim-recording", "seed", "duration_us", "end"} :
              ~IsNote(<<W(key), N(x)>>)
<1> DEFINE t == <<N(x)>>
           r0 == [value |-> x, rest |-> <<>>]
           L(key) == <<W(key), N(x)>>
<1>1. \A key : L(key) # <<>> /\ L(key)[1] = W(key) /\ t = Tail(L(key))
  BY TwoTokens
<1>2. NumberIn(t) = {r0}
  BY NumberAlone
<1>3. r0.value = x
  OBVIOUS
<1> HIDE DEF t, r0, L
<1>4. x = FormatVersion => ReadLine(acc, L("lumen-sim-recording")) = {[acc EXCEPT !.header = TRUE]}
  <2> SUFFICES ASSUME x = FormatVersion
               PROVE  ReadLine(acc, L("lumen-sim-recording")) = {[acc EXCEPT !.header = TRUE]}
    OBVIOUS
  <2> DEFINE line == L("lumen-sim-recording")
  <2>0. line[1] = W("lumen-sim-recording") /\ t = Tail(line)
    BY <1>1
  <2> HIDE DEF line
  <2>1. ReadLine(acc, line)
          = {[acc EXCEPT !.header = TRUE] : r \in {q \in NumberIn(t) : q.value = FormatVersion}}
    BY <2>0 DEF ReadLine, W
  <2>2. {q \in NumberIn(t) : q.value = FormatVersion} = {r0}
    BY <1>2, <1>3
  <2> DEFINE b == [acc EXCEPT !.header = TRUE]
  <2> HIDE DEF b
  <2>3. {b : r \in {r0}} = {b}
    OBVIOUS
  <2> QED BY <2>1, <2>2, <2>3 DEF b, line
<1>7. ReadLine(acc, L("end")) = {[acc EXCEPT !.end = x]}
  <2> DEFINE line == L("end")
  <2>0. line[1] = W("end") /\ t = Tail(line)
    BY <1>1
  <2> HIDE DEF line
  <2>1. ReadLine(acc, line) = {[acc EXCEPT !.end = r.value] : r \in NumberIn(t)}
    BY <2>0 DEF ReadLine, W
  <2>2. {[acc EXCEPT !.end = r.value] : r \in {r0}} = {[acc EXCEPT !.end = r0.value]}
    OBVIOUS
  <2> QED BY <1>2, <1>3, <2>1, <2>2 DEF line
<1>8. \A key \in {"lumen-sim-recording", "seed", "duration_us", "end"} : ~IsNote(L(key))
  <2> TAKE key \in {"lumen-sim-recording", "seed", "duration_us", "end"}
  <2>1. key # "#"
    OBVIOUS
  <2> QED BY <1>1, <2>1, NoNote
<1> QED BY <1>4, <1>7, <1>8 DEF L

LEMMA SettingLinesRead ==
  /\ \A acc, x : ReadLine(acc, <<W("seed"), N(x)>>) = {[acc EXCEPT !.seed = {x}]}
  /\ \A acc, x : ReadLine(acc, <<W("duration_us"), N(x)>>) = {[acc EXCEPT !.duration = {x}]}
<1> SUFFICES ASSUME NEW acc, NEW x
             PROVE  /\ ReadLine(acc, <<W("seed"), N(x)>>) = {[acc EXCEPT !.seed = {x}]}
                    /\ ReadLine(acc, <<W("duration_us"), N(x)>>) = {[acc EXCEPT !.duration = {x}]}
  BY Zenon
<1> DEFINE t == <<N(x)>>
           r0 == [value |-> x, rest |-> <<>>]
           L(key) == <<W(key), N(x)>>
<1>1. \A key : L(key) # <<>> /\ L(key)[1] = W(key) /\ t = Tail(L(key))
  BY TwoTokens
<1>2. NumberIn(t) = {r0}
  BY NumberAlone
<1>3. r0.value = x
  OBVIOUS
<1> HIDE DEF t, r0, L
<1>5. ReadLine(acc, L("seed")) = {[acc EXCEPT !.seed = {x}]}
  <2> DEFINE line == L("seed")
  <2>0. line[1] = W("seed") /\ t = Tail(line)
    BY <1>1
  <2> HIDE DEF line
  <2>1. ReadLine(acc, line) = {[acc EXCEPT !.seed = {r.value}] : r \in NumberIn(t)}
    BY <2>0 DEF ReadLine, W
  <2>2. {[acc EXCEPT !.seed = {r.value}] : r \in {r0}} = {[acc EXCEPT !.seed = {r0.value}]}
    OBVIOUS
  <2> QED BY <1>2, <1>3, <2>1, <2>2 DEF line
<1>6. ReadLine(acc, L("duration_us")) = {[acc EXCEPT !.duration = {x}]}
  <2> DEFINE line == L("duration_us")
  <2>0. line[1] = W("duration_us") /\ t = Tail(line)
    BY <1>1
  <2> HIDE DEF line
  <2>1. ReadLine(acc, line)
          = {[acc EXCEPT !.duration = {r.value}] : r \in NumberIn(t)}
    BY <2>0 DEF ReadLine, W
  <2>2. {[acc EXCEPT !.duration = {r.value}] : r \in {r0}} = {[acc EXCEPT !.duration = {r0.value}]}
    OBVIOUS
  <2> QED BY <1>2, <1>3, <2>1, <2>2 DEF line
<1> QED BY <1>5, <1>6 DEF L

LEMMA NumbersLinesRead ==
  ASSUME NEW acc, NEW v, IsList(v)
  PROVE  /\ Len(v) = 6 =>
              ReadLine(acc, <<W("faults")>> \o Numbers(v)) = {[acc EXCEPT !.faults = v]}
         /\ Len(v) = 7 =>
              ReadLine(acc, <<W("stats")>> \o Numbers(v)) = {[acc EXCEPT !.stats = v]}
         /\ \A key \in {"faults", "stats"} : ~IsNote(<<W(key)>> \o Numbers(v))
<1> DEFINE t == Numbers(v)
           r0 == [value |-> v, rest |-> <<>>]
           L(key) == <<W(key)>> \o t
<1>0. IsList(t)
  BY NumbersAre
<1>1. \A key : L(key) # <<>> /\ L(key)[1] = W(key) /\ t = Tail(L(key))
  BY <1>0, TokenFirst
<1>2. NumbersIn(Len(v), t) = {r0}
  <2>1. IsList(<<>>)
    BY ShortLists
  <2>2. NumbersIn(Len(v), t \o <<>>) = {r0}
    BY <2>1, NumbersBack
  <2> HIDE DEF t
  <2>3. t \o <<>> = t
    BY <1>0, JoinedWithNone
  <2> QED BY <2>2, <2>3
<1>3. r0.value = v
  OBVIOUS
<1> HIDE DEF t, r0, L
<1>4. Len(v) = 6 => ReadLine(acc, L("faults")) = {[acc EXCEPT !.faults = v]}
  <2> DEFINE line == L("faults")
  <2>0. line[1] = W("faults") /\ t = Tail(line)
    BY <1>1
  <2> HIDE DEF line
  <2>1. ReadLine(acc, line) = {[acc EXCEPT !.faults = r.value] : r \in NumbersIn(6, t)}
    BY <2>0 DEF ReadLine, W
  <2>2. {[acc EXCEPT !.faults = r.value] : r \in {r0}} = {[acc EXCEPT !.faults = r0.value]}
    OBVIOUS
  <2> QED BY <1>2, <1>3, <2>1, <2>2 DEF line
<1>5. Len(v) = 7 => ReadLine(acc, L("stats")) = {[acc EXCEPT !.stats = v]}
  <2> DEFINE line == L("stats")
  <2>0. line[1] = W("stats") /\ t = Tail(line)
    BY <1>1
  <2> HIDE DEF line
  <2>1. ReadLine(acc, line) = {[acc EXCEPT !.stats = r.value] : r \in NumbersIn(7, t)}
    BY <2>0 DEF ReadLine, W
  <2>2. {[acc EXCEPT !.stats = r.value] : r \in {r0}} = {[acc EXCEPT !.stats = r0.value]}
    OBVIOUS
  <2> QED BY <1>2, <1>3, <2>1, <2>2 DEF line
<1>6. \A key \in {"faults", "stats"} : ~IsNote(L(key))
  <2> TAKE key \in {"faults", "stats"}
  <2>1. key # "#"
    OBVIOUS
  <2> QED BY <1>1, <2>1, NoNote
<1> QED BY <1>4, <1>5, <1>6 DEF L, t

LEMMA NodeLineRead ==
  ASSUME NEW acc, NEW n, Filled(n, {}, NodeFields)
  PROVE  /\ ReadLine(acc, NodeLine(n)) = {[acc EXCEPT !.nodes = Append(acc.nodes, n)]}
         /\ ~IsNote(NodeLine(n))
<1> DEFINE t == WriteAll(NodeFields, n)
           line == <<W("node")>> \o t
<1>1. IsList(t) /\ ReadAll(<<>>, NodeFields, t) = {n}
  BY NodeBack
<1>2. line # <<>> /\ line[1] = W("node") /\ t = Tail(line)
  BY <1>1, TokenFirst
<1> HIDE DEF t, line
<1>3. ReadLine(acc, line)
        = {[acc EXCEPT !.nodes = Append(acc.nodes, g)] : g \in ReadAll(<<>>, NodeFields, t)}
  BY <1>2 DEF ReadLine, W
<1>4. ~IsNote(line)
  BY <1>2, NoNote
<1>5. {[acc EXCEPT !.nodes = Append(acc.nodes, g)] : g \in {n}}
        = {[acc EXCEPT !.nodes = Append(acc.nodes, n)]}
  OBVIOUS
<1>6. line = NodeLine(n)
  BY DEF NodeLine, line, t
<1> QED BY <1>1, <1>3, <1>4, <1>5, <1>6

LEMMA OpLineRead ==
  ASSUME NEW acc, NEW s, IsEntry(s)
  PROVE  /\ ReadLine(acc, OpLine(s)) = {[acc EXCEPT !.script = Append(acc.script, s)]}
         /\ ~IsNote(OpLine(s))
<1> DEFINE q == OpToText(s.op)
           t == <<N(s.at)>> \o q
           line == <<W("op"), N(s.at)>> \o q
           r0 == [value |-> s.at, rest |-> q]
<1>1. IsList(q) /\ OpFromText(q) = {s.op}
  BY OpBack DEF IsEntry
<1>2. NumberIn(t) = {r0}
  BY <1>1, NumberBack
<1>3. line = <<W("op")>> \o t
  <2> DEFINE o == <<W("op")>>
             p == <<N(s.at)>>
  <2>1. IsList(o) /\ IsList(p)
    BY ShortLists
  <2>2. o \o p = <<W("op"), N(s.at)>>
    BY PairJoined
  <2> HIDE DEF o, p, q
  <2>3. (o \o p) \o q = o \o (p \o q)
    BY <1>1, <2>1, JoinedAssociative
  <2> QED BY <2>2, <2>3 DEF o, p
<1>4. IsList(t)
  BY <1>1, TokenFirst
<1> HIDE DEF line, t
<1>5. line # <<>> /\ line[1] = W("op") /\ t = Tail(line)
  BY <1>3, <1>4, TokenFirst
<1>6. r0.value = s.at /\ r0.rest = q
  OBVIOUS
<1>7. line = OpLine(s)
  BY DEF OpLine, line
<1>8. [at |-> s.at, op |-> s.op] = s
  BY DEF IsEntry
<1> HIDE DEF r0, q
<1>9. ReadLine(acc, line)
        = UNION {{[acc EXCEPT !.script = Append(acc.script, [at |-> r.value, op |-> op])] :
                    op \in OpFromText(r.rest)} : r \in NumberIn(t)}
  BY <1>5 DEF ReadLine, W
<1>10. ~IsNote(line)
  BY <1>5, NoNote
<1>11. UNION {{[acc EXCEPT !.script = Append(acc.script, [at |-> r.value, op |-> op])] :
                 op \in OpFromText(r.rest)} : r \in {r0}}
         = {[acc EXCEPT !.script = Append(acc.script, [at |-> r0.value, op |-> op])] :
              op \in OpFromText(r0.rest)}
  OBVIOUS
<1>12. {[acc EXCEPT !.script = Append(acc.script, [at |-> r0.value, op |-> op])] : op \in {s.op}}
         = {[acc EXCEPT !.script = Append(acc.script, [at |-> r0.value, op |-> s.op])]}
  OBVIOUS
<1> QED BY <1>1, <1>2, <1>6, <1>7, <1>8, <1>9, <1>10, <1>11, <1>12

LEMMA ThreeAndOne ==
  \A x, y, z, u : <<x, y, z>> \o <<u>> = <<x, y, z, u>>
<1> SUFFICES ASSUME NEW x, NEW y, NEW z, NEW u
             PROVE  <<x, y, z>> \o <<u>> = <<x, y, z, u>>
  OBVIOUS
<1> DEFINE p == <<x, y, z>>
           q == <<u>>
           o == <<x, y, z, u>>
           j == p \o q
<1>1. IsList(p) /\ Len(p) = 3 /\ p[1] = x /\ p[2] = y /\ p[3] = z
  BY ListsOfThree
<1>2. IsList(q) /\ Len(q) = 1 /\ q[1] = u
  BY ShortLists
<1>3. IsList(o) /\ Len(o) = 4 /\ o[1] = x /\ o[2] = y /\ o[3] = z /\ o[4] = u
  <2>1. /\ o \in Seq({x, y, z, u}) /\ Len(o) = 4
        /\ o[1] = x /\ o[2] = y /\ o[3] = z /\ o[4] = u
    OBVIOUS
  <2> HIDE DEF o
  <2> QED BY <2>1, ListOfItsOwn DEF IsList
<1> HIDE DEF p, q, o
<1>4. IsList(p) /\ IsList(q)
  BY <1>1, <1>2
<1>5. /\ IsList(j) /\ Len(j) = Len(p) + Len(q)
      /\ \A i \in 1..Len(p) : j[i] = p[i]
      /\ \A i \in 1..Len(q) : j[Len(p) + i] = q[i]
  BY <1>4, JoinedIsList, JoinedPlaces
<1> HIDE DEF j
<1>6. Len(j) = 4 /\ j[1] = x /\ j[2] = y /\ j[3] = z
  BY <1>1, <1>2, <1>5
<1>7. j[4] = u
  <2>1. j[3 + 1] = q[1]
    BY <1>1, <1>2, <1>5
  <2> QED BY <1>2, <2>1
<1>8. \A i \in 1..4 : j[i] = o[i]
  <2>1. \A i \in 1..4 : i = 1 \/ i = 2 \/ i = 3 \/ i = 4
    OBVIOUS
  <2> QED BY <1>3, <1>6, <1>7, <2>1
<1>9. j = o
  BY <1>3, <1>5, <1>6, <1>8, SameLists
<1> QED BY <1>9 DEF j, p, q, o

LEMMA DigestAlone ==
  ASSUME NEW x
  PROVE  DigestIn(<<D(x)>>) = {[value |-> x, rest |-> <<>>]}
<1> DEFINE t == <<D(x)>>
<1>1. t # <<>> /\ t[1] = <<"d", x>> /\ t = <<t[1]>>
  BY DEF D
<1>2. Tail(t) = <<>>
  OBVIOUS
<1> HIDE DEF t
<1>3. t[1][1] = "d" /\ t[1][2] = x
  BY <1>1
<1> QED BY <1>1, <1>2, <1>3 DEF DigestIn, t

LEMMA FrameLineRead ==
  ASSUME NEW acc, NEW rep, NEW id
  PROVE  /\ ReadLine(acc, FrameLine(rep, id))
              = {[acc EXCEPT !.frames =
                    With(acc.frames, id, <<rep.frames[id][1], rep.frames[id][2]>>)]}
         /\ ~IsNote(FrameLine(rep, id))
<1> DEFINE c == rep.frames[id][1]
           d == rep.frames[id][2]
           q == <<D(d)>>
           line == <<W("frames"), N(id), N(c)>> \o q
           v == <<id, c>>
           t == Tail(line)
           r0 == [value |-> v, rest |-> q]
           d0 == [value |-> d, rest |-> <<>>]
<1>1. line = FrameLine(rep, id)
  BY ThreeAndOne DEF FrameLine
<1>2. IsList(q)
  BY ShortLists
<1>3. DigestIn(q) = {d0}
  BY DigestAlone
<1> HIDE DEF q, d
<1>4. /\ line # <<>> /\ line[1] = W("frames")
      /\ NumbersIn(2, t) = {r0}
      /\ v[1] = id /\ v[2] = c
  BY <1>2, TwoNumbersBack
<1>5. r0.value = v /\ r0.rest = q /\ d0.value = d
  OBVIOUS
<1> HIDE DEF line
<1>6. ~IsNote(line)
  BY <1>4, NoNote
<1>7. ReadLine(acc, line)
        = UNION {{[acc EXCEPT !.frames = With(acc.frames, r.value[1], <<r.value[2], e.value>>)] :
                    e \in DigestIn(r.rest)} : r \in NumbersIn(2, t)}
  BY <1>4 DEF ReadLine, W
<1> HIDE DEF r0, d0, v, t, c
<1>8. UNION {{[acc EXCEPT !.frames = With(acc.frames, r.value[1], <<r.value[2], e.value>>)] :
                e \in DigestIn(r.rest)} : r \in {r0}}
        = {[acc EXCEPT !.frames = With(acc.frames, r0.value[1], <<r0.value[2], e.value>>)] :
             e \in DigestIn(r0.rest)}
  OBVIOUS
<1>9. {[acc EXCEPT !.frames = With(acc.frames, r0.value[1], <<r0.value[2], e.value>>)] :
         e \in {d0}}
        = {[acc EXCEPT !.frames = With(acc.frames, r0.value[1], <<r0.value[2], d0.value>>)]}
  OBVIOUS
<1>10. ReadLine(acc, line) = {[acc EXCEPT !.frames = With(acc.frames, id, <<c, d>>)]}
  BY <1>3, <1>4, <1>5, <1>7, <1>8, <1>9
<1> QED BY <1>1, <1>6, <1>10 DEF c, d

LEMMA TraceLineRead ==
  ASSUME NEW acc, NEW e, IsEvent(e)
  PROVE  /\ ReadLine(acc, TraceLine(e)) = {[acc EXCEPT !.trace = Append(acc.trace, e)]}
         /\ ~IsNote(TraceLine(e))
<1> DEFINE q == TraceToText(e.kind)
           line == <<W("trace"), N(e.at), N(e.node)>> \o q
           v == <<e.at, e.node>>
           t == Tail(line)
           r0 == [value |-> v, rest |-> q]
<1>1. line = TraceLine(e)
  BY DEF TraceLine
<1>2. IsList(q) /\ TraceFromText(q) = {e.kind}
  BY TraceBack DEF IsEvent
<1>3. [at |-> e.at, node |-> e.node, kind |-> e.kind] = e
  BY DEF IsEvent
<1> HIDE DEF q
<1>4. /\ line # <<>> /\ line[1] = W("trace")
      /\ NumbersIn(2, t) = {r0}
      /\ v[1] = e.at /\ v[2] = e.node
  BY <1>2, TwoNumbersBack
<1>5. r0.value = v /\ r0.rest = q
  OBVIOUS
<1> HIDE DEF line
<1>6. ~IsNote(line)
  BY <1>4, NoNote
<1>7. ReadLine(acc, line)
        = UNION {{[acc EXCEPT !.trace =
                     Append(acc.trace, [at |-> r.value[1], node |-> r.value[2], kind |-> k])] :
                    k \in TraceFromText(r.rest)} : r \in NumbersIn(2, t)}
  BY <1>4 DEF ReadLine, W
<1> HIDE DEF r0, v, t
<1>8. UNION {{[acc EXCEPT !.trace =
                 Append(acc.trace, [at |-> r.value[1], node |-> r.value[2], kind |-> k])] :
                k \in TraceFromText(r.rest)} : r \in {r0}}
        = {[acc EXCEPT !.trace =
              Append(acc.trace, [at |-> r0.value[1], node |-> r0.value[2], kind |-> k])] :
             k \in TraceFromText(r0.rest)}
  OBVIOUS
<1>9. {[acc EXCEPT !.trace =
          Append(acc.trace, [at |-> r0.value[1], node |-> r0.value[2], kind |-> k])] :
         k \in {e.kind}}
        = {[acc EXCEPT !.trace =
              Append(acc.trace, [at |-> r0.value[1], node |-> r0.value[2], kind |-> e.kind])]}
  OBVIOUS
<1>10. ReadLine(acc, line)
         = {[acc EXCEPT !.trace =
               Append(acc.trace, [at |-> e.at, node |-> e.node, kind |-> e.kind])]}
  BY <1>2, <1>4, <1>5, <1>7, <1>8, <1>9
<1> QED BY <1>1, <1>3, <1>6, <1>10

(* A line after what has been read of those before it reads as one thing:  *)
(* what has been read with it.                                             *)
LEMMA NextLine ==
  ASSUME NEW r, IsRecording(r), NEW m \in 1..Len(ToText(r))
  PROVE  /\ ~IsNote(ToText(r)[m])
         /\ ReadLine(ReadSoFar(r, m - 1), ToText(r)[m]) = {ReadSoFar(r, m)}
<1> DEFINE n == Nodes(r)
           s == Script(r)
           k == Strips(r)
           l == Entries(r)
           e == EndLine(r)
           acc == ReadSoFar(r, m - 1)
           next == ReadSoFar(r, m)
           text == ToText(r)
<1>1. n \in Nat /\ s \in Nat /\ k \in Nat /\ l \in Nat /\ e = 5 + n + s
  BY CountsAre DEF EndLine
<1>2. Len(text) = 6 + n + s + k + l
  BY TextLines
<1>3. m \in Nat \ {0} /\ m <= e + 1 + k + l
  <2>1. m \in 1..(6 + n + s + k + l)
    BY <1>2
  <2> QED BY <1>1, <2>1
<1>4. /\ text[1] = <<W("lumen-sim-recording"), N(FormatVersion)>>
      /\ text[2] = <<W("seed"), N(r.scenario.seed)>>
      /\ text[3] = <<W("duration_us"), N(r.scenario.duration)>>
      /\ text[4] = <<W("faults")>> \o Numbers(r.scenario.faults)
      /\ \A i \in 1..n : text[4 + i] = NodeLine(r.scenario.nodes[i])
      /\ \A i \in 1..s : text[4 + n + i] = OpLine(r.scenario.script[i])
      /\ text[e] = <<W("end"), N(r.report.end)>>
      /\ text[6 + n + s] = <<W("stats")>> \o Numbers(r.report.stats)
      /\ \A i \in 1..k : text[6 + n + s + i] = FrameLine(r.report, IdsOf(r.report)[i])
      /\ \A i \in 1..l : text[6 + n + s + k + i] = TraceLine(r.report.trace[i])
  BY TextLines DEF EndLine
<1>5. /\ m = 1 => [acc EXCEPT !.header = TRUE] = next
      /\ m = 2 => [acc EXCEPT !.seed = SeedRead(r, m)] = next
      /\ m = 3 => [acc EXCEPT !.duration = DurationRead(r, m)] = next
      /\ m = 4 => [acc EXCEPT !.faults = FaultsRead(r, m)] = next
      /\ m \in 5..(4 + n) => [acc EXCEPT !.nodes = NodesRead(r, m)] = next
      /\ m \in (5 + n)..(e - 1) => [acc EXCEPT !.script = ScriptRead(r, m)] = next
      /\ m = e => [acc EXCEPT !.end = EndRead(r, m)] = next
      /\ m = e + 1 => [acc EXCEPT !.stats = StatsRead(r, m)] = next
      /\ m \in (e + 2)..(e + 1 + k) => [acc EXCEPT !.frames = StripsRead(r, m)] = next
      /\ m > e + 1 + k => [acc EXCEPT !.trace = TraceRead(r, m)] = next
      /\ acc.nodes = NodesRead(r, m - 1) /\ acc.script = ScriptRead(r, m - 1)
      /\ acc.frames = StripsRead(r, m - 1) /\ acc.trace = TraceRead(r, m - 1)
  BY <1>3, OneAdded
<1>6. /\ IsList(r.scenario.nodes) /\ DOMAIN r.scenario.nodes = 1..n /\ Len(r.scenario.nodes) = n
      /\ IsList(r.scenario.script) /\ DOMAIN r.scenario.script = 1..s
      /\ Len(r.scenario.script) = s
      /\ IsList(r.report.trace) /\ DOMAIN r.report.trace = 1..l /\ Len(r.report.trace) = l
      /\ Len(IdsOf(r.report)) = k
  BY CountsAre DEF Nodes, Script, Strips, Entries
<1> HIDE DEF n, s, k, l, e, acc, next, text
<1>7. CASE m = 1
  <2>1. [acc EXCEPT !.header = TRUE] = next
    BY <1>5, <1>7
  <2>2. text[m] = <<W("lumen-sim-recording"), N(FormatVersion)>>
    BY <1>4, <1>7
  <2>3. /\ ReadLine(acc, <<W("lumen-sim-recording"), N(FormatVersion)>>)
             = {[acc EXCEPT !.header = TRUE]}
        /\ ~IsNote(<<W("lumen-sim-recording"), N(FormatVersion)>>)
    BY NumberLinesRead
  <2> QED BY <2>1, <2>2, <2>3 DEF acc, next, text
<1>8. CASE m = 2
  <2> DEFINE x == r.scenario.seed
  <2>1. [acc EXCEPT !.seed = {x}] = next
    BY <1>5, <1>8 DEF SeedRead
  <2>2. text[m] = <<W("seed"), N(x)>>
    BY <1>4, <1>8
  <2> HIDE DEF x
  <2>3. ReadLine(acc, <<W("seed"), N(x)>>) = {[acc EXCEPT !.seed = {x}]}
    BY SettingLinesRead
  <2>4. ~IsNote(<<W("seed"), N(x)>>)
    BY NumberLinesRead
  <2> QED BY <2>1, <2>2, <2>3, <2>4 DEF acc, next, text
<1>9. CASE m = 3
  <2> DEFINE x == r.scenario.duration
  <2>1. [acc EXCEPT !.duration = {x}] = next
    BY <1>5, <1>9 DEF DurationRead
  <2>2. text[m] = <<W("duration_us"), N(x)>>
    BY <1>4, <1>9
  <2> HIDE DEF x
  <2>3. ReadLine(acc, <<W("duration_us"), N(x)>>) = {[acc EXCEPT !.duration = {x}]}
    BY SettingLinesRead
  <2>4. ~IsNote(<<W("duration_us"), N(x)>>)
    BY NumberLinesRead
  <2> QED BY <2>1, <2>2, <2>3, <2>4 DEF acc, next, text
<1>10. CASE m = 4
  <2> DEFINE v == r.scenario.faults
  <2>1. [acc EXCEPT !.faults = v] = next
    BY <1>5, <1>10 DEF FaultsRead
  <2>2. text[m] = <<W("faults")>> \o Numbers(v)
    BY <1>4, <1>10
  <2>3. v \in Seq(Nat) /\ Len(v) = 6
    BY ScenarioParts DEF IsRecording
  <2> HIDE DEF v
  <2>4. IsList(v)
    BY <2>3, ListOfItsOwn DEF IsList
  <2>5. /\ ReadLine(acc, <<W("faults")>> \o Numbers(v)) = {[acc EXCEPT !.faults = v]}
        /\ ~IsNote(<<W("faults")>> \o Numbers(v))
    BY <2>3, <2>4, NumbersLinesRead
  <2> QED BY <2>1, <2>2, <2>5 DEF acc, next, text
<1>11. CASE m \in 5..(4 + n)
  <2> DEFINE i == m - 4
             x == r.scenario.nodes[i]
  <2>1. i \in 1..n /\ 4 + i = m /\ m - 1 - 4 \in 0..(n - 1) /\ (m - 1 - 4) + 1 = i
    BY <1>1, <1>11
  <2>2. text[m] = NodeLine(x)
    BY <1>4, <2>1
  <2>3. Filled(x, {}, NodeFields)
    BY <1>6, <2>1, ScenarioParts DEF IsRecording
  <2>4. NodesRead(r, m) = Append(NodesRead(r, m - 1), x)
    <3>1. m - 1 - 4 \in Int
      BY <1>3
    <3> QED BY <1>6, <2>1, <3>1, FirstParts DEF NodesRead
  <2> HIDE DEF x
  <2>5. [acc EXCEPT !.nodes = Append(acc.nodes, x)] = next
    BY <1>5, <1>11, <2>4
  <2>6. /\ ReadLine(acc, NodeLine(x)) = {[acc EXCEPT !.nodes = Append(acc.nodes, x)]}
        /\ ~IsNote(NodeLine(x))
    BY <2>3, NodeLineRead
  <2> QED BY <2>2, <2>5, <2>6 DEF acc, next, text
<1>12. CASE m \in (5 + n)..(e - 1)
  <2> DEFINE i == m - (4 + n)
             x == r.scenario.script[i]
  <2>1. /\ i \in 1..s /\ 4 + n + i = m
        /\ m - 1 - (4 + n) \in 0..(s - 1) /\ (m - 1 - (4 + n)) + 1 = i
    BY <1>1, <1>12
  <2>2. text[m] = OpLine(x)
    BY <1>4, <2>1
  <2>3. IsEntry(x)
    BY <1>6, <2>1, ScenarioParts DEF IsRecording
  <2>4. ScriptRead(r, m) = Append(ScriptRead(r, m - 1), x)
    <3>1. m - 1 - (4 + n) \in Int
      BY <1>1, <1>3
    <3> QED BY <1>6, <2>1, <3>1, FirstParts DEF ScriptRead, n
  <2> HIDE DEF x
  <2>5. [acc EXCEPT !.script = Append(acc.script, x)] = next
    BY <1>5, <1>12, <2>4
  <2>6. /\ ReadLine(acc, OpLine(x)) = {[acc EXCEPT !.script = Append(acc.script, x)]}
        /\ ~IsNote(OpLine(x))
    BY <2>3, OpLineRead
  <2> QED BY <2>2, <2>5, <2>6 DEF acc, next, text
<1>13. CASE m = e
  <2> DEFINE x == r.report.end
  <2>0. EndRead(r, m) = x
    BY <1>1, <1>13 DEF EndRead, e
  <2>1. [acc EXCEPT !.end = x] = next
    BY <1>5, <1>13, <2>0
  <2>2. text[m] = <<W("end"), N(x)>>
    BY <1>4, <1>13
  <2>3. /\ ReadLine(acc, <<W("end"), N(x)>>) = {[acc EXCEPT !.end = x]}
        /\ ~IsNote(<<W("end"), N(x)>>)
    BY NumberLinesRead
  <2> QED BY <2>1, <2>2, <2>3 DEF acc, next, text
<1>14. CASE m = e + 1
  <2> DEFINE v == r.report.stats
  <2>0. StatsRead(r, m) = v
    BY <1>1, <1>14 DEF StatsRead, e
  <2>1. [acc EXCEPT !.stats = v] = next
    BY <1>5, <1>14, <2>0
  <2>2. text[m] = <<W("stats")>> \o Numbers(v)
    <3>1. m = 6 + n + s
      BY <1>1, <1>14
    <3> QED BY <1>4, <3>1
  <2>4. IsList(v) /\ Len(v) = 7
    BY DEF IsRecording, IsReport
  <2> HIDE DEF v
  <2>5. /\ ReadLine(acc, <<W("stats")>> \o Numbers(v)) = {[acc EXCEPT !.stats = v]}
        /\ ~IsNote(<<W("stats")>> \o Numbers(v))
    BY <2>4, NumbersLinesRead
  <2> QED BY <2>1, <2>2, <2>5 DEF acc, next, text
<1>15. CASE m \in (e + 2)..(e + 1 + k)
  <2> DEFINE i == m - (e + 1)
             id == IdsOf(r.report)[i]
             x == <<r.report.frames[id][1], r.report.frames[id][2]>>
  <2>1. /\ i \in 1..k /\ 6 + n + s + i = m
        /\ m - 1 - (e + 1) \in 0..(k - 1) /\ (m - 1 - (e + 1)) + 1 = i
    BY <1>1, <1>15
  <2>2. text[m] = FrameLine(r.report, id)
    BY <1>4, <2>1
  <2>3. With(StripsRead(r, m - 1), id, x) = StripsRead(r, m)
    <3>1. m - 1 - (e + 1) \in Int /\ m - (e + 1) = (m - 1 - (e + 1)) + 1
      BY <1>1, <1>3
    <3>2. IsReport(r.report)
      BY DEF IsRecording
    <3> QED BY <1>6, <2>1, <3>1, <3>2, StripsParts DEF StripsRead, e
  <2> HIDE DEF id
  <2>5. [acc EXCEPT !.frames = With(acc.frames, id, x)] = next
    BY <1>5, <1>15, <2>3
  <2>6. /\ ReadLine(acc, FrameLine(r.report, id)) = {[acc EXCEPT !.frames = With(acc.frames, id, x)]}
        /\ ~IsNote(FrameLine(r.report, id))
    BY FrameLineRead
  <2> QED BY <2>2, <2>5, <2>6 DEF acc, next, text
<1>16. CASE m > e + 1 + k
  <2> DEFINE i == m - (e + 1 + k)
             x == r.report.trace[i]
  <2>1. /\ i \in 1..l /\ 6 + n + s + k + i = m
        /\ m - 1 - (e + 1 + k) \in 0..(l - 1) /\ (m - 1 - (e + 1 + k)) + 1 = i
    BY <1>1, <1>3, <1>16
  <2>2. text[m] = TraceLine(x)
    BY <1>4, <2>1
  <2>3. IsEvent(x)
    BY <1>6, <2>1 DEF IsRecording, IsReport, IsTrace
  <2>4. TraceRead(r, m) = Append(TraceRead(r, m - 1), x)
    <3>1. m - 1 - (e + 1 + k) \in Int
      BY <1>1, <1>3
    <3> QED BY <1>6, <2>1, <3>1, FirstParts DEF TraceRead, e, k
  <2> HIDE DEF x
  <2>5. [acc EXCEPT !.trace = Append(acc.trace, x)] = next
    BY <1>5, <1>16, <2>4
  <2>6. /\ ReadLine(acc, TraceLine(x)) = {[acc EXCEPT !.trace = Append(acc.trace, x)]}
        /\ ~IsNote(TraceLine(x))
    BY <2>3, TraceLineRead
  <2> QED BY <2>2, <2>5, <2>6 DEF acc, next, text
<1>17. \/ m = 1 \/ m = 2 \/ m = 3 \/ m = 4 \/ m \in 5..(4 + n) \/ m \in (5 + n)..(e - 1)
       \/ m = e \/ m = e + 1 \/ m \in (e + 2)..(e + 1 + k) \/ m > e + 1 + k
  BY <1>1, <1>3
<1> QED BY <1>7, <1>8, <1>9, <1>10, <1>11, <1>12, <1>13, <1>14, <1>15, <1>16, <1>17

-----------------------------------------------------------------------------
(* Reading a file, line by line.                                           *)

IsLineLoop(h, text) ==
  h = [n \in 0..Len(text) |->
         IF n = 0 THEN {Unread}
         ELSE IF IsNote(text[n]) THEN h[n - 1]
         ELSE UNION {ReadLine(acc, text[n]) : acc \in h[n - 1]}]

LEMMA LineLoop ==
  ASSUME NEW text, Len(text) \in Nat
  PROVE  \E h : IsLineLoop(h, text) /\ LinesRead(text) = h[Len(text)]
<1> DEFINE m == Len(text)
           base == {Unread}
           Step(r, n) == IF IsNote(text[n]) THEN r ELSE UNION {ReadLine(acc, text[n]) : acc \in r}
           Loop(h, k) == h = [n \in 0..k |-> IF n = 0 THEN base ELSE Step(h[n - 1], n)]
           Some == {k \in Nat : \E h : Loop(h, k)}
           h == CHOOSE g : Loop(g, m)
<1>1. m \in Nat
  OBVIOUS
<1>6. LinesRead(text) = h[m]
  BY Zenon DEF LinesRead
<1> HIDE DEF m, base, Step, h
<1>2. Loop([n \in 0..0 |-> base], 0)
  OBVIOUS
<1>3. ASSUME NEW k \in Nat, NEW f, Loop(f, k)
      PROVE  \E g : Loop(g, k + 1)
  <2> DEFINE g == [n \in 0..(k + 1) |-> IF n = 0 THEN base ELSE Step(f[n - 1], n)]
  <2>1. \A n \in 0..k : g[n] = f[n]
    BY <1>3
  <2>2. \A n \in 0..(k + 1) : n # 0 => n - 1 \in 0..k
    OBVIOUS
  <2>3. \A n \in 0..(k + 1) : n # 0 => Step(f[n - 1], n) = Step(g[n - 1], n)
    <3> HIDE DEF g
    <3> QED BY <2>1, <2>2
  <2>4. Loop(g, k + 1)
    BY <2>3, Zenon
  <2> QED BY <2>4, Zenon
<1>4. 0 \in Some /\ \A k \in Nat : k \in Some => k + 1 \in Some
  <2>1. \E f : Loop(f, 0)
    BY <1>2, Zenon
  <2> HIDE DEF Loop
  <2> QED BY <1>3, <2>1
<1>5. \E f : Loop(f, m)
  <2>1. \A k \in Nat : k \in Some
    <3> HIDE DEF Some
    <3> QED BY <1>4, EveryNumber
  <2> HIDE DEF Loop
  <2> QED BY <1>1, <2>1
<1>7. Loop(h, m)
  <2> HIDE DEF Loop
  <2> QED BY <1>5, Zenon DEF h
<1>8. IsLineLoop(h, text)
  BY <1>7, Zenon DEF IsLineLoop, base, Step, m
<1> QED BY <1>6, <1>8, Zenon DEF m

(* The lines up to a place of a file follow the text of a recording: a     *)
(* line of annotation leaves the reader where it is, another takes it one  *)
(* line on.                                                                *)
Annotations == {<<>>, <<W("#"), W("seed"), N(9)>>}

Along(r, text, m, p) ==
  /\ p[0] = 0
  /\ \A k \in 0..m : p[k] \in 0..Len(ToText(r))
  /\ \A k \in 1..m : \/ text[k] \in Annotations /\ p[k] = p[k - 1]
                     \/ p[k] = p[k - 1] + 1 /\ text[k] = ToText(r)[p[k]]

LEMMA AnnotationsAreNotes == \A line \in Annotations : IsNote(line)
<1>1. <<W("#"), W("seed"), N(9)>>[1] = W("#")
  OBVIOUS
<1> QED BY <1>1 DEF Annotations, IsNote

LEMMA ReadAlong ==
  ASSUME NEW r, IsRecording(r), NEW text, IsList(text), NEW m \in 0..Len(text), NEW p,
         Along(r, text, m, p), NEW h, IsLineLoop(h, text)
  PROVE  \A k \in 0..m : h[k] = {ReadSoFar(r, p[k])}
<1> DEFINE P == {k \in 0..m : h[k] = {ReadSoFar(r, p[k])}}
<1>1. Len(text) \in Nat
  BY ListPlaces
<1>2. Len(ToText(r)) \in Nat
  BY TextLines, ListPlaces
<1>3. /\ h[0] = {Unread}
      /\ \A k \in 1..m :
           h[k] = IF IsNote(text[k]) THEN h[k - 1]
                  ELSE UNION {ReadLine(acc, text[k]) : acc \in h[k - 1]}
  <2>1. \A k \in 0..Len(text) :
          h[k] = IF k = 0 THEN {Unread}
                 ELSE IF IsNote(text[k]) THEN h[k - 1]
                 ELSE UNION {ReadLine(acc, text[k]) : acc \in h[k - 1]}
    BY Zenon DEF IsLineLoop
  <2>2. 0 \in 0..Len(text) /\ \A k \in 1..m : k \in 0..Len(text) /\ k # 0
    BY <1>1
  <2> QED BY <2>1, <2>2, Zenon
<1>4. 0 \in P
  <2>1. ReadSoFar(r, 0) = Unread
    BY NothingRead
  <2>2. p[0] = 0
    BY DEF Along
  <2>3. 0 \in 0..m
    BY <1>1
  <2> QED BY <1>3, <2>1, <2>2, <2>3
<1>5. ASSUME NEW k \in 0..m, k \in P, k + 1 <= m
      PROVE  k + 1 \in P
  <2> DEFINE i == k + 1
             s == ReadSoFar(r, p[k])
             line == text[i]
  <2>1. i \in 1..m /\ i \in 0..m /\ i - 1 = k
    BY <1>1, <1>5
  <2>2. h[k] = {s}
    BY <1>5
  <2>3. h[i] = IF IsNote(line) THEN {s} ELSE UNION {ReadLine(acc, line) : acc \in {s}}
    BY <1>3, <2>1, <2>2
  <2>4. \/ line \in Annotations /\ p[i] = p[k]
        \/ p[i] = p[k] + 1 /\ line = ToText(r)[p[i]]
    BY <2>1 DEF Along
  <2>5. p[i] \in 0..Len(ToText(r)) /\ p[k] \in 0..Len(ToText(r))
    BY <2>1, <1>5 DEF Along
  <2>6. h[i] = {ReadSoFar(r, p[i])}
    <3>1. CASE line \in Annotations /\ p[i] = p[k]
      BY <2>3, <3>1, AnnotationsAreNotes
    <3>2. CASE p[i] = p[k] + 1 /\ line = ToText(r)[p[i]]
      <4>1. p[i] \in 1..Len(ToText(r)) /\ p[i] - 1 = p[k]
        BY <1>2, <2>5, <3>2
      <4>2. ~IsNote(line) /\ ReadLine(s, line) = {ReadSoFar(r, p[i])}
        BY <3>2, <4>1, NextLine
      <4> HIDE DEF s, line
      <4>3. UNION {ReadLine(acc, line) : acc \in {s}} = ReadLine(s, line)
        OBVIOUS
      <4> QED BY <2>3, <4>2, <4>3
    <3> QED BY <2>4, <3>1, <3>2
  <2> QED BY <2>1, <2>6
<1>6. m \in Nat
  BY <1>1
<1>7. \A k \in 0..m : k \in P
  <2> HIDE DEF P
  <2> QED BY <1>4, <1>5, <1>6, EveryNumberUpTo
<1> QED BY <1>7

-----------------------------------------------------------------------------
(* What has become of a file, until it loses its end.                      *)

LEMMA RecordIsRecording ==
  ASSUME NEW sc \in Scenario
  PROVE  IsRecording(Record(sc))
<1>1. IsScenario(sc)
  BY RecordingAssumption
<1>2. IsScenario(Normalise(sc))
  BY <1>1, NormalForm
<1>3. IsReport(Run(sc))
  BY <1>1, RunIsReport
<1> QED BY <1>2, <1>3 DEF Record, IsRecording

LEMMA Inserted ==
  ASSUME NEW q, IsList(q), NEW i \in 1..(Len(q) + 1), NEW x
  PROVE  /\ IsList(InsertAt(q, i, x)) /\ Len(InsertAt(q, i, x)) = Len(q) + 1
         /\ \A k \in 1..(i - 1) : InsertAt(q, i, x)[k] = q[k]
         /\ InsertAt(q, i, x)[i] = x
         /\ \A k \in (i + 1)..(Len(q) + 1) : InsertAt(q, i, x)[k] = q[k - 1]
<1> DEFINE n == Len(q)
           a == SubSeq(q, 1, i - 1)
           b == SubSeq(q, i, n)
           o == <<x>>
           c == a \o o
           t == c \o b
<1>1. n \in Nat /\ i \in Nat \ {0} /\ i - 1 \in 0..n /\ i <= n + 1
  BY ListPlaces
<1>2. /\ IsList(a) /\ Len(a) = i - 1
      /\ \A k \in 1..(i - 1) : a[k] = q[k]
  <2>1. /\ 1 \in Nat \ {0} /\ i - 1 \in 0..Len(q) /\ 1 <= (i - 1) + 1
    BY <1>1
  <2>2. /\ IsList(a) /\ Len(a) = ((i - 1) - 1) + 1
        /\ \A k \in 1..(((i - 1) - 1) + 1) : a[k] = q[(1 + k) - 1]
    BY <2>1, PartOfList
  <2>3. ((i - 1) - 1) + 1 = i - 1 /\ \A k \in 1..(i - 1) : (1 + k) - 1 = k
    BY <1>1
  <2> HIDE DEF a
  <2> QED BY <2>2, <2>3
<1>3. /\ IsList(b) /\ Len(b) = (n - i) + 1
      /\ \A k \in 1..((n - i) + 1) : b[k] = q[(i + k) - 1]
  <2>1. n \in 0..Len(q) /\ i <= n + 1
    BY <1>1
  <2> QED BY <1>1, <2>1, PartOfList
<1>4. IsList(o) /\ Len(o) = 1 /\ o[1] = x
  BY ShortLists
<1>5. InsertAt(q, i, x) = t
  BY DEF InsertAt
<1> HIDE DEF n, a, b, o
<1>6. IsList(a) /\ IsList(b) /\ IsList(o)
  BY <1>2, <1>3, <1>4
<1>7. /\ IsList(c) /\ Len(c) = Len(a) + Len(o)
      /\ \A k \in 1..Len(a) : c[k] = a[k]
      /\ \A k \in 1..Len(o) : c[Len(a) + k] = o[k]
  BY <1>6, JoinedIsList, JoinedPlaces
<1> HIDE DEF c
<1>8. IsList(c) /\ IsList(b)
  BY <1>6, <1>7
<1>9. /\ IsList(t) /\ Len(t) = Len(c) + Len(b)
      /\ \A k \in 1..Len(c) : t[k] = c[k]
      /\ \A k \in 1..Len(b) : t[Len(c) + k] = b[k]
  BY <1>8, JoinedIsList, JoinedPlaces
<1> HIDE DEF t
<1>10. Len(c) = i /\ Len(t) = n + 1
  BY <1>1, <1>2, <1>3, <1>4, <1>7, <1>9
<1>11. \A k \in 1..(i - 1) : t[k] = q[k]
  <2> SUFFICES ASSUME NEW k \in 1..(i - 1)
               PROVE  t[k] = q[k]
    OBVIOUS
  <2>1. k \in 1..Len(c) /\ k \in 1..Len(a)
    BY <1>1, <1>2, <1>10
  <2> QED BY <1>2, <1>7, <1>9, <2>1
<1>12. t[i] = x
  <2>1. i \in 1..Len(c) /\ 1 \in 1..Len(o) /\ Len(a) + 1 = i
    BY <1>1, <1>2, <1>4, <1>10
  <2>2. t[i] = c[i]
    BY <1>9, <2>1
  <2>3. c[Len(a) + 1] = o[1]
    BY <1>7, <2>1
  <2> QED BY <1>4, <2>1, <2>2, <2>3
<1>13. \A k \in (i + 1)..(n + 1) : t[k] = q[k - 1]
  <2> SUFFICES ASSUME NEW k \in (i + 1)..(n + 1)
               PROVE  t[k] = q[k - 1]
    OBVIOUS
  <2> DEFINE j == k - i
  <2>1. j \in 1..Len(b) /\ Len(c) + j = k /\ j \in 1..((n - i) + 1) /\ (i + j) - 1 = k - 1
    BY <1>1, <1>3, <1>10
  <2>2. t[Len(c) + j] = b[j]
    BY <1>9, <2>1
  <2>3. b[j] = q[(i + j) - 1]
    BY <1>3, <2>1
  <2> QED BY <2>1, <2>2, <2>3
<1> QED BY <1>5, <1>9, <1>10, <1>11, <1>12, <1>13 DEF n

LEMMA AnnotatedAlong ==
  ASSUME NEW r, NEW text, IsList(text), NEW p, Along(r, text, Len(text), p),
         NEW i \in 1..(Len(text) + 1), NEW line \in Annotations
  PROVE  LET with == InsertAt(text, i, line)
         IN  \E q : Along(r, with, Len(with), q) /\ q[Len(with)] = p[Len(text)]
<1> DEFINE n == Len(text)
           with == InsertAt(text, i, line)
           q == [k \in 0..(n + 1) |-> IF k < i THEN p[k] ELSE p[k - 1]]
<1>1. n \in Nat /\ i \in 1..(n + 1)
  BY ListPlaces
<1>2. /\ Len(with) = n + 1
      /\ \A k \in 1..(i - 1) : with[k] = text[k]
      /\ with[i] = line
      /\ \A k \in (i + 1)..(n + 1) : with[k] = text[k - 1]
  BY Inserted
<1>3. /\ p[0] = 0
      /\ \A k \in 0..n : p[k] \in 0..Len(ToText(r))
      /\ \A k \in 1..n : \/ text[k] \in Annotations /\ p[k] = p[k - 1]
                         \/ p[k] = p[k - 1] + 1 /\ text[k] = ToText(r)[p[k]]
  BY DEF Along
<1>4. \A k \in 0..(n + 1) : /\ k < i => q[k] = p[k]
                            /\ ~(k < i) => q[k] = p[k - 1]
  OBVIOUS
<1> HIDE DEF n, with, q
<1>5. q[0] = 0
  BY <1>1, <1>3, <1>4
<1>6. \A k \in 0..(n + 1) : q[k] \in 0..Len(ToText(r))
  <2> SUFFICES ASSUME NEW k \in 0..(n + 1)
               PROVE  q[k] \in 0..Len(ToText(r))
    OBVIOUS
  <2>1. CASE k < i
    <3>1. k \in 0..n
      BY <1>1, <2>1
    <3> QED BY <1>3, <1>4, <2>1, <3>1
  <2>2. CASE ~(k < i)
    <3>1. k - 1 \in 0..n
      BY <1>1, <2>2
    <3> QED BY <1>3, <1>4, <2>2, <3>1
  <2> QED BY <2>1, <2>2
<1>7. \A k \in 1..(n + 1) : \/ with[k] \in Annotations /\ q[k] = q[k - 1]
                            \/ q[k] = q[k - 1] + 1 /\ with[k] = ToText(r)[q[k]]
  <2> SUFFICES ASSUME NEW k \in 1..(n + 1)
               PROVE  \/ with[k] \in Annotations /\ q[k] = q[k - 1]
                      \/ q[k] = q[k - 1] + 1 /\ with[k] = ToText(r)[q[k]]
    OBVIOUS
  <2>0. k \in 0..(n + 1) /\ k - 1 \in 0..(n + 1)
    BY <1>1
  <2>1. CASE k < i
    <3>1. k \in 1..n /\ k \in 1..(i - 1) /\ k - 1 < i
      BY <1>1, <2>1
    <3>2. q[k] = p[k] /\ q[k - 1] = p[k - 1] /\ with[k] = text[k]
      BY <1>2, <1>4, <2>0, <2>1, <3>1
    <3> QED BY <1>3, <3>1, <3>2
  <2>2. CASE k = i
    <3>1. ~(k < i) /\ k - 1 < i
      BY <1>1, <2>2
    <3>2. q[k] = p[k - 1] /\ q[k - 1] = p[k - 1]
      BY <1>4, <2>0, <3>1
    <3>3. with[k] \in Annotations
      BY <1>2, <2>2
    <3> QED BY <3>2, <3>3
  <2>3. CASE k > i
    <3> DEFINE j == k - 1
    <3>1. j \in 1..n /\ k \in (i + 1)..(n + 1) /\ ~(k < i) /\ ~(j < i) /\ j \in 0..(n + 1)
      BY <1>1, <2>3
    <3>2. q[k] = p[j] /\ q[j] = p[j - 1] /\ with[k] = text[j]
      BY <1>2, <1>4, <2>0, <3>1
    <3> QED BY <1>3, <3>1, <3>2
  <2>4. k < i \/ k = i \/ k > i
    BY <1>1
  <2> QED BY <2>1, <2>2, <2>3, <2>4
<1>8. q[n + 1] = p[n]
  <2>1. n + 1 \in 0..(n + 1) /\ ~(n + 1 < i) /\ (n + 1) - 1 = n
    BY <1>1
  <2> QED BY <1>4, <2>1
<1>9. Along(r, with, Len(with), q) /\ q[Len(with)] = p[n]
  BY <1>2, <1>5, <1>6, <1>7, <1>8 DEF Along
<1> QED BY <1>9, Zenon DEF n, with

(* The text of a recording, annotated, and nothing else. *)
Annotated(r, text) ==
  /\ IsList(text)
  /\ \E p : Along(r, text, Len(text), p) /\ p[Len(text)] = Len(ToText(r))

LEMMA TextIsAnnotated ==
  ASSUME NEW r, IsRecording(r)
  PROVE  Annotated(r, ToText(r))
<1> DEFINE m == Len(ToText(r))
           p == [k \in 0..m |-> k]
<1>1. IsList(ToText(r)) /\ m \in Nat
  BY TextLines, ListPlaces
<1>2. \A k \in 0..m : p[k] = k
  OBVIOUS
<1> HIDE DEF m, p
<1>3. p[0] = 0 /\ p[m] = m
  BY <1>1, <1>2
<1>4. \A k \in 0..m : p[k] \in 0..Len(ToText(r))
  BY <1>2 DEF m
<1>5. \A k \in 1..m : p[k] = p[k - 1] + 1 /\ ToText(r)[k] = ToText(r)[p[k]]
  <2> SUFFICES ASSUME NEW k \in 1..m
               PROVE  p[k] = p[k - 1] + 1 /\ ToText(r)[k] = ToText(r)[p[k]]
    OBVIOUS
  <2>1. k \in 0..m /\ k - 1 \in 0..m /\ (k - 1) + 1 = k
    BY <1>1
  <2> QED BY <1>2, <2>1
<1>6. Along(r, ToText(r), m, p)
  BY <1>3, <1>4, <1>5 DEF Along
<1> QED BY <1>1, <1>3, <1>6 DEF Annotated, m

LEMMA AnnotatedReads ==
  ASSUME NEW r, IsRecording(r), NEW text, Annotated(r, text)
  PROVE  FromText(text) = {r}
<1>1. PICK p : Along(r, text, Len(text), p) /\ p[Len(text)] = Len(ToText(r))
  BY DEF Annotated
<1>2. IsList(text) /\ Len(text) \in Nat
  BY ListPlaces DEF Annotated
<1>3. PICK h : IsLineLoop(h, text) /\ LinesRead(text) = h[Len(text)]
  BY <1>2, LineLoop
<1> DEFINE m == Len(ToText(r))
           a == ReadSoFar(r, m)
<1>4. LinesRead(text) = {a}
  <2>1. Len(text) \in 0..Len(text)
    BY <1>2
  <2>2. \A k \in 0..Len(text) : h[k] = {ReadSoFar(r, p[k])}
    BY <1>1, <1>2, <1>3, <2>1, ReadAlong
  <2> QED BY <1>1, <1>3, <2>1, <2>2
<1>5. m \in Nat /\ m >= EndLine(r) - 1 /\ m >= EndLine(r) + 1 + Strips(r) + Entries(r)
  BY TextLines, CountsAre DEF EndLine
<1>6. /\ (m >= 1) = TRUE
      /\ SeedRead(r, m) = {r.scenario.seed} /\ DurationRead(r, m) = {r.scenario.duration}
      /\ FaultsRead(r, m) = r.scenario.faults
      /\ NodesRead(r, m) = r.scenario.nodes /\ ScriptRead(r, m) = r.scenario.script
      /\ EndRead(r, m) = r.report.end /\ StatsRead(r, m) = r.report.stats
      /\ StripsRead(r, m) = r.report.frames /\ TraceRead(r, m) = r.report.trace
  BY <1>5, AllRead
<1>7. /\ a.header = TRUE /\ a.seed = {r.scenario.seed} /\ a.duration = {r.scenario.duration}
      /\ a.faults = r.scenario.faults /\ a.nodes = r.scenario.nodes
      /\ a.script = r.scenario.script /\ a.end = r.report.end /\ a.stats = r.report.stats
      /\ a.frames = r.report.frames /\ a.trace = r.report.trace
  <2> HIDE DEF m
  <2>1. /\ a.header = (m >= 1) /\ a.seed = SeedRead(r, m) /\ a.duration = DurationRead(r, m)
        /\ a.faults = FaultsRead(r, m) /\ a.nodes = NodesRead(r, m)
        /\ a.script = ScriptRead(r, m) /\ a.end = EndRead(r, m) /\ a.stats = StatsRead(r, m)
        /\ a.frames = StripsRead(r, m) /\ a.trace = TraceRead(r, m)
    BY DEF ReadSoFar
  <2> QED BY <1>6, <2>1
<1> HIDE DEF a, m
<1> DEFINE sc == r.scenario
           rep == r.report
<1>8. /\ sc = [seed |-> sc.seed, duration |-> sc.duration, nodes |-> sc.nodes,
               faults |-> sc.faults, script |-> sc.script]
      /\ rep = [trace |-> rep.trace, end |-> rep.end, stats |-> rep.stats, frames |-> rep.frames]
      /\ r = [scenario |-> sc, report |-> rep]
  BY ScenarioParts DEF IsRecording, IsReport
<1>9. Recordings(a) = {r}
  <2> DEFINE G == [seed : a.seed, duration : a.duration]
             R(g) == [scenario |-> [seed |-> g.seed, duration |-> g.duration, nodes |-> a.nodes,
                                    faults |-> a.faults, script |-> a.script],
                      report |-> [trace |-> a.trace, end |-> a.end, stats |-> a.stats,
                                  frames |-> a.frames]]
             g0 == [seed |-> sc.seed, duration |-> sc.duration]
  <2>1. G = {g0}
    <3> DEFINE x == sc.seed
               y == sc.duration
    <3>1. a.seed = {x} /\ a.duration = {y}
      BY <1>7
    <3> HIDE DEF x, y
    <3>2. \A g \in [seed : {x}, duration : {y}] : g = [seed |-> x, duration |-> y]
      OBVIOUS
    <3>3. [seed |-> x, duration |-> y] \in [seed : {x}, duration : {y}]
      OBVIOUS
    <3>4. [seed : {x}, duration : {y}] = {[seed |-> x, duration |-> y]}
      <4> DEFINE A == [seed : {x}, duration : {y}]
                 b == [seed |-> x, duration |-> y]
      <4>1. (\A g \in A : g = b) /\ b \in A
        BY <3>2, <3>3
      <4> HIDE DEF A, b
      <4>2. A = {b}
        BY <4>1
      <4> QED BY <4>2 DEF A, b
    <3> QED BY <3>1, <3>4 DEF x, y
  <2>2. g0.seed = sc.seed /\ g0.duration = sc.duration
    OBVIOUS
  <2>3. Recordings(a) = {R(g) : g \in G}
    BY Zenon DEF Recordings
  <2> HIDE DEF g0, G
  <2>4. R(g0) = r
    BY <1>7, <1>8, <2>2
  <2> HIDE DEF R
  <2>5. {R(g) : g \in {g0}} = {R(g0)}
    OBVIOUS
  <2> QED BY <2>1, <2>3, <2>4, <2>5
<1>10. {b \in {a} : b.header} = {a}
  BY <1>7
<1>11. UNION {Recordings(b) : b \in {a}} = Recordings(a)
  OBVIOUS
<1> QED BY <1>4, <1>9, <1>10, <1>11 DEF FromText

(* What is known of a recording and of its file. *)
Kept ==
  /\ IsRecording(recording)
  /\ ~cut => Annotated(recording, file)

LEMMA KeptStays == RecordingSpec => []Kept
<1>1. RecordingInit => Kept
  <2> SUFFICES ASSUME RecordingInit
               PROVE  Kept
    OBVIOUS
  <2>1. IsRecording(recording)
    BY RecordIsRecording DEF RecordingInit
  <2> QED BY <2>1, TextIsAnnotated DEF RecordingInit, Kept
<1>2. Kept /\ [RecordingNext]_recordingVars => Kept'
  <2> SUFFICES ASSUME Kept, [RecordingNext]_recordingVars
               PROVE  Kept'
    OBVIOUS
  <2>1. CASE Annotate
    <3>1. PICK i \in 1..(Len(file) + 1), line \in Annotations : file' = InsertAt(file, i, line)
      BY <2>1 DEF Annotate, Annotations
    <3>2. recording' = recording /\ cut' = cut /\ ~cut
      BY <2>1 DEF Annotate
    <3>3. PICK p : Along(recording, file, Len(file), p) /\ p[Len(file)] = Len(ToText(recording))
      BY <3>2 DEF Kept, Annotated
    <3>4. IsList(file)
      BY <3>2 DEF Kept, Annotated
    <3>5. PICK q : /\ Along(recording, file', Len(file'), q)
                   /\ q[Len(file')] = Len(ToText(recording))
      BY <3>1, <3>3, <3>4, AnnotatedAlong
    <3>6. IsList(file')
      BY <3>1, <3>4, Inserted
    <3>7. Annotated(recording, file')
      BY <3>5, <3>6 DEF Annotated
    <3> QED BY <3>2, <3>7 DEF Kept
  <2>2. CASE Lose
    BY <2>2 DEF Lose, Kept
  <2>3. CASE Check
    BY <2>3 DEF Check, Kept
  <2>4. CASE UNCHANGED recordingVars
    BY <2>4 DEF recordingVars, Kept
  <2> QED BY <2>1, <2>2, <2>3, <2>4 DEF RecordingNext
<1> QED BY <1>1, <1>2, PTL DEF RecordingSpec

(* What was written of a run is what is read, field by field, however the  *)
(* file is annotated (record.rs: every field has a token, and the reader   *)
(* takes the fields in the order in which they were written).              *)
THEOREM RecordingsReadBack == RecordingSpec => []ReadsBack
<1>1. Kept => ReadsBack
  BY AnnotatedReads DEF Kept, ReadsBack
<1> QED BY <1>1, KeptStays, PTL

-----------------------------------------------------------------------------
(* A reader yields one thing or none.                                      *)

AtMostOne(S) == \A x, y \in S : x = y

LEMMA OneNumber ==
  /\ \A count, t : AtMostOne(NumbersIn(count, t))
  /\ \A t : AtMostOne(NumberIn(t))
<1>1. ASSUME NEW count, NEW t
      PROVE  AtMostOne(NumbersIn(count, t))
  <2> DEFINE v == [value |-> [i \in 1..count |-> t[i][2]], rest |-> SubSeq(t, count + 1, Len(t))]
             fits == Len(t) >= count /\ \A i \in 1..count : t[i][1] = "n"
  <2>1. NumbersIn(count, t) = IF fits THEN {v} ELSE {}
    BY Zenon DEF NumbersIn
  <2> HIDE DEF v, fits
  <2> QED BY <2>1 DEF AtMostOne
<1>2. ASSUME NEW t
      PROVE  AtMostOne(NumberIn(t))
  <2>1. AtMostOne(NumbersIn(1, t))
    BY <1>1
  <2> QED BY <2>1 DEF NumberIn, AtMostOne
<1> QED BY <1>1, <1>2

LEMMA OneRead ==
  ASSUME NEW f, NEW t
  PROVE  AtMostOne(Read(f, t))
<1>1. AtMostOne(BytesIn(t))
  <2> DEFINE a == [value |-> <<>>, rest |-> Tail(t)]
             b == [value |-> t[1][2], rest |-> Tail(t)]
  <2>1. BytesIn(t) \in {{}, {a}, {b}}
    BY DEF BytesIn
  <2> HIDE DEF a, b
  <2> QED BY <2>1 DEF AtMostOne
<1>2. AtMostOne(PrefixIn(t))
  BY <1>1 DEF PrefixIn, AtMostOne
<1>3. AtMostOne(DigestIn(t))
  <2> DEFINE a == [value |-> t[1][2], rest |-> Tail(t)]
  <2>1. DigestIn(t) \in {{}, {a}}
    BY DEF DigestIn
  <2> HIDE DEF a
  <2> QED BY <2>1 DEF AtMostOne
<1>4. \A words : AtMostOne(WordIn(words, t))
  <2> TAKE words
  <2> DEFINE a == [value |-> t[1][2], rest |-> Tail(t)]
  <2>1. WordIn(words, t) \in {{}, {a}}
    BY DEF WordIn
  <2> HIDE DEF a
  <2> QED BY <2>1 DEF AtMostOne
<1> DEFINE Dest == IF t # <<>> /\ t[1] = W("mesh") THEN {[value |-> <<>>, rest |-> Tail(t)]}
                   ELSE PrefixIn(t)
           Listed == UNION {NumbersIn(r.value, r.rest) : r \in NumberIn(t)}
           Flag == {[value |-> r.value # 0, rest |-> r.rest] : r \in NumberIn(t)}
<1>5. AtMostOne(Dest)
  <2> DEFINE a == [value |-> <<>>, rest |-> Tail(t)]
  <2>1. Dest = {a} \/ Dest = PrefixIn(t)
    OBVIOUS
  <2> HIDE DEF a, Dest
  <2> QED BY <1>2, <2>1 DEF AtMostOne
<1>6. AtMostOne(Listed)
  <2> SUFFICES ASSUME NEW x \in Listed, NEW y \in Listed
               PROVE  x = y
    BY DEF AtMostOne
  <2>1. PICK q \in NumberIn(t) : x \in NumbersIn(q.value, q.rest)
    OBVIOUS
  <2>2. PICK s \in NumberIn(t) : y \in NumbersIn(s.value, s.rest)
    OBVIOUS
  <2>3. q = s
    BY OneNumber DEF AtMostOne
  <2> QED BY <2>1, <2>2, <2>3, OneNumber DEF AtMostOne
<1>7. AtMostOne(Flag)
  <2> SUFFICES ASSUME NEW x \in Flag, NEW y \in Flag
               PROVE  x = y
    BY DEF AtMostOne
  <2>1. PICK q \in NumberIn(t) : x = [value |-> q.value # 0, rest |-> q.rest]
    OBVIOUS
  <2>2. PICK s \in NumberIn(t) : y = [value |-> s.value # 0, rest |-> s.rest]
    OBVIOUS
  <2>3. q = s
    BY OneNumber DEF AtMostOne
  <2> QED BY <2>1, <2>2, <2>3, Zenon
<1> HIDE DEF Dest, Listed, Flag
<1>8. Read(f, t) \in {BytesIn(t), PrefixIn(t), DigestIn(t), Listed, NumbersIn(6, t), Flag, Dest,
                      WordIn(WordsOf(f), t), NumberIn(t)}
  BY DEF Read, Dest, Listed, Flag
<1> QED BY <1>1, <1>2, <1>3, <1>4, <1>5, <1>6, <1>7, <1>8, OneNumber

LEMMA OneReadAll ==
  ASSUME NEW r, NEW fields, IsList(fields), NEW t
  PROVE  AtMostOne(ReadAll(r, fields, t))
<1> DEFINE m == Len(fields)
<1>1. m \in Nat
  BY ListPlaces
<1>2. PICK g : IsReadLoop(g, r, fields, t) /\ ReadAll(r, fields, t) = {p.record : p \in g[m]}
  BY <1>1, ReadLoop
<1> HIDE DEF m
<1>3. \A n \in 0..m :
        g[n] = IF n = 0 THEN {[record |-> r, rest |-> t]}
               ELSE UNION {{[record |-> With(q.record, fields[n], x.value), rest |-> x.rest] :
                              x \in Read(fields[n], q.rest)} : q \in g[n - 1]}
  BY <1>2, Zenon DEF IsReadLoop, m
<1> DEFINE P == {n \in 0..m : AtMostOne(g[n])}
<1>4. 0 \in P
  <2>1. 0 \in 0..m
    BY <1>1
  <2> DEFINE p == [record |-> r, rest |-> t]
  <2>2. g[0] = {p}
    BY <1>3, <2>1
  <2> HIDE DEF p
  <2> QED BY <2>1, <2>2 DEF AtMostOne
<1>5. ASSUME NEW n \in 0..m, n \in P, n + 1 <= m
      PROVE  n + 1 \in P
  <2> DEFINE f == fields[n + 1]
             Out(q, x) == [record |-> With(q.record, f, x.value), rest |-> x.rest]
  <2>1. n + 1 \in 0..m /\ n + 1 # 0 /\ (n + 1) - 1 = n
    BY <1>1, <1>5
  <2>2. g[n + 1] = UNION {{Out(q, x) : x \in Read(f, q.rest)} : q \in g[n]}
    BY <1>3, <2>1
  <2> HIDE DEF Out, f
  <2>3. ASSUME NEW a \in g[n + 1], NEW b \in g[n + 1]
        PROVE  a = b
    <3>1. PICK q \in g[n] : a \in {Out(q, x) : x \in Read(f, q.rest)}
      BY <2>2
    <3>2. PICK s \in g[n] : b \in {Out(s, x) : x \in Read(f, s.rest)}
      BY <2>2
    <3>3. q = s
      BY <1>5 DEF AtMostOne
    <3>4. PICK x \in Read(f, q.rest) : a = Out(q, x)
      BY <3>1
    <3>5. PICK y \in Read(f, s.rest) : b = Out(s, y)
      BY <3>2
    <3>6. x = y
      BY <3>3, OneRead DEF AtMostOne
    <3> QED BY <3>3, <3>4, <3>5, <3>6
  <2>4. AtMostOne(g[n + 1])
    BY <2>3 DEF AtMostOne
  <2> QED BY <2>1, <2>4
<1>6. \A n \in 0..m : n \in P
  <2> HIDE DEF P
  <2> QED BY <1>1, <1>4, <1>5, EveryNumberUpTo
<1>7. AtMostOne(g[m])
  <2>1. m \in 0..m
    BY <1>1
  <2> QED BY <1>6, <2>1
<1> QED BY <1>2, <1>7 DEF AtMostOne

LEMMA OneTrace ==
  ASSUME NEW t, IsList(t)
  PROVE  AtMostOne(TraceFromText(t))
<1> DEFINE Fit(y) == Len(y) <= Len(t) /\ Words(y) = SubSeq(t, 1, Len(y))
           All(y) == ReadAll([type |-> y], TraceFields(y), SubSeq(t, Len(y) + 1, Len(t)))
<1>1. Len(t) \in Nat
  BY ListPlaces
<1>2. ASSUME NEW y \in TraceTypes, Fit(y)
      PROVE  \A i \in 1..Len(y) : W(y[i]) = t[i]
  <2> DEFINE u == Words(y)
  <2>1. IsList(y) /\ Len(y) \in {1, 2}
    BY TypeShape
  <2>2. \A i \in 1..Len(y) : u[i] = W(y[i])
    BY <2>1, WordsAre
  <2> HIDE DEF u
  <2>3. Len(y) \in 0..Len(t) /\ 1 \in Nat \ {0} /\ 1 <= Len(y) + 1
    BY <1>1, <1>2, <2>1
  <2>4. \A i \in 1..((Len(y) - 1) + 1) : SubSeq(t, 1, Len(y))[i] = t[(1 + i) - 1]
    BY <2>3, PartOfList
  <2>5. \A i \in 1..Len(y) : i \in 1..((Len(y) - 1) + 1) /\ (1 + i) - 1 = i
    BY <2>1
  <2> QED BY <1>2, <2>2, <2>4, <2>5 DEF u
<1>3. ASSUME NEW y \in TraceTypes, NEW z \in TraceTypes, Fit(y), Fit(z)
      PROVE  y = z
  <2>1. /\ IsList(y) /\ Len(y) \in {1, 2} /\ (y[1] \in {"rx", "frame"} <=> Len(y) = 1)
        /\ IsList(z) /\ Len(z) \in {1, 2} /\ (z[1] \in {"rx", "frame"} <=> Len(z) = 1)
    BY TypeShape
  <2>2. \A a, b : W(a) = W(b) => a = b
    BY DEF W
  <2>3. \A i \in 1..Len(y) : i \in 1..Len(z) => y[i] = z[i]
    <3>1. \A i \in 1..Len(y) : W(y[i]) = t[i]
      BY <1>2, <1>3
    <3>2. \A i \in 1..Len(z) : W(z[i]) = t[i]
      BY <1>2, <1>3
    <3> QED BY <2>2, <3>1, <3>2
  <2>4. y[1] = z[1]
    BY <2>1, <2>3
  <2>5. Len(y) = Len(z)
    BY <2>1, <2>4
  <2> QED BY <2>1, <2>3, <2>5, SameLists
<1>4. TraceFromText(t) = UNION {All(y) : y \in {z \in TraceTypes : Fit(z)}}
  BY Zenon DEF TraceFromText
<1>5. \A y : AtMostOne(All(y))
  BY FieldLists, OneReadAll
<1> HIDE DEF Fit, All
<1>6. ASSUME NEW a \in TraceFromText(t), NEW b \in TraceFromText(t)
      PROVE  a = b
  <2>1. PICK y \in TraceTypes : Fit(y) /\ a \in All(y)
    BY <1>4
  <2>2. PICK z \in TraceTypes : Fit(z) /\ b \in All(z)
    BY <1>4
  <2>3. y = z
    BY <1>3, <2>1, <2>2
  <2> QED BY <1>5, <2>1, <2>2, <2>3 DEF AtMostOne
<1> QED BY <1>6 DEF AtMostOne

-----------------------------------------------------------------------------
(* What is left of a line that lost its end, and what it reads as.         *)

HeadKeys == {"lumen-sim-recording", "seed", "faults", "node", "op"}
TailKeys == {"end", "stats", "frames", "trace"}

LEMMA LineShape ==
  ASSUME NEW r, IsRecording(r), NEW m \in 1..Len(ToText(r))
  PROVE  /\ IsList(ToText(r)[m])
         /\ m = 3 => ToText(r)[m] = <<W("duration_us"), N(r.scenario.duration)>>
         /\ m # 3 /\ m < EndLine(r) => \E key \in HeadKeys : ToText(r)[m][1] = W(key)
         /\ m >= EndLine(r) => \E key \in TailKeys : ToText(r)[m][1] = W(key)
<1> DEFINE n == Nodes(r)
           s == Script(r)
           k == Strips(r)
           l == Entries(r)
           e == EndLine(r)
           text == ToText(r)
           line == text[m]
           Early == IsList(line) /\ \E key \in HeadKeys : line[1] = W(key)
           End == IsList(line) /\ \E key \in TailKeys : line[1] = W(key)
<1>1. n \in Nat /\ s \in Nat /\ k \in Nat /\ l \in Nat /\ e = 5 + n + s
  BY CountsAre DEF EndLine
<1>2. Len(text) = 6 + n + s + k + l
  BY TextLines
<1>3. m \in Nat \ {0} /\ m <= e + 1 + k + l
  <2>1. m \in 1..(6 + n + s + k + l)
    BY <1>2
  <2> QED BY <1>1, <2>1
<1>4. /\ text[1] = <<W("lumen-sim-recording"), N(FormatVersion)>>
      /\ text[2] = <<W("seed"), N(r.scenario.seed)>>
      /\ text[3] = <<W("duration_us"), N(r.scenario.duration)>>
      /\ text[4] = <<W("faults")>> \o Numbers(r.scenario.faults)
      /\ \A i \in 1..n : text[4 + i] = NodeLine(r.scenario.nodes[i])
      /\ \A i \in 1..s : text[4 + n + i] = OpLine(r.scenario.script[i])
      /\ text[e] = <<W("end"), N(r.report.end)>>
      /\ text[6 + n + s] = <<W("stats")>> \o Numbers(r.report.stats)
      /\ \A i \in 1..k : text[6 + n + s + i] = FrameLine(r.report, IdsOf(r.report)[i])
      /\ \A i \in 1..l : text[6 + n + s + k + i] = TraceLine(r.report.trace[i])
  BY TextLines DEF EndLine
<1>6. /\ IsList(r.scenario.nodes) /\ DOMAIN r.scenario.nodes = 1..n
      /\ IsList(r.scenario.script) /\ DOMAIN r.scenario.script = 1..s
      /\ IsList(r.report.trace) /\ Len(r.report.trace) = l
  BY CountsAre DEF Entries
<1>7. \A key, x : IsList(<<W(key), N(x)>>) /\ <<W(key), N(x)>>[1] = W(key)
  BY ListsOfTwo
<1>8. \A x, q : IsList(q) => IsList(<<x>> \o q) /\ (<<x>> \o q)[1] = x
  BY TokenFirst
<1>9. \A w, x, y, q : IsList(q) => /\ IsList(<<w, N(x), N(y)>> \o q)
                                   /\ (<<w, N(x), N(y)>> \o q)[1] = w
  BY TwoNumbersBack
<1> HIDE DEF n, s, k, l, e, text
<1>10. CASE m \in {1, 2}
  <2>1. line = <<W("lumen-sim-recording"), N(FormatVersion)>>
          \/ line = <<W("seed"), N(r.scenario.seed)>>
    BY <1>4, <1>10
  <2> HIDE DEF line
  <2>2. Early
    BY <1>7, <2>1 DEF HeadKeys
  <2>3. m # 3 /\ ~(m >= e)
    BY <1>1, <1>10
  <2> QED BY <2>2, <2>3 DEF line, e, text
<1>11. CASE m = 3
  <2>1. line = <<W("duration_us"), N(r.scenario.duration)>>
    BY <1>4, <1>11
  <2>2. IsList(line)
    BY <1>7, <2>1
  <2>3. ~(m >= e)
    BY <1>1, <1>11
  <2> QED BY <1>11, <2>1, <2>2, <2>3 DEF e, text
<1>12. CASE m = 4
  <2> DEFINE v == r.scenario.faults
  <2>1. line = <<W("faults")>> \o Numbers(v)
    BY <1>4, <1>12
  <2>2. v \in Seq(Nat)
    BY ScenarioParts DEF IsRecording
  <2> HIDE DEF v, line
  <2>3. IsList(Numbers(v))
    BY <2>2, ListOfItsOwn, NumbersAre DEF IsList
  <2>4. Early
    BY <1>8, <2>1, <2>3 DEF HeadKeys
  <2>5. m # 3 /\ ~(m >= e)
    BY <1>1, <1>12
  <2> QED BY <2>4, <2>5 DEF line, e, text
<1>13. CASE m \in 5..(4 + n)
  <2> DEFINE i == m - 4
             x == r.scenario.nodes[i]
  <2>1. i \in 1..n /\ 4 + i = m
    BY <1>1, <1>13
  <2>2. line = <<W("node")>> \o WriteAll(NodeFields, x)
    BY <1>4, <2>1 DEF NodeLine
  <2>3. Filled(x, {}, NodeFields)
    BY <1>6, <2>1, ScenarioParts DEF IsRecording
  <2> HIDE DEF x, line
  <2>4. IsList(WriteAll(NodeFields, x))
    BY <2>3, NodeBack
  <2>5. Early
    BY <1>8, <2>2, <2>4 DEF HeadKeys
  <2>6. m # 3 /\ ~(m >= e)
    BY <1>1, <1>13
  <2> QED BY <2>5, <2>6 DEF line, e, text
<1>14. CASE m \in (5 + n)..(e - 1)
  <2> DEFINE i == m - (4 + n)
             x == r.scenario.script[i]
             q == OpToText(x.op)
             o == <<W("op"), N(x.at)>>
  <2>1. i \in 1..s /\ 4 + n + i = m
    BY <1>1, <1>14
  <2>2. line = o \o q
    BY <1>4, <2>1 DEF OpLine
  <2>3. IsEntry(x)
    BY <1>6, <2>1, ScenarioParts DEF IsRecording
  <2>4. IsList(q)
    BY <2>3, OpBack DEF IsEntry
  <2>5. IsList(o) /\ Len(o) = 2 /\ o[1] = W("op")
    BY ListsOfTwo
  <2> HIDE DEF x, line, q, o
  <2>6. IsList(o)
    BY <2>5
  <2>7. IsList(line) /\ \A j \in 1..Len(o) : line[j] = o[j]
    BY <2>2, <2>4, <2>6, JoinedIsList, JoinedPlaces
  <2>8. Early
    BY <2>5, <2>7 DEF HeadKeys
  <2>9. m # 3 /\ ~(m >= e)
    BY <1>1, <1>14
  <2> QED BY <2>8, <2>9 DEF line, e, text
<1>15. CASE m = e
  <2>1. line = <<W("end"), N(r.report.end)>>
    BY <1>4, <1>15
  <2> HIDE DEF line
  <2>2. End
    BY <1>7, <2>1 DEF TailKeys
  <2>3. m # 3 /\ ~(m < e)
    BY <1>1, <1>15
  <2> QED BY <2>2, <2>3 DEF line, e, text
<1>16. CASE m = e + 1
  <2> DEFINE v == r.report.stats
  <2>1. line = <<W("stats")>> \o Numbers(v)
    <3>1. m = 6 + n + s
      BY <1>1, <1>16
    <3> QED BY <1>4, <3>1
  <2>2. IsList(Numbers(v))
    BY NumbersAre DEF IsRecording, IsReport
  <2> HIDE DEF v, line
  <2>3. End
    BY <1>8, <2>1, <2>2 DEF TailKeys
  <2>4. m # 3 /\ ~(m < e)
    BY <1>1, <1>16
  <2> QED BY <2>3, <2>4 DEF line, e, text
<1>17. CASE m \in (e + 2)..(e + 1 + k)
  <2> DEFINE i == m - (e + 1)
             id == IdsOf(r.report)[i]
             d == r.report.frames[id]
             q == <<D(d[2])>>
  <2>1. i \in 1..k /\ 6 + n + s + i = m
    BY <1>1, <1>17
  <2>2. line = FrameLine(r.report, id)
    BY <1>4, <2>1
  <2>3. FrameLine(r.report, id) = <<W("frames"), N(id), N(d[1])>> \o q
    BY ThreeAndOne DEF FrameLine
  <2>4. IsList(q)
    BY ShortLists
  <2> HIDE DEF q, d, id, line
  <2>5. End
    BY <1>9, <2>2, <2>3, <2>4 DEF TailKeys
  <2>6. m # 3 /\ ~(m < e)
    BY <1>1, <1>17
  <2> QED BY <2>5, <2>6 DEF line, e, text
<1>18. CASE m > e + 1 + k
  <2> DEFINE i == m - (e + 1 + k)
             x == r.report.trace[i]
             q == TraceToText(x.kind)
  <2>1. i \in 1..l /\ 6 + n + s + k + i = m
    BY <1>1, <1>3, <1>18
  <2>2. line = <<W("trace"), N(x.at), N(x.node)>> \o q
    BY <1>4, <2>1 DEF TraceLine
  <2>3. IsEvent(x)
    BY <1>6, <2>1 DEF IsRecording, IsReport, IsTrace
  <2>4. IsList(q)
    BY <2>3, TraceBack DEF IsEvent
  <2> HIDE DEF q, x, line
  <2>5. End
    BY <1>9, <2>2, <2>4 DEF TailKeys
  <2>6. m # 3 /\ ~(m < e)
    BY <1>1, <1>18
  <2> QED BY <2>5, <2>6 DEF line, e, text
<1>19. \/ m \in {1, 2} \/ m = 3 \/ m = 4 \/ m \in 5..(4 + n) \/ m \in (5 + n)..(e - 1)
       \/ m = e \/ m = e + 1 \/ m \in (e + 2)..(e + 1 + k) \/ m > e + 1 + k
  BY <1>1, <1>3
<1> QED BY <1>10, <1>11, <1>12, <1>13, <1>14, <1>15, <1>16, <1>17, <1>18, <1>19

LEMMA StumpsOfWords ==
  /\ \A key \in HeadKeys \cup TailKeys \cup {"duration_us"} : Stumps(W(key)) = {W("?")}
  /\ Stumps(W("#")) = {}
<1>1. ASSUME NEW key \in HeadKeys \cup TailKeys \cup {"duration_us"}
      PROVE  Stumps(W(key)) = {W("?")}
  <2> DEFINE t == W(key)
  <2>1. t[1] = "w" /\ t # W("heal_all") /\ t \notin {W("#"), W("-"), W("heal_all")}
    BY DEF W, HeadKeys, TailKeys
  <2> HIDE DEF t
  <2> QED BY <2>1 DEF Stumps, t
<1>2. Stumps(W("#")) = {}
  <2> DEFINE t == W("#")
  <2>1. t[1] = "w" /\ t # W("heal_all") /\ t \in {W("#"), W("-"), W("heal_all")}
    BY DEF W
  <2> HIDE DEF t
  <2> QED BY <2>1 DEF Stumps, t
<1> QED BY <1>1, <1>2

(* A number that is not none loses digits, and is not none. *)
LEMMA StumpsOfNumber ==
  ASSUME NEW x \in Nat \ {0}
  PROVE  \A t \in {N(x)} \cup Stumps(N(x)) : t[2] # 0
<1>1. N(x)[1] = "n" /\ N(x)[2] = x
  BY DEF N
<1>2. CASE x \in -9..9
  <2> DEFINE t == N(x)
  <2>1. t[1] = "n" /\ t[2] = x
    BY <1>1
  <2>2. t # W("heal_all")
    BY <2>1 DEF W
  <2> HIDE DEF t
  <2>3. Stumps(t) = {}
    BY <1>2, <2>1, <2>2 DEF Stumps
  <2> QED BY <1>1, <2>3 DEF t
<1>3. CASE x \notin -9..9
  <2>1. x >= 10 /\ Shorter(x) = x \div 10
    BY <1>3 DEF Shorter
  <2>2. x \div 10 # 0
    BY <2>1
  <2> DEFINE t == N(x)
             u == N(Shorter(x))
  <2>3. t[1] = "n" /\ t[2] = x /\ u[2] = Shorter(x)
    BY DEF N
  <2>4. Stumps(t) = {u}
    <3>1. Stumps(t) = {N(Shorter(t[2]))}
      <4> HIDE DEF t, u
      <4>1. t[1] = "n" /\ t[2] \notin -9..9
        BY <1>3, <2>3
      <4> DEFINE a == {N(Shorter(t[2]))}
                 b == {D(t[2] \div 16)}
                 c == {W("?")} \cup {X(z) : z \in {Front(t[2])} \ {<<>>}}
      <4>2. Stumps(t) = CASE t[1] = "n" /\ t[2] \notin -9..9 -> a
                          [] t[1] = "d" -> b
                          [] t[1] = "x" -> c
                          [] t = W("heal_all") -> {W("?"), W("heal")}
                          [] t[1] = "w" /\ t \notin {W("#"), W("-"), W("heal_all")} -> {W("?")}
                          [] OTHER -> {}
        BY DEF Stumps
      <4> HIDE DEF a, b, c
      <4>3. t # W("heal_all")
        BY <4>1 DEF W
      <4>4. Stumps(t) = a
        BY <4>1, <4>2, <4>3
      <4> QED BY <4>4 DEF a
    <3> QED BY <2>3, <3>1
  <2> HIDE DEF t, u
  <2> QED BY <2>1, <2>2, <2>3, <2>4 DEF t
<1> QED BY <1>2, <1>3

(* What is left of a line: its first tokens, the last of them whole or a   *)
(* stump.                                                                  *)
Left(line, t, j) ==
  \/ t = SubSeq(line, 1, j)
  \/ j > 0 /\ \E stump \in Stumps(SubSeq(line, 1, j)[j]) :
                t = Append(Front(SubSeq(line, 1, j)), stump)

Remains(t, line) ==
  /\ t = <<>> \/ t[1] = line[1] \/ t[1] \in Stumps(line[1])
  /\ Len(t) >= 2 => t[2] = line[2] \/ t[2] \in Stumps(line[2])

LEMMA LeftRemains ==
  ASSUME NEW line, IsList(line), NEW j \in 0..Len(line), NEW t, Left(line, t, j)
  PROVE  IsList(t) /\ Len(t) = j /\ Remains(t, line)
<1> DEFINE q == SubSeq(line, 1, j)
<1>1. Len(line) \in Nat /\ j \in Nat
  BY ListPlaces
<1>2. IsList(q) /\ Len(q) = j /\ \A i \in 1..j : q[i] = line[i]
  <2>1. 1 \in Nat \ {0} /\ 1 <= j + 1 /\ (j - 1) + 1 = j
    BY <1>1
  <2>2. /\ IsList(q) /\ Len(q) = (j - 1) + 1
        /\ \A i \in 1..((j - 1) + 1) : q[i] = line[(1 + i) - 1]
    BY <2>1, PartOfList
  <2>3. \A i \in 1..j : (1 + i) - 1 = i
    BY <1>1
  <2> HIDE DEF q
  <2> QED BY <2>1, <2>2, <2>3
<1>3. t = q \/ (j > 0 /\ \E stump \in Stumps(q[j]) : t = Append(Front(q), stump))
  BY DEF Left
<1> HIDE DEF q
<1>4. CASE t = q
  <2>1. j = 0 => t = <<>>
    <3>1. IsList(<<>>) /\ Len(<<>>) = 0
      BY ShortLists
    <3>2. j = 0 => \A i \in 1..Len(q) : q[i] = <<>>[i]
      BY <1>2
    <3> QED BY <1>2, <1>4, <3>1, <3>2, SameLists
  <2>2. j >= 1 => t[1] = line[1]
    BY <1>1, <1>2, <1>4
  <2>3. j >= 2 => t[2] = line[2]
    BY <1>1, <1>2, <1>4
  <2> QED BY <1>1, <1>2, <1>4, <2>1, <2>2, <2>3 DEF Remains
<1>5. CASE j > 0 /\ \E stump \in Stumps(q[j]) : t = Append(Front(q), stump)
  <2>1. PICK stump \in Stumps(q[j]) : t = Append(Front(q), stump)
    BY <1>5
  <2> DEFINE f == Front(q)
  <2>2. IsList(f) /\ Len(f) = j - 1 /\ \A i \in 1..(j - 1) : f[i] = q[i]
    <3>1. f = SubSeq(q, 1, j - 1)
      BY <1>2 DEF Front
    <3>2. 1 \in Nat \ {0} /\ j - 1 \in 0..Len(q) /\ 1 <= (j - 1) + 1 /\ ((j - 1) - 1) + 1 = j - 1
      BY <1>1, <1>2, <1>5
    <3> HIDE DEF f
    <3>3. /\ IsList(f) /\ Len(f) = ((j - 1) - 1) + 1
          /\ \A i \in 1..(((j - 1) - 1) + 1) : f[i] = q[(1 + i) - 1]
      BY <1>2, <3>1, <3>2, PartOfList
    <3>4. \A i \in 1..(j - 1) : (1 + i) - 1 = i
      BY <1>1
    <3> QED BY <3>2, <3>3, <3>4
  <2> HIDE DEF f
  <2>3. /\ IsList(t) /\ Len(t) = Len(f) + 1 /\ t[Len(f) + 1] = stump
        /\ \A i \in 1..Len(f) : t[i] = f[i]
    <3>1. IsList(f)
      BY <2>2
    <3> QED BY <2>1, <3>1, AppendedList DEF f
  <2>4. Len(t) = j /\ t[j] = stump
    BY <1>1, <2>2, <2>3
  <2>5. \A i \in 1..(j - 1) : t[i] = line[i]
    <3> SUFFICES ASSUME NEW i \in 1..(j - 1)
                 PROVE  t[i] = line[i]
      OBVIOUS
    <3>1. i \in 1..Len(f) /\ i \in 1..j
      BY <1>1, <2>2
    <3> QED BY <1>2, <2>2, <2>3, <3>1
  <2>6. stump \in Stumps(line[j])
    BY <1>1, <1>2, <1>5, <2>1
  <2>7. t[1] = line[1] \/ t[1] \in Stumps(line[1])
    <3>1. j = 1 \/ 1 \in 1..(j - 1)
      BY <1>1, <1>5
    <3> QED BY <2>4, <2>5, <2>6, <3>1
  <2>8. j >= 2 => t[2] = line[2] \/ t[2] \in Stumps(line[2])
    <3>1. j >= 2 => j = 2 \/ 2 \in 1..(j - 1)
      BY <1>1, <1>5
    <3> QED BY <2>4, <2>5, <2>6, <3>1
  <2> QED BY <2>3, <2>4, <2>7, <2>8 DEF Remains
<1> QED BY <1>3, <1>4, <1>5

IsAcc(acc) ==
  acc = [header |-> acc.header, seed |-> acc.seed, duration |-> acc.duration,
         faults |-> acc.faults, nodes |-> acc.nodes, script |-> acc.script, end |-> acc.end,
         stats |-> acc.stats, frames |-> acc.frames, trace |-> acc.trace]

LEMMA ReadIsAcc == \A r, m : IsAcc(ReadSoFar(r, m))
BY DEF ReadSoFar, IsAcc

SameScenario(a, b) ==
  /\ a.seed = b.seed /\ a.duration = b.duration /\ a.faults = b.faults
  /\ a.nodes = b.nodes /\ a.script = b.script

(* A line of the scenario leaves the end as it was, and unless it is that  *)
(* line the duration.                                                      *)
LEMMA HeadLineReads ==
  ASSUME NEW acc, IsAcc(acc), NEW line, NEW key \in HeadKeys, line[1] = W(key),
         NEW a \in ReadLine(acc, line)
  PROVE  a.duration = acc.duration /\ a.end = acc.end
<1> DEFINE t == Tail(line)
<1>1. \A v : /\ [acc EXCEPT !.header = v].duration = acc.duration
             /\ [acc EXCEPT !.header = v].end = acc.end
             /\ [acc EXCEPT !.seed = v].duration = acc.duration
             /\ [acc EXCEPT !.seed = v].end = acc.end
             /\ [acc EXCEPT !.faults = v].duration = acc.duration
             /\ [acc EXCEPT !.faults = v].end = acc.end
             /\ [acc EXCEPT !.nodes = v].duration = acc.duration
             /\ [acc EXCEPT !.nodes = v].end = acc.end
             /\ [acc EXCEPT !.script = v].duration = acc.duration
             /\ [acc EXCEPT !.script = v].end = acc.end
  BY DEF IsAcc
<1>2. CASE key = "lumen-sim-recording"
  <2>1. ReadLine(acc, line)
          = {[acc EXCEPT !.header = TRUE] : r \in {q \in NumberIn(t) : q.value = FormatVersion}}
    BY <1>2 DEF ReadLine, W
  <2>2. a = [acc EXCEPT !.header = TRUE]
    BY <2>1
  <2> QED BY <1>1, <2>2
<1>3. CASE key = "seed"
  <2>1. ReadLine(acc, line) = {[acc EXCEPT !.seed = {q.value}] : q \in NumberIn(t)}
    BY <1>3 DEF ReadLine, W
  <2>2. \E v : a = [acc EXCEPT !.seed = v]
    BY <2>1
  <2> QED BY <1>1, <2>2
<1>4. CASE key = "faults"
  <2>1. ReadLine(acc, line) = {[acc EXCEPT !.faults = q.value] : q \in NumbersIn(6, t)}
    BY <1>4 DEF ReadLine, W
  <2>2. \E v : a = [acc EXCEPT !.faults = v]
    BY <2>1
  <2> QED BY <1>1, <2>2
<1>5. CASE key = "node"
  <2>1. ReadLine(acc, line)
          = {[acc EXCEPT !.nodes = Append(acc.nodes, n)] : n \in ReadAll(<<>>, NodeFields, t)}
    BY <1>5 DEF ReadLine, W
  <2>2. \E v : a = [acc EXCEPT !.nodes = v]
    BY <2>1
  <2> QED BY <1>1, <2>2
<1>6. CASE key = "op"
  <2>1. ReadLine(acc, line)
          = UNION {{[acc EXCEPT !.script = Append(acc.script, [at |-> q.value, op |-> op])] :
                      op \in OpFromText(q.rest)} : q \in NumberIn(t)}
    BY <1>6 DEF ReadLine, W
  <2>2. \E v : a = [acc EXCEPT !.script = v]
    <3>1. PICK q \in NumberIn(t) :
            a \in {[acc EXCEPT !.script = Append(acc.script, [at |-> q.value, op |-> op])] :
                     op \in OpFromText(q.rest)}
      BY <2>1
    <3>2. PICK op \in OpFromText(q.rest) :
            a = [acc EXCEPT !.script = Append(acc.script, [at |-> q.value, op |-> op])]
      BY <3>1
    <3> QED BY <3>2, Zenon
  <2> QED BY <1>1, <2>2
<1> QED BY <1>2, <1>3, <1>4, <1>5, <1>6 DEF HeadKeys

(* A line of the report leaves the scenario as it was, and reads as one    *)
(* thing or as none.                                                       *)
LEMMA TailLineReads ==
  ASSUME NEW acc, IsAcc(acc), NEW line, IsList(line), line # <<>>,
         NEW key \in TailKeys, line[1] = W(key)
  PROVE  /\ \A a \in ReadLine(acc, line) : SameScenario(a, acc)
         /\ AtMostOne(ReadLine(acc, line))
<1> DEFINE t == Tail(line)
<1>1. \A v : /\ SameScenario([acc EXCEPT !.end = v], acc)
             /\ SameScenario([acc EXCEPT !.stats = v], acc)
             /\ SameScenario([acc EXCEPT !.frames = v], acc)
             /\ SameScenario([acc EXCEPT !.trace = v], acc)
  BY DEF IsAcc, SameScenario
<1>2. AtMostOne(NumberIn(t)) /\ AtMostOne(NumbersIn(7, t)) /\ AtMostOne(NumbersIn(2, t))
  BY OneNumber
<1>3. CASE key = "end"
  <2> DEFINE F(q) == [acc EXCEPT !.end = q.value]
  <2>1. ReadLine(acc, line) = {F(q) : q \in NumberIn(t)}
    BY <1>3 DEF ReadLine, W
  <2>2. \A q : SameScenario(F(q), acc)
    BY <1>1
  <2> HIDE DEF F, t
  <2> QED BY <1>2, <2>1, <2>2 DEF AtMostOne
<1>4. CASE key = "stats"
  <2> DEFINE F(q) == [acc EXCEPT !.stats = q.value]
  <2>1. ReadLine(acc, line) = {F(q) : q \in NumbersIn(7, t)}
    BY <1>4 DEF ReadLine, W
  <2>2. \A q : SameScenario(F(q), acc)
    BY <1>1
  <2> HIDE DEF F, t
  <2> QED BY <1>2, <2>1, <2>2 DEF AtMostOne
<1>5. CASE key = "frames"
  <2> DEFINE F(q, d) == [acc EXCEPT !.frames = With(acc.frames, q.value[1], <<q.value[2], d.value>>)]
  <2>1. ReadLine(acc, line) = UNION {{F(q, d) : d \in DigestIn(q.rest)} : q \in NumbersIn(2, t)}
    BY <1>5 DEF ReadLine, W
  <2>2. \A q, d : SameScenario(F(q, d), acc)
    BY <1>1
  <2>3. \A q : AtMostOne(DigestIn(q.rest))
    <3>1. \A u : Read("digest", u) = DigestIn(u)
      BY DEF Read, FieldType
    <3> QED BY <3>1, OneRead
  <2> HIDE DEF F, t
  <2>4. ASSUME NEW a \in ReadLine(acc, line), NEW b \in ReadLine(acc, line)
        PROVE  a = b /\ SameScenario(a, acc)
    <3>1. PICK q \in NumbersIn(2, t) : a \in {F(q, d) : d \in DigestIn(q.rest)}
      BY <2>1
    <3>2. PICK s \in NumbersIn(2, t) : b \in {F(s, d) : d \in DigestIn(s.rest)}
      BY <2>1
    <3>3. q = s
      BY <1>2 DEF AtMostOne
    <3>4. PICK d \in DigestIn(q.rest) : a = F(q, d)
      BY <3>1
    <3>5. PICK g \in DigestIn(s.rest) : b = F(s, g)
      BY <3>2
    <3>6. d = g
      BY <2>3, <3>3 DEF AtMostOne
    <3> QED BY <2>2, <3>3, <3>4, <3>5, <3>6
  <2> QED BY <2>4 DEF AtMostOne
<1>6. CASE key = "trace"
  <2> DEFINE F(q, k) ==
               [acc EXCEPT !.trace =
                  Append(acc.trace, [at |-> q.value[1], node |-> q.value[2], kind |-> k])]
  <2>1. ReadLine(acc, line)
          = UNION {{F(q, k) : k \in TraceFromText(q.rest)} : q \in NumbersIn(2, t)}
    BY <1>6 DEF ReadLine, W
  <2>2. \A q, k : SameScenario(F(q, k), acc)
    BY <1>1
  <2>3. \A q \in NumbersIn(2, t) : AtMostOne(TraceFromText(q.rest))
    <3> SUFFICES ASSUME NEW q \in NumbersIn(2, t)
                 PROVE  AtMostOne(TraceFromText(q.rest))
      OBVIOUS
    <3>1. IsList(t)
      BY TailOfList
    <3> HIDE DEF t
    <3>2. Len(t) >= 2 /\ q.rest = SubSeq(t, 2 + 1, Len(t))
      <4> DEFINE v == [value |-> [i \in 1..2 |-> t[i][2]], rest |-> SubSeq(t, 2 + 1, Len(t))]
                 fits == Len(t) >= 2 /\ \A i \in 1..2 : t[i][1] = "n"
      <4>1. NumbersIn(2, t) = IF fits THEN {v} ELSE {}
        BY Zenon DEF NumbersIn
      <4>2. v.rest = SubSeq(t, 2 + 1, Len(t))
        OBVIOUS
      <4> HIDE DEF v
      <4> QED BY <4>1, <4>2
    <3>3. Len(t) \in Nat
      BY <3>1, ListPlaces
    <3>4. 2 + 1 \in Nat \ {0} /\ Len(t) \in 0..Len(t) /\ 2 + 1 <= Len(t) + 1
      BY <3>2, <3>3
    <3>5. IsList(SubSeq(t, 2 + 1, Len(t)))
      BY <3>1, <3>4, PartOfList
    <3> QED BY <3>2, <3>5, OneTrace
  <2> HIDE DEF F, t
  <2>4. ASSUME NEW a \in ReadLine(acc, line), NEW b \in ReadLine(acc, line)
        PROVE  a = b /\ SameScenario(a, acc)
    <3>1. PICK q \in NumbersIn(2, t) : a \in {F(q, k) : k \in TraceFromText(q.rest)}
      BY <2>1
    <3>2. PICK s \in NumbersIn(2, t) : b \in {F(s, k) : k \in TraceFromText(s.rest)}
      BY <2>1
    <3>3. q = s
      BY <1>2 DEF AtMostOne
    <3>4. PICK k \in TraceFromText(q.rest) : a = F(q, k)
      BY <3>1
    <3>5. PICK g \in TraceFromText(s.rest) : b = F(s, g)
      BY <3>2
    <3>6. k = g
      BY <2>3, <3>3 DEF AtMostOne
    <3> QED BY <2>2, <3>3, <3>4, <3>5, <3>6
  <2> QED BY <2>4 DEF AtMostOne
<1> QED BY <1>3, <1>4, <1>5, <1>6 DEF TailKeys

(* What is left of the line of the duration: a duration that is not none. *)
LEMMA DurationLeft ==
  ASSUME NEW acc, IsAcc(acc), NEW line, IsList(line), line # <<>>, line[1] = W("duration_us"),
         Len(line) >= 2 => line[2][2] # 0, NEW a \in ReadLine(acc, line)
  PROVE  0 \notin a.duration /\ a.end = acc.end
<1> DEFINE t == Tail(line)
<1>1. ReadLine(acc, line) = {[acc EXCEPT !.duration = {q.value}] : q \in NumberIn(t)}
  BY DEF ReadLine, W
<1>2. Len(line) \in Nat /\ IsList(t) /\ Len(t) = Len(line) - 1
      /\ \A i \in 1..(Len(line) - 1) : t[i] = line[i + 1]
  BY ListPlaces, TailOfList
<1> HIDE DEF t
<1>3. PICK q \in NumberIn(t) : a = [acc EXCEPT !.duration = {q.value}]
  BY <1>1
<1>4. Len(t) >= 1 /\ q.value = t[1][2]
  <2> DEFINE v == [value |-> [i \in 1..1 |-> t[i][2]], rest |-> SubSeq(t, 1 + 1, Len(t))]
             fits == Len(t) >= 1 /\ \A i \in 1..1 : t[i][1] = "n"
  <2>1. NumbersIn(1, t) = IF fits THEN {v} ELSE {}
    BY Zenon DEF NumbersIn
  <2>2. v.value[1] = t[1][2]
    OBVIOUS
  <2>3. NumberIn(t) = {[value |-> p.value[1], rest |-> p.rest] : p \in NumbersIn(1, t)}
    BY DEF NumberIn
  <2> HIDE DEF v
  <2>4. PICK p \in NumbersIn(1, t) : q = [value |-> p.value[1], rest |-> p.rest]
    BY <2>3
  <2>5. fits /\ p = v
    BY <2>1
  <2>6. q.value = p.value[1]
    BY <2>4
  <2> QED BY <2>2, <2>5, <2>6
<1>5. t[1] = line[2] /\ Len(line) >= 2
  <2>1. Len(line) >= 2
    BY <1>2, <1>4
  <2>2. 1 \in 1..(Len(line) - 1) /\ 1 + 1 = 2
    BY <1>2, <2>1
  <2> QED BY <1>2, <2>1, <2>2
<1>6. q.value # 0
  BY <1>4, <1>5
<1>7. \A v : /\ [acc EXCEPT !.duration = v].duration = v
             /\ [acc EXCEPT !.duration = v].end = acc.end
  BY DEF IsAcc
<1> QED BY <1>3, <1>6, <1>7

LEMMA LostKeyReads ==
  ASSUME NEW acc, NEW line, line[1] = W("?")
  PROVE  ReadLine(acc, line) = {}
BY DEF ReadLine, W

-----------------------------------------------------------------------------
(* A file that lost its end, and the verdict on it.                        *)

HasScenario(a, r) ==
  /\ a.seed = {r.scenario.seed} /\ a.duration = {r.scenario.duration}
  /\ a.faults = r.scenario.faults /\ a.nodes = r.scenario.nodes
  /\ a.script = r.scenario.script

(* The lines up to the last follow the text of a recording, and the last   *)
(* is a note, or what is left of the next line.                            *)
Lost(r, text) ==
  /\ IsList(text) /\ Len(text) # 0
  /\ IsList(text[Len(text)])
  /\ \E p : /\ Along(r, text, Len(text) - 1, p)
            /\ \/ IsNote(text[Len(text)])
               \/ /\ p[Len(text) - 1] < Len(ToText(r))
                  /\ Remains(text[Len(text)], ToText(r)[p[Len(text) - 1] + 1])

LEMMA ReadEarly ==
  ASSUME NEW r, IsRecording(r), r.scenario.duration # 0, NEW m \in Nat, m < EndLine(r)
  PROVE  0 \notin ReadSoFar(r, m).duration /\ ReadSoFar(r, m).end = 0
<1>2. 0 \notin DurationRead(r, m)
  BY DEF DurationRead
<1>3. EndLine(r) \in Nat
  BY CountsAre DEF EndLine
<1>4. EndRead(r, m) = 0
  BY <1>3 DEF EndRead
<1>5. /\ ReadSoFar(r, m).duration = DurationRead(r, m)
      /\ ReadSoFar(r, m).end = EndRead(r, m)
  BY DEF ReadSoFar
<1> QED BY <1>2, <1>4, <1>5

LEMMA ReadWhole ==
  ASSUME NEW r, IsRecording(r), NEW m \in Nat, m >= EndLine(r) - 1
  PROVE  HasScenario(ReadSoFar(r, m), r)
<1>1. /\ SeedRead(r, m) = {r.scenario.seed} /\ DurationRead(r, m) = {r.scenario.duration}
      /\ FaultsRead(r, m) = r.scenario.faults
      /\ NodesRead(r, m) = r.scenario.nodes /\ ScriptRead(r, m) = r.scenario.script
  BY AllRead
<1> DEFINE a == ReadSoFar(r, m)
<1>2. /\ a.seed = SeedRead(r, m) /\ a.duration = DurationRead(r, m)
      /\ a.faults = FaultsRead(r, m) /\ a.nodes = NodesRead(r, m)
      /\ a.script = ScriptRead(r, m)
  BY DEF ReadSoFar
<1> HIDE DEF a
<1>3. HasScenario(a, r)
  BY <1>1, <1>2 DEF HasScenario
<1> QED BY <1>3 DEF a

(* The last line, after what has been read of the others. *)
LEMMA LastLineReads ==
  ASSUME NEW r, IsRecording(r), r.scenario.duration # 0, NEW m \in 0..(Len(ToText(r)) - 1),
         NEW line, IsList(line), ~IsNote(line), Remains(line, ToText(r)[m + 1])
  PROVE  LET read == ReadLine(ReadSoFar(r, m), line)
         IN  \/ \A a \in read : 0 \notin a.duration /\ a.end = 0
             \/ (\A a \in read : HasScenario(a, r)) /\ AtMostOne(read)
<1> DEFINE acc == ReadSoFar(r, m)
           read == ReadLine(acc, line)
           i == m + 1
           whole == ToText(r)[i]
           e == EndLine(r)
<1>1. Len(ToText(r)) \in Nat /\ e \in Nat /\ e >= 5
  <2>1. Len(ToText(r)) \in Nat
    BY TextLines, ListPlaces
  <2>2. e \in Nat /\ e >= 5
    BY CountsAre DEF EndLine
  <2> QED BY <2>1, <2>2
<1>2. m \in Nat /\ i \in 1..Len(ToText(r))
  BY <1>1
<1>3. line # <<>> /\ (line[1] = whole[1] \/ line[1] \in Stumps(whole[1]))
  BY DEF IsNote, Remains
<1>4. IsAcc(acc)
  BY ReadIsAcc
<1>5. /\ i = 3 => whole = <<W("duration_us"), N(r.scenario.duration)>>
      /\ i # 3 /\ i < e => \E key \in HeadKeys : whole[1] = W(key)
      /\ i >= e => \E key \in TailKeys : whole[1] = W(key)
  BY <1>2, LineShape
<1>6. ASSUME NEW key \in HeadKeys \cup TailKeys \cup {"duration_us"}, whole[1] = W(key)
      PROVE  line[1] = W(key) \/ read = {}
  <2>1. line[1] = W(key) \/ line[1] = W("?")
    BY <1>3, <1>6, StumpsOfWords
  <2> QED BY <2>1, LostKeyReads
<1>7. i < e => 0 \notin acc.duration /\ acc.end = 0
  <2>1. i < e => m < e
    BY <1>1, <1>2
  <2> QED BY <1>2, <2>1, ReadEarly
<1>8. i >= e => HasScenario(acc, r)
  <2>1. i >= e => m >= e - 1
    BY <1>1, <1>2
  <2> QED BY <1>2, <2>1, ReadWhole
<1> HIDE DEF acc
<1>9. CASE i = 3
  <2>1. whole = <<W("duration_us"), N(r.scenario.duration)>>
    BY <1>5, <1>9
  <2>2. whole[1] = W("duration_us") /\ whole[2] = N(r.scenario.duration)
    BY <2>1
  <2>3. i < e
    BY <1>1, <1>9
  <2>4. r.scenario.duration \in Nat \ {0}
    BY ScenarioParts DEF IsRecording
  <2>5. Len(line) >= 2 => line[2][2] # 0
    <3>1. Len(line) >= 2 => line[2] \in {N(r.scenario.duration)} \cup Stumps(N(r.scenario.duration))
      BY <2>2 DEF Remains
    <3> QED BY <2>4, <3>1, StumpsOfNumber
  <2>6. CASE line[1] = W("duration_us")
    <3>1. \A a \in read : 0 \notin a.duration /\ a.end = acc.end
      <4> HIDE DEF whole
      <4> QED BY <1>3, <1>4, <2>5, <2>6, DurationLeft
    <3> QED BY <1>7, <2>3, <3>1 DEF acc
  <2>7. CASE read = {}
    BY <2>7 DEF acc
  <2> QED BY <1>6, <2>2, <2>6, <2>7
<1>10. CASE i # 3 /\ i < e
  <2>1. PICK key \in HeadKeys : whole[1] = W(key)
    BY <1>5, <1>10
  <2>2. CASE line[1] = W(key)
    <3>1. \A a \in read : a.duration = acc.duration /\ a.end = acc.end
      BY <1>4, <2>2, HeadLineReads
    <3> QED BY <1>7, <1>10, <3>1 DEF acc
  <2>3. CASE read = {}
    BY <2>3 DEF acc
  <2> QED BY <1>6, <2>1, <2>2, <2>3
<1>11. CASE i >= e
  <2>1. PICK key \in TailKeys : whole[1] = W(key)
    BY <1>5, <1>11
  <2>2. CASE line[1] = W(key)
    <3>1. (\A a \in read : SameScenario(a, acc)) /\ AtMostOne(read)
      BY <1>3, <1>4, <2>2, TailLineReads
    <3>2. \A a \in read : HasScenario(a, r)
      BY <1>8, <1>11, <3>1 DEF SameScenario, HasScenario
    <3> QED BY <3>1, <3>2 DEF acc
  <2>3. CASE read = {}
    BY <2>3 DEF acc
  <2> QED BY <1>6, <2>1, <2>2, <2>3
<1>12. i = 3 \/ (i # 3 /\ i < e) \/ i >= e
  BY <1>1, <1>2
<1> QED BY <1>9, <1>10, <1>11, <1>12

LEMMA LostReads ==
  ASSUME NEW r, IsRecording(r), r.scenario.duration # 0, NEW text, Lost(r, text)
  PROVE  \/ \A a \in LinesRead(text) : 0 \notin a.duration /\ a.end = 0
         \/ (\A a \in LinesRead(text) : HasScenario(a, r)) /\ AtMostOne(LinesRead(text))
<1> DEFINE n == Len(text)
           line == text[n]
<1>1. IsList(text) /\ n # 0 /\ IsList(line)
  BY DEF Lost
<1>2. n \in Nat \ {0} /\ n - 1 \in 0..Len(text) /\ n \in 0..Len(text) /\ n - 1 \in 0..(n - 1)
  BY <1>1, ListPlaces
<1>3. PICK p : /\ Along(r, text, n - 1, p)
               /\ \/ IsNote(line)
                  \/ p[n - 1] < Len(ToText(r)) /\ Remains(line, ToText(r)[p[n - 1] + 1])
  BY DEF Lost
<1>4. PICK h : IsLineLoop(h, text) /\ LinesRead(text) = h[n]
  BY <1>2, LineLoop
<1> DEFINE m == p[n - 1]
           acc == ReadSoFar(r, m)
<1>5. h[n - 1] = {acc}
  <2> DEFINE j == n - 1
  <2>1. j \in 0..Len(text) /\ Along(r, text, j, p)
    BY <1>2, <1>3
  <2> HIDE DEF j
  <2>2. \A k \in 0..j : h[k] = {ReadSoFar(r, p[k])}
    BY <1>1, <1>4, <2>1, ReadAlong
  <2>3. j \in 0..j
    BY <1>2 DEF j
  <2> QED BY <2>2, <2>3 DEF j
<1>6. m \in 0..Len(ToText(r)) /\ Len(ToText(r)) \in Nat /\ EndLine(r) \in Nat
  <2>1. m \in 0..Len(ToText(r))
    BY <1>2, <1>3 DEF Along
  <2>2. Len(ToText(r)) \in Nat
    BY TextLines, ListPlaces
  <2>3. EndLine(r) \in Nat
    BY CountsAre DEF EndLine
  <2> QED BY <2>1, <2>2, <2>3
<1>7. LinesRead(text) = IF IsNote(line) THEN {acc} ELSE ReadLine(acc, line)
  <2>1. h[n] = IF n = 0 THEN {Unread}
               ELSE IF IsNote(text[n]) THEN h[n - 1]
               ELSE UNION {ReadLine(a, text[n]) : a \in h[n - 1]}
    <3>1. \A k \in 0..n : h[k] = IF k = 0 THEN {Unread}
                                 ELSE IF IsNote(text[k]) THEN h[k - 1]
                                 ELSE UNION {ReadLine(a, text[k]) : a \in h[k - 1]}
      BY <1>4, Zenon DEF IsLineLoop
    <3> QED BY <1>2, <3>1, Zenon
  <2> HIDE DEF acc, line, n
  <2>2. UNION {ReadLine(a, line) : a \in {acc}} = ReadLine(acc, line)
    OBVIOUS
  <2> QED BY <1>1, <1>4, <1>5, <2>1, <2>2 DEF line
<1> HIDE DEF line, m
<1>8. CASE IsNote(line)
  <2>1. LinesRead(text) = {acc}
    BY <1>7, <1>8
  <2>2. m < EndLine(r) => 0 \notin acc.duration /\ acc.end = 0
    BY <1>6, ReadEarly
  <2>3. ~(m < EndLine(r)) => HasScenario(acc, r)
    <3>1. m \in Nat /\ (~(m < EndLine(r)) => m >= EndLine(r) - 1)
      BY <1>6
    <3> QED BY <3>1, ReadWhole
  <2> HIDE DEF acc
  <2> QED BY <2>1, <2>2, <2>3 DEF AtMostOne
<1>9. CASE ~IsNote(line)
  <2>1. m < Len(ToText(r)) /\ Remains(line, ToText(r)[m + 1])
    BY <1>3, <1>9 DEF m, line
  <2>2. m \in 0..(Len(ToText(r)) - 1)
    BY <1>6, <2>1
  <2>3. LinesRead(text) = ReadLine(acc, line)
    BY <1>7, <1>9
  <2>4. IsList(line)
    BY <1>1 DEF line
  <2> QED BY <1>9, <2>1, <2>2, <2>3, <2>4, LastLineReads
<1> QED BY <1>8, <1>9

(* A recording made of what was read. *)
LEMMA RecordingsMade ==
  ASSUME NEW a
  PROVE  /\ \A q \in Recordings(a) :
              /\ q.scenario = [seed |-> q.scenario.seed, duration |-> q.scenario.duration,
                               nodes |-> a.nodes, faults |-> a.faults, script |-> a.script]
              /\ q.scenario.seed \in a.seed /\ q.scenario.duration \in a.duration
              /\ q.report.end = a.end
              /\ q = [scenario |-> q.scenario, report |-> q.report]
         /\ AtMostOne(a.seed) /\ AtMostOne(a.duration) => AtMostOne(Recordings(a))
<1> DEFINE G == [seed : a.seed, duration : a.duration]
           S(g) == [seed |-> g.seed, duration |-> g.duration, nodes |-> a.nodes,
                    faults |-> a.faults, script |-> a.script]
           rep == [trace |-> a.trace, end |-> a.end, stats |-> a.stats, frames |-> a.frames]
           R(g) == [scenario |-> S(g), report |-> rep]
<1>1. Recordings(a) = {R(g) : g \in G}
  BY Zenon DEF Recordings
<1>2. \A g \in G : g.seed \in a.seed /\ g.duration \in a.duration
  OBVIOUS
<1>3. \A g : /\ S(g).seed = g.seed /\ S(g).duration = g.duration
             /\ S(g) = [seed |-> S(g).seed, duration |-> S(g).duration, nodes |-> a.nodes,
                        faults |-> a.faults, script |-> a.script]
  OBVIOUS
<1>4. rep.end = a.end
  OBVIOUS
<1>5. AtMostOne(a.seed) /\ AtMostOne(a.duration) => AtMostOne(G)
  <2> SUFFICES ASSUME AtMostOne(a.seed), AtMostOne(a.duration), NEW g \in G, NEW f \in G
               PROVE  g = f
    BY DEF AtMostOne
  <2>1. g.seed = f.seed /\ g.duration = f.duration
    BY <1>2 DEF AtMostOne
  <2>2. g = [seed |-> g.seed, duration |-> g.duration] /\ f = [seed |-> f.seed, duration |-> f.duration]
    OBVIOUS
  <2> QED BY <2>1, <2>2
<1> HIDE DEF S, rep, G
<1>6. \A g : R(g).scenario = S(g) /\ R(g).report = rep
             /\ R(g) = [scenario |-> R(g).scenario, report |-> R(g).report]
  OBVIOUS
<1> HIDE DEF R
<1>7. ASSUME NEW q \in Recordings(a)
      PROVE  /\ q.scenario = [seed |-> q.scenario.seed, duration |-> q.scenario.duration,
                              nodes |-> a.nodes, faults |-> a.faults, script |-> a.script]
             /\ q.scenario.seed \in a.seed /\ q.scenario.duration \in a.duration
             /\ q.report.end = a.end
             /\ q = [scenario |-> q.scenario, report |-> q.report]
  <2>1. PICK g \in G : q = R(g)
    BY <1>1
  <2>2. q.scenario = S(g) /\ q.report = rep
    BY <1>6, <2>1
  <2>3. q = [scenario |-> q.scenario, report |-> q.report]
    BY <1>6, <2>1
  <2> QED BY <1>2, <1>3, <1>4, <2>2, <2>3
<1>8. AtMostOne(G) => AtMostOne(Recordings(a))
  BY <1>1 DEF AtMostOne
<1> QED BY <1>5, <1>7, <1>8

LEMMA LostRecordings ==
  ASSUME NEW r, IsRecording(r), r.scenario.duration # 0, NEW text, Lost(r, text)
  PROVE  \/ \A q \in FromText(text) :
              /\ q.report.end = 0 /\ q.scenario.duration # 0
              /\ \E sc \in {q.scenario} :
                   sc = [seed |-> sc.seed, duration |-> sc.duration, nodes |-> sc.nodes,
                         faults |-> sc.faults, script |-> sc.script]
         \/ /\ AtMostOne(FromText(text))
            /\ \A q \in FromText(text) : q.scenario = r.scenario
                                         /\ q = [scenario |-> q.scenario, report |-> q.report]
<1> DEFINE read == LinesRead(text)
<1>1. FromText(text) = UNION {Recordings(a) : a \in {b \in read : b.header}}
  BY DEF FromText
<1>2. \A q \in FromText(text) : \E a \in read : q \in Recordings(a)
  BY <1>1
<1>3. \/ \A a \in read : 0 \notin a.duration /\ a.end = 0
      \/ (\A a \in read : HasScenario(a, r)) /\ AtMostOne(read)
  BY LostReads
<1> HIDE DEF read
<1>4. CASE \A a \in read : 0 \notin a.duration /\ a.end = 0
  <2>1. ASSUME NEW q \in FromText(text)
        PROVE  /\ q.report.end = 0 /\ q.scenario.duration # 0
               /\ \E sc \in {q.scenario} :
                    sc = [seed |-> sc.seed, duration |-> sc.duration, nodes |-> sc.nodes,
                          faults |-> sc.faults, script |-> sc.script]
    <3>1. PICK a \in read : q \in Recordings(a)
      BY <1>2, <2>1
    <3> DEFINE sc == q.scenario
    <3>2. /\ sc = [seed |-> sc.seed, duration |-> sc.duration, nodes |-> a.nodes,
                   faults |-> a.faults, script |-> a.script]
          /\ sc.duration \in a.duration /\ q.report.end = a.end
      BY <3>1, RecordingsMade
    <3> HIDE DEF sc
    <3>3. sc.nodes = a.nodes /\ sc.faults = a.faults /\ sc.script = a.script
      BY <3>2
    <3>4. sc = [seed |-> sc.seed, duration |-> sc.duration, nodes |-> sc.nodes,
                faults |-> sc.faults, script |-> sc.script]
      BY <3>2, <3>3
    <3>5. q.report.end = 0 /\ sc.duration # 0
      BY <1>4, <3>1, <3>2
    <3> QED BY <3>4, <3>5 DEF sc
  <2> QED BY <2>1
<1>5. CASE (\A a \in read : HasScenario(a, r)) /\ AtMostOne(read)
  <2>1. ASSUME NEW q \in FromText(text), NEW s \in FromText(text)
        PROVE  q = s
    <3>1. PICK a \in read : q \in Recordings(a)
      BY <1>2, <2>1
    <3>2. PICK b \in read : s \in Recordings(b)
      BY <1>2, <2>1
    <3>3. a = b
      BY <1>5 DEF AtMostOne
    <3>4. AtMostOne(a.seed) /\ AtMostOne(a.duration)
      BY <1>5 DEF HasScenario, AtMostOne
    <3>5. AtMostOne(Recordings(a))
      BY <3>4, RecordingsMade
    <3> QED BY <3>1, <3>2, <3>3, <3>5 DEF AtMostOne
  <2>2. ASSUME NEW q \in FromText(text)
        PROVE  q.scenario = r.scenario /\ q = [scenario |-> q.scenario, report |-> q.report]
    <3>1. PICK a \in read : q \in Recordings(a)
      BY <1>2, <2>2
    <3> DEFINE sc == q.scenario
               own == r.scenario
    <3>2. /\ sc = [seed |-> sc.seed, duration |-> sc.duration, nodes |-> a.nodes,
                   faults |-> a.faults, script |-> a.script]
          /\ sc.seed \in a.seed /\ sc.duration \in a.duration
          /\ q = [scenario |-> sc, report |-> q.report]
      BY <3>1, RecordingsMade
    <3>3. /\ a.seed = {own.seed} /\ a.duration = {own.duration} /\ a.faults = own.faults
          /\ a.nodes = own.nodes /\ a.script = own.script
      BY <1>5, <3>1 DEF HasScenario
    <3>4. own = [seed |-> own.seed, duration |-> own.duration, nodes |-> own.nodes,
                 faults |-> own.faults, script |-> own.script]
      BY ScenarioParts DEF IsRecording
    <3> HIDE DEF sc, own
    <3>5. sc = own
      BY <3>2, <3>3, <3>4
    <3> QED BY <3>2, <3>5 DEF sc, own
  <2> QED BY <2>1, <2>2 DEF AtMostOne
<1> QED BY <1>3, <1>4, <1>5

LEMMA LineOfFile ==
  ASSUME NEW r, IsRecording(r), NEW text, IsList(text), NEW p, Along(r, text, Len(text), p),
         NEW k \in 1..Len(text)
  PROVE  \/ text[k] \in Annotations
         \/ p[k - 1] < Len(ToText(r)) /\ text[k] = ToText(r)[p[k - 1] + 1]
            /\ p[k - 1] + 1 \in 1..Len(ToText(r))
<1>1. \/ text[k] \in Annotations /\ p[k] = p[k - 1]
      \/ p[k] = p[k - 1] + 1 /\ text[k] = ToText(r)[p[k]]
  BY DEF Along
<1>2. Len(text) \in Nat /\ Len(ToText(r)) \in Nat
  BY TextLines, ListPlaces
<1>3. p[k] \in 0..Len(ToText(r)) /\ p[k - 1] \in 0..Len(ToText(r))
  <2>1. k \in 0..Len(text) /\ k - 1 \in 0..Len(text)
    BY <1>2
  <2> QED BY <2>1 DEF Along
<1>4. CASE p[k] = p[k - 1] + 1 /\ text[k] = ToText(r)[p[k]]
  <2>1. p[k - 1] < Len(ToText(r)) /\ p[k - 1] + 1 \in 1..Len(ToText(r))
    BY <1>2, <1>3, <1>4
  <2> QED BY <1>4, <2>1
<1> QED BY <1>1, <1>4

LEMMA AnnotationLeft ==
  ASSUME NEW line \in Annotations, NEW j \in 0..Len(line), NEW t, Left(line, t, j)
  PROVE  IsList(t) /\ IsNote(t)
<1> DEFINE c == <<W("#"), W("seed"), N(9)>>
<1>1. IsList(c) /\ c[1] = W("#")
  BY ListsOfThree
<1>2. line = <<>> \/ line = c
  BY DEF Annotations
<1> HIDE DEF c
<1>3. IsList(line)
  BY <1>1, <1>2, ShortLists
<1>4. IsList(t) /\ Len(t) = j /\ Remains(t, line)
  BY <1>3, LeftRemains
<1>5. CASE line = <<>>
  <2>1. Len(line) = 0
    BY <1>5, ShortLists
  <2>2. j = 0
    BY <2>1
  <2>3. IsList(<<>>) /\ Len(<<>>) = 0 /\ \A i \in 1..Len(t) : t[i] = <<>>[i]
    BY <1>4, <2>2, ShortLists
  <2>4. t = <<>>
    BY <1>4, <2>2, <2>3, SameLists
  <2> QED BY <1>4, <2>4 DEF IsNote
<1>6. CASE line = c
  <2>1. t = <<>> \/ t[1] = W("#") \/ t[1] \in Stumps(W("#"))
    BY <1>1, <1>4, <1>6 DEF Remains
  <2> QED BY <1>4, <2>1, StumpsOfWords DEF IsNote
<1> QED BY <1>2, <1>5, <1>6

LEMMA EndIsLost ==
  ASSUME NEW r, IsRecording(r), NEW text, Annotated(r, text),
         NEW k \in DOMAIN text, NEW j \in 0..Len(text[k]), NEW t, Left(text[k], t, j)
  PROVE  Lost(r, Append(SubSeq(text, 1, k - 1), t))
<1> DEFINE head == SubSeq(text, 1, k - 1)
           new == Append(head, t)
<1>1. IsList(text)
  BY DEF Annotated
<1>2. PICK p : Along(r, text, Len(text), p)
  BY DEF Annotated
<1>3. Len(text) \in Nat /\ k \in 1..Len(text) /\ k \in Nat \ {0} /\ k - 1 \in 0..Len(text)
  BY <1>1, ListPlaces
<1>4. IsList(head) /\ Len(head) = k - 1 /\ \A i \in 1..(k - 1) : head[i] = text[i]
  <2>1. 1 \in Nat \ {0} /\ 1 <= (k - 1) + 1 /\ ((k - 1) - 1) + 1 = k - 1
    BY <1>3
  <2>2. /\ IsList(head) /\ Len(head) = ((k - 1) - 1) + 1
        /\ \A i \in 1..(((k - 1) - 1) + 1) : head[i] = text[(1 + i) - 1]
    BY <1>1, <1>3, <2>1, PartOfList
  <2>3. \A i \in 1..(k - 1) : (1 + i) - 1 = i
    BY <1>3
  <2> HIDE DEF head
  <2> QED BY <2>1, <2>2, <2>3
<1> HIDE DEF head
<1>5. /\ IsList(new) /\ Len(new) = Len(head) + 1 /\ new[Len(head) + 1] = t
      /\ \A i \in 1..Len(head) : new[i] = head[i]
  <2>1. IsList(head)
    BY <1>4
  <2> QED BY <2>1, AppendedList
<1> HIDE DEF new
<1>6. Len(new) = k /\ new[k] = t /\ \A i \in 1..(k - 1) : new[i] = text[i]
  BY <1>3, <1>4, <1>5
<1>7. Along(r, new, k - 1, p)
  <2>1. /\ p[0] = 0
        /\ \A i \in 0..Len(text) : p[i] \in 0..Len(ToText(r))
        /\ \A i \in 1..Len(text) : \/ text[i] \in Annotations /\ p[i] = p[i - 1]
                                   \/ p[i] = p[i - 1] + 1 /\ text[i] = ToText(r)[p[i]]
    BY <1>2 DEF Along
  <2>2. /\ \A i \in 0..(k - 1) : i \in 0..Len(text)
        /\ \A i \in 1..(k - 1) : i \in 1..Len(text)
    BY <1>3
  <2> QED BY <1>6, <2>1, <2>2 DEF Along
<1>8. IsList(t) /\ (IsNote(t) \/ (p[k - 1] < Len(ToText(r)) /\ Remains(t, ToText(r)[p[k - 1] + 1])))
  <2>1. CASE text[k] \in Annotations
    BY <2>1, AnnotationLeft
  <2>2. CASE p[k - 1] < Len(ToText(r)) /\ text[k] = ToText(r)[p[k - 1] + 1]
             /\ p[k - 1] + 1 \in 1..Len(ToText(r))
    <3>1. IsList(text[k])
      BY <2>2, LineShape
    <3>2. IsList(t) /\ Remains(t, text[k])
      BY <3>1, LeftRemains
    <3> QED BY <2>2, <3>2
  <2> QED BY <1>1, <1>2, <1>3, <2>1, <2>2, LineOfFile
<1>9. Lost(r, new)
  <2>1. Along(r, new, Len(new) - 1, p) /\ new[Len(new)] = t /\ p[Len(new) - 1] = p[k - 1]
    BY <1>6, <1>7
  <2>2. Len(new) # 0
    BY <1>3, <1>6
  <2> QED BY <1>5, <1>8, <2>1, <2>2 DEF Lost
<1> QED BY <1>9 DEF new, head

(* What a check of a file may say. *)
Verdicts(text) ==
  IF FromText(text) = {} THEN {"unreadable"} ELSE {VerifyReplay(r) : r \in FromText(text)}

(* What is known of a file, cut or not, and of the last verdict on it. *)
Judged ==
  /\ Recorded
  /\ IF cut THEN Lost(recording, file) ELSE Annotated(recording, file)
  /\ verdict # "none" => verdict \in Verdicts(file)

LEMMA JudgedStays == RecordingSpec => []Judged
<1>1. RecordingInit => Judged
  <2> SUFFICES ASSUME RecordingInit
               PROVE  Judged
    OBVIOUS
  <2>1. PICK sc \in Scenario : recording = Record(sc)
    BY DEF RecordingInit
  <2>2. IsRecording(recording)
    BY <2>1, RecordIsRecording
  <2> QED BY <2>1, <2>2, TextIsAnnotated DEF RecordingInit, Judged, Recorded
<1>2. Judged /\ Kept /\ Kept' /\ [RecordingNext]_recordingVars => Judged'
  <2> SUFFICES ASSUME Judged, Kept, Kept', [RecordingNext]_recordingVars
               PROVE  Judged'
    OBVIOUS
  <2>1. CASE Annotate
    <3>1. Recorded' /\ ~cut' /\ verdict' = "none"
      BY <2>1 DEF Annotate, Judged, Recorded
    <3>2. Annotated(recording, file)'
      BY <3>1 DEF Kept
    <3> QED BY <3>1, <3>2 DEF Judged
  <2>2. CASE Lose
    <3>1. ~cut /\ cut' = TRUE /\ verdict' = "none" /\ recording' = recording
      BY <2>2 DEF Lose
    <3>2. PICK k \in DOMAIN file : \E j \in 0..Len(file[k]) :
            LET head == SubSeq(file, 1, k - 1)
                line == SubSeq(file[k], 1, j)
            IN  \/ file' = Append(head, line)
                \/ j > 0 /\ \E stump \in Stumps(line[j]) :
                              file' = Append(head, Append(Front(line), stump))
      BY <2>2 DEF Lose
    <3>3. PICK j \in 0..Len(file[k]) : \E t : /\ Left(file[k], t, j)
                                             /\ file' = Append(SubSeq(file, 1, k - 1), t)
      BY <3>2, Zenon DEF Left
    <3>4. PICK t : Left(file[k], t, j) /\ file' = Append(SubSeq(file, 1, k - 1), t)
      BY <3>3
    <3>5. Lost(recording, file')
      BY <3>1, <3>4, EndIsLost DEF Kept
    <3>6. Recorded'
      BY <3>1 DEF Judged, Recorded
    <3> QED BY <3>1, <3>5, <3>6 DEF Judged
  <2>3. CASE Check
    <3>1. recording' = recording /\ file' = file /\ cut' = cut /\ verdict' \in Verdicts(file)
      BY <2>3 DEF Check, Verdicts
    <3>2. Recorded' /\ (IF cut THEN Lost(recording, file) ELSE Annotated(recording, file))
      BY <3>1 DEF Judged, Recorded
    <3> QED BY <3>1, <3>2 DEF Judged
  <2>4. CASE UNCHANGED recordingVars
    BY <2>4 DEF recordingVars, Judged, Recorded
  <2> QED BY <2>1, <2>2, <2>3, <2>4 DEF RecordingNext
<1> QED BY <1>1, <1>2, KeptStays, PTL DEF RecordingSpec

LEMMA RecordDuration ==
  ASSUME NEW sc \in Scenario
  PROVE  Record(sc).scenario.duration # 0
<1>1. sc.duration # 0
  BY DurationAssumption
<1>2. sc = [seed |-> sc.seed, duration |-> sc.duration, nodes |-> sc.nodes,
            faults |-> sc.faults, script |-> sc.script]
  BY RecordingAssumption DEF IsScenario
<1>3. \E v : Normalise(sc) = [sc EXCEPT !.script = v]
  BY Zenon DEF Normalise
<1>4. Normalise(sc).duration = sc.duration
  BY <1>2, <1>3
<1> QED BY <1>1, <1>4 DEF Record

(* A run is at its end when its scenario is over. *)
LEMMA RunEnds ==
  ASSUME NEW sc, sc = [seed |-> sc.seed, duration |-> sc.duration, nodes |-> sc.nodes,
                       faults |-> sc.faults, script |-> sc.script]
  PROVE  Run(sc).end = sc.duration
<1> DEFINE n == Normalise(sc)
<1>1. n.duration = sc.duration
  <2>1. \E v : n = [sc EXCEPT !.script = v]
    BY Zenon DEF Normalise
  <2> QED BY <2>1
<1> HIDE DEF n
<1>2. \E x, y, z : RunOf(n) = [trace |-> x, end |-> n.duration, stats |-> y, frames |-> z]
  BY Zenon DEF RunOf
<1>3. RunOf(n).end = n.duration
  BY <1>2
<1> QED BY <1>1, <1>3 DEF Run, n

(* A recording replays: its scenario is in the order in which it ran. *)
LEMMA RecordReplays ==
  ASSUME NEW sc \in Scenario
  PROVE  Run(Record(sc).scenario) = Record(sc).report /\ VerifyReplay(Record(sc)) = "same"
<1> DEFINE r == Record(sc)
<1>1. IsScenario(sc)
  BY RecordingAssumption
<1>2. Normalise(Normalise(sc)) = Normalise(sc)
  BY <1>1, NormalForm
<1>3. r.scenario = Normalise(sc) /\ r.report = Run(sc)
  BY DEF Record
<1>4. Run(Normalise(sc)) = Run(sc)
  BY <1>2, Zenon DEF Run
<1>5. Replay(r) = r.report
  BY <1>3, <1>4, Zenon DEF Replay
<1> HIDE DEF r
<1>6. FirstDivergence(r.report, r.report) = 0
  BY DEF FirstDivergence
<1> QED BY <1>3, <1>4, <1>5, <1>6 DEF VerifyReplay, r

(* A verdict on a file says "same" when the file is read as the recording  *)
(* it was, and only then (record.rs): one that lost its end never passes   *)
(* for a run.                                                              *)
THEOREM VerdictsAreRight == RecordingSpec => []VerdictIsRight
<1>1. Judged /\ Kept => VerdictIsRight
  <2> SUFFICES ASSUME Judged, Kept, verdict # "none"
               PROVE  verdict = "same" <=> FromText(file) = {recording}
    BY DEF VerdictIsRight
  <2> DEFINE all == FromText(file)
  <2>1. PICK sc \in Scenario : recording = Record(sc)
    BY DEF Judged, Recorded
  <2>2. Run(recording.scenario) = recording.report /\ VerifyReplay(recording) = "same"
    BY <2>1, RecordReplays
  <2>3. verdict \in IF all = {} THEN {"unreadable"} ELSE {VerifyReplay(r) : r \in all}
    BY DEF Judged, Verdicts
  <2>4. recording = [scenario |-> recording.scenario, report |-> recording.report]
    BY DEF Kept, IsRecording
  <2>5. ~cut => all = {recording}
    BY AnnotatedReads DEF Judged, Kept
  <2>6. cut => \/ \A q \in all :
                    /\ q.report.end = 0 /\ q.scenario.duration # 0
                    /\ \E s \in {q.scenario} :
                         s = [seed |-> s.seed, duration |-> s.duration, nodes |-> s.nodes,
                              faults |-> s.faults, script |-> s.script]
               \/ /\ AtMostOne(all)
                  /\ \A q \in all : q.scenario = recording.scenario
                                    /\ q = [scenario |-> q.scenario, report |-> q.report]
    <3>1. cut => Lost(recording, file)
      BY DEF Judged
    <3>2. IsRecording(recording)
      BY DEF Kept
    <3>3. recording.scenario.duration # 0
      BY <2>1, RecordDuration
    <3> QED BY <3>1, <3>2, <3>3, LostRecordings
  <2> HIDE DEF all
  <2>7. ASSUME all = {recording}
        PROVE  verdict = "same"
    <3>1. verdict \in {VerifyReplay(r) : r \in {recording}}
      BY <2>3, <2>7
    <3> QED BY <2>2, <3>1
  <2>8. ASSUME verdict = "same"
        PROVE  all = {recording}
    <3>1. PICK q \in all : VerifyReplay(q) = "same"
      BY <2>3, <2>8
    <3>2. q.report = Run(q.scenario)
      BY <3>1 DEF VerifyReplay, Replay
    <3>3. CASE ~cut
      BY <2>5, <3>3
    <3>4. CASE cut /\ \A a \in all :
                        /\ a.report.end = 0 /\ a.scenario.duration # 0
                        /\ \E s \in {a.scenario} :
                             s = [seed |-> s.seed, duration |-> s.duration, nodes |-> s.nodes,
                                  faults |-> s.faults, script |-> s.script]
      <4> DEFINE s == q.scenario
      <4>1. /\ s = [seed |-> s.seed, duration |-> s.duration, nodes |-> s.nodes,
                    faults |-> s.faults, script |-> s.script]
            /\ q.report.end = 0 /\ s.duration # 0
        BY <3>4
      <4>2. Run(s).end = s.duration
        BY <4>1, RunEnds
      <4> QED BY <3>2, <4>1, <4>2
    <3>5. CASE AtMostOne(all) /\ \A a \in all : /\ a.scenario = recording.scenario
                                                /\ a = [scenario |-> a.scenario,
                                                        report |-> a.report]
      <4>1. q.scenario = recording.scenario /\ q = [scenario |-> q.scenario, report |-> q.report]
        BY <3>5
      <4>2. q.report = recording.report
        BY <2>2, <3>2, <4>1
      <4>3. q = recording
        BY <2>4, <4>1, <4>2
      <4> QED BY <3>5, <4>3 DEF AtMostOne
    <3> QED BY <2>6, <3>3, <3>4, <3>5
  <2> QED BY <2>7, <2>8 DEF all
<1> QED BY <1>1, JudgedStays, KeptStays, PTL
=============================================================================
