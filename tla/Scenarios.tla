----------------------------- MODULE Scenarios -----------------------------
(***************************************************************************)
(* What a run of the simulator is (scenario.rs) and what is kept of it     *)
(* (world.rs): a seed, a script and a report with a trace.                 *)
(*                                                                         *)
(* A run is a function of its scenario; World has every run there can be.  *)
(* Run is one of them, enough to tell two scenarios apart: the network is  *)
(* perfect, a core does the same whenever it is woken, and its timers wait *)
(* beyond the end.                                                         *)
(***************************************************************************)
EXTENDS Integers, FiniteSets, SequencesExt, Sorted

CONSTANTS
  CoreActions,      \* what a core does when it is woken: kinds of a trace
  MaxValueLength,   \* the longest value a device stores
  Mtu               \* the longest datagram

DefaultCapacity == 16

PerfectFaults == <<0, 0, 0, 0, 0, 0>>

-----------------------------------------------------------------------------
(* A device, [id, pixels, skew, drift, storage], and a scenario.           *)

NewNode(id, pixels) ==
  [id |-> id, pixels |-> pixels, skew |-> 0, drift |-> 0, storage |-> DefaultCapacity]

WithClockError(spec, skew, drift) == [spec EXCEPT !.skew = skew, !.drift = drift]
WithStorageCapacity(spec, capacity) == [spec EXCEPT !.storage = capacity]

NewScenario(seed, duration) ==
  [seed |-> seed, duration |-> duration, nodes |-> <<>>, faults |-> PerfectFaults,
   script |-> <<>>]

WithNode(sc, spec) == [sc EXCEPT !.nodes = Append(@, spec)]
WithNodes(sc, count, pixels) ==
  [sc EXCEPT !.nodes = @ \o [id \in 1..count |-> NewNode(id, pixels)]]
WithFaults(sc, faults) == [sc EXCEPT !.faults = faults]

(* An operation is a record with a tag and the fields its tag has. *)
AtTime(sc, t, op) == [sc EXCEPT !.script = Append(@, [at |-> t, op |-> op])]

(* Every period from start until end, which is not part of it; what is done *)
(* may depend on the time.                                                 *)
Every(sc, start, period, end, make) ==
  LET times == {t \in start..(end - 1) : period > 0 /\ (t - start) % period = 0}
      train == SetToSortSeq(times, <)
  IN  [sc EXCEPT !.script =
         @ \o [i \in DOMAIN train |-> [at |-> train[i], op |-> make[train[i]]]]]

(* In order of time, and as it was added where the time is the same. *)
Normalise(sc) ==
  LET earlier(i, j) == \/ sc.script[i].at < sc.script[j].at
                       \/ sc.script[i].at = sc.script[j].at /\ i < j
      order == InOrder(DOMAIN sc.script, earlier)
  IN  [sc EXCEPT !.script = [k \in DOMAIN sc.script |-> sc.script[order[k]]]]

(* The device an operation is about, or 0. *)
OpNode(op) ==
  CASE op.tag \in {"partition", "heal"} -> op.a
    [] op.tag \in {"send", "multicast"} -> op.from
    [] op.tag \in {"heal_all", "split", "set_faults"} -> 0
    [] OTHER -> op.node

-----------------------------------------------------------------------------
(* A run.  The kind of a trace entry is [type, ...], its type the words it *)
(* is known by.                                                            *)

(* In place of FNV-1a. *)
Digest(h, n) == (h * 31 + n + 1) % 97

DigestOf(bytes) == FoldLeft(Digest, 7, bytes)

(* A strip, <<frames presented, digest over all of them>>.  The digest has *)
(* the time of each frame; the ring of recent frames is not in a report.   *)
NewLed == <<0, 7>>

Presented(led, now, level) == <<led[1] + 1, Digest(Digest(led[2], now), level)>>

Ids(sc) == {sc.nodes[i].id : i \in DOMAIN sc.nodes}

StartRun(sc) ==
  [now |-> 0, trace |-> <<>>, on |-> Ids(sc), cut |-> {}, joined |-> {},
   inbox |-> [id \in Ids(sc) |-> <<>>], sent |-> 0, delivered |-> 0, partitioned |-> 0, unreachable |-> 0,
   frames |-> [id \in Ids(sc) |-> NewLed]]

Traced(run, node, kinds) ==
  [run EXCEPT !.trace =
     @ \o [i \in DOMAIN kinds |-> [at |-> run.now, node |-> node, kind |-> kinds[i]]]]

Transmitted(run, op) ==
  LET targets == IF op.tag = "send" THEN {op.to} \cap DOMAIN run.frames
                 ELSE {n \in DOMAIN run.frames \ {op.from} : <<n, op.group>> \in run.joined}
      open == {n \in targets : {op.from, n} \notin run.cut}
      packet == [from |-> op.from, bytes |-> op.bytes]
  IN  [run EXCEPT
         !.sent = @ + 1,
         !.partitioned = @ + Cardinality(targets \ open),
         !.unreachable = @ + (IF targets = {} THEN 1 ELSE Cardinality(open \ run.on)),
         !.inbox = [n \in DOMAIN run.inbox |-> IF n \in open \cap run.on
                                               THEN Append(run.inbox[n], packet)
                                               ELSE run.inbox[n]]]

(* A device that has too much to say, or is down, is told so. *)
NodeSend(run, op) ==
  CASE op.from \notin DOMAIN run.frames -> run
    [] op.from \in DOMAIN run.frames /\ Len(op.bytes) > Mtu ->
         Traced(run, op.from, <<[type |-> <<"net_err", "payload_too_large">>]>>)
    [] op.from \in DOMAIN run.frames \ run.on /\ Len(op.bytes) <= Mtu ->
         Traced(run, op.from, <<[type |-> <<"net_err", "node_down">>]>>)
    [] OTHER -> Transmitted(run, op)

NodePresent(run, op) ==
  LET led == Presented(run.frames[op.node], run.now, op.level)
  IN  CASE op.node \notin DOMAIN run.frames -> run
        [] op.node \in run.on ->
             Traced([run EXCEPT !.frames[op.node] = led], op.node,
                    <<[type |-> <<"frame">>, digest |-> led[2]]>>)
        [] OTHER -> Traced(run, op.node, <<[type |-> <<"led_err", "powered_off">>]>>)

(* World::apply: the operation is traced, and then what comes of it. *)
Apply(before, op) ==
  LET run == Traced(before, OpNode(op), <<[type |-> <<"op", op.tag>>]>>)
      all == DOMAIN run.frames
  IN  CASE op.tag = "tick" /\ op.node \in run.on ->
             Traced(run, op.node, <<[type |-> <<"event", "tick">>]>> \o CoreActions)
        [] op.tag \in {"send", "multicast"} -> NodeSend(run, op)
        [] op.tag = "join" /\ op.node \in run.on ->
             [run EXCEPT !.joined = @ \cup {<<op.node, op.group>>}]
        [] op.tag = "join" /\ op.node \in all \ run.on ->
             Traced(run, op.node, <<[type |-> <<"net_err", "node_down">>]>>)
        [] op.tag = "kill" /\ op.node \in all ->
             [run EXCEPT !.on = @ \ {op.node}, !.inbox[op.node] = <<>>,
                         !.unreachable = @ + Len(run.inbox[op.node])]
        [] op.tag = "revive" -> [run EXCEPT !.on = @ \cup ({op.node} \cap all)]
        [] op.tag = "partition" -> [run EXCEPT !.cut = @ \cup {{op.a, op.b}}]
        [] op.tag = "heal" -> [run EXCEPT !.cut = @ \ {{op.a, op.b}}]
        [] op.tag = "heal_all" -> [run EXCEPT !.cut = {}]
        [] op.tag = "split" ->
             [run EXCEPT !.cut = @ \cup {{op.left[i], op.right[j]} :
                                           i \in DOMAIN op.left, j \in DOMAIN op.right}]
        [] op.tag = "present" -> NodePresent(run, op)
        [] op.tag = "store" /\ op.node \in all /\ Len(op.value) > MaxValueLength ->
             Traced(run, op.node, <<[type |-> <<"store_err", "value_too_long">>]>>)
        [] OTHER -> run

(* The sockets are drained when the operations of the instant are over, in *)
(* the order of the devices and of arrival.                                *)
Received(run, node, packet) ==
  Traced([run EXCEPT !.delivered = @ + 1], node,
         <<[type |-> <<"rx">>, from |-> packet.from, len |-> Len(packet.bytes),
            digest |-> DigestOf(packet.bytes)]>> \o CoreActions)

Settle(run) ==
  LET waiting == UNION {{n} \X DOMAIN run.inbox[n] : n \in run.on}
      sooner(x, y) == x[1] < y[1] \/ (x[1] = y[1] /\ x[2] < y[2])
      order == InOrder(waiting, sooner)
      drained[k \in 0..Cardinality(waiting)] ==
        IF k = 0 THEN [run EXCEPT !.inbox = [n \in DOMAIN @ |-> <<>>]]
        ELSE Received(drained[k - 1], order[k][1], run.inbox[order[k][1]][order[k][2]])
  IN  drained[Cardinality(waiting)]

(* World::run and World::report: all that is due before the end. *)
Due(run, s) ==
  IF s.at > run.now THEN Apply([Settle(run) EXCEPT !.now = s.at], s.op) ELSE Apply(run, s.op)

RunOf(sc) ==
  LET ran[n \in 0..Len(sc.script)] ==
        IF n = 0 THEN StartRun(sc)
        ELSE IF sc.script[n].at > sc.duration THEN ran[n - 1]
        ELSE Due(ran[n - 1], sc.script[n])
      end == Settle(ran[Len(sc.script)])
  IN  [trace |-> end.trace, end |-> sc.duration,
       stats |-> <<end.sent, end.delivered, 0, end.partitioned, end.unreachable, 0, 0>>,
       frames |-> end.frames]

Run(scenario) == RunOf(Normalise(scenario))

(* Where two traces first differ, 0 if nowhere: one that is shorter        *)
(* differs where it ends.                                                  *)
FirstDivergence(mine, theirs) ==
  LET differs == {i \in 1..(Len(mine.trace) + Len(theirs.trace)) :
                    \/ i \in DOMAIN mine.trace /\ i \notin DOMAIN theirs.trace
                    \/ i \notin DOMAIN mine.trace /\ i \in DOMAIN theirs.trace
                    \/ /\ i \in DOMAIN mine.trace /\ i \in DOMAIN theirs.trace
                       /\ mine.trace[i] # theirs.trace[i]}
  IN  IF differs = {} THEN 0 ELSE CHOOSE i \in differs : \A j \in differs : i <= j
=============================================================================
