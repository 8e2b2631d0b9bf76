---------------------------- MODULE VectorExport ----------------------------
(***************************************************************************)
(* A recording turned into a vector for other implementations (export.rs): *)
(* the events of its script, and of its trace what a device must do.       *)
(***************************************************************************)
EXTENDS Recording

CONSTANT OpSample  \* operations that differ in one field each

ASSUME VectorAssumption == \A op \in OpSample : IsOp(op)

(* Variant: a stored record is exported without its value. *)
OpDetailKeyOnly(op) ==
  CASE op.tag = "send" -> [to |-> op.to, bytes |-> op.bytes]
    [] op.tag = "multicast" -> [group |-> op.group, bytes |-> op.bytes]
    [] op.tag = "join" -> [group |-> op.group]
    [] op.tag = "revive" -> [wipe_storage |-> op.wipe]
    [] op.tag \in {"partition", "heal"} -> [a |-> op.a, b |-> op.b]
    [] op.tag = "split" -> [left |-> op.left, right |-> op.right]
    [] op.tag = "set_faults" -> [faults |-> op.faults]
    [] op.tag \in {"skew", "discipline"} -> [offset_us |-> op.offset]
    [] op.tag = "drift" -> [ppm |-> op.ppm]
    [] op.tag = "present" -> [level |-> op.level]
    [] op.tag \in {"store", "erase"} -> [key |-> op.key]
    [] OTHER -> [nothing |-> TRUE]

(* What an event says besides the device it is about. *)
OpDetail(op) ==
  CASE op.tag = "send" -> [to |-> op.to, bytes |-> op.bytes]
    [] op.tag = "multicast" -> [group |-> op.group, bytes |-> op.bytes]
    [] op.tag = "join" -> [group |-> op.group]
    [] op.tag = "revive" -> [wipe_storage |-> op.wipe]
    [] op.tag \in {"partition", "heal"} -> [a |-> op.a, b |-> op.b]
    [] op.tag = "split" -> [left |-> op.left, right |-> op.right]
    [] op.tag = "set_faults" -> [faults |-> op.faults]
    [] op.tag \in {"skew", "discipline"} -> [offset_us |-> op.offset]
    [] op.tag = "drift" -> [ppm |-> op.ppm]
    [] op.tag = "present" -> [level |-> op.level]
    [] op.tag = "store" -> [key |-> op.key, value |-> op.value]
    [] op.tag = "erase" -> [key |-> op.key]
    [] OTHER -> [nothing |-> TRUE]

ExportedOp(op) == [node |-> OpNode(op), op |-> op.tag, detail |-> OpDetail(op)]

(* A failure is exported without what failed, a datagram without its       *)
(* transport and one received without its digest.                          *)
ExpectedKind(kind) ==
  CASE kind.type[1] \in {"net_err", "store_err", "led_err"} -> [rejected |-> kind.type[1]]
    [] kind.type = <<"rx">> -> [from |-> kind.from, len |-> kind.len]
    [] kind.type = <<"action", "send">> -> [to |-> kind.dest, datagram |-> kind.datagram]
    [] OTHER -> kind

(* What the harness did is expected of no one. *)
Expected(trace) ==
  LET device == SelectSeq(trace, LAMBDA e : e.kind.type[1] # "op")
  IN  [i \in DOMAIN device |->
         [at |-> device[i].at, node |-> device[i].node, what |-> ExpectedKind(device[i].kind)]]

Vector(r) ==
  [seed |-> r.scenario.seed, duration |-> r.scenario.duration, network |-> r.scenario.faults,
   nodes |-> Each(r.scenario.nodes, LAMBDA n : [id |-> n.id, pixels |-> n.pixels,
                                                skew |-> n.skew, drift |-> n.drift]),
   events |-> Each(r.scenario.script, LAMBDA s : [at |-> s.at, what |-> ExportedOp(s.op)]),
   expected |-> Expected(r.report.trace)]

-----------------------------------------------------------------------------
(* Who is given the events of a vector can do what was done: no two        *)
(* operations look alike in it.                                            *)
EventsToldApart ==
  \A i \in DOMAIN recording.scenario.script : \A o \in OpSample :
    ExportedOp(o) = Vector(recording).events[i].what => o = recording.scenario.script[i].op
=============================================================================
