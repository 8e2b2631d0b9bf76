------------------------------ MODULE MCAdapter ------------------------------
(* Requests for the conformance adapter, a few vectors' worth for each     *)
(* machine: what it can read and what it cannot.                           *)
EXTENDS ConformanceAdapter

Num(n) == [number |-> n]
Word(s) == [text |-> s]
Hex(h) == [hex |-> h]
List(l) == [list |-> l]
Obj(r) == [object |-> r]

None == Obj([none |-> Num(0)])

ResetTo(name, state) ==
  [verb |-> "reset", body |-> Obj([machine |-> Word(name), state |-> Obj(state)])]

EventAt(at, ev) == [verb |-> "event", body |-> Obj([at_us |-> Num(at), event |-> Obj(ev)])]

Odd ==
  {[verb |-> "hello", body |-> None], [verb |-> "decode", body |-> None],
   [verb |-> "event", body |-> [garbage |-> TRUE]], [verb |-> "event", body |-> None],
   [verb |-> "reset", body |-> Obj([machine |-> Word("sources")])],
   ResetTo("toaster", [none |-> Num(0)]),
   EventAt(0, [event |-> Word("no such event")])}

Nodes ==
  {ResetTo("node", [uuid |-> Hex(1), mesh_id |-> Hex(2), capacity |-> Num(9)]),
   ResetTo("node", [uuid |-> Word("xyz"), mesh_id |-> Hex(2), capacity |-> Num(1)]),
   EventAt(1, [event |-> Word("tick")]),
   EventAt(1, [event |-> Word("datagram"), bytes |-> Hex(50)]),
   EventAt(1, [event |-> Word("datagram"), bytes |-> Word("xyz")]),
   EventAt(1, [event |-> Word("peer_discovered"), prefix |-> Hex(11)]),
   EventAt(2, [event |-> Word("peer_lost"), prefix |-> Hex(1)])}

ChannelRequests ==
  {ResetTo("channel", [channel_id |-> Num(17), default |-> Num(-1)]),
   EventAt(0, [event |-> Word("claim"), producer |-> Hex(11), priority |-> Num(9), lease_ms |-> Num(1)]),
   EventAt(1, [event |-> Word("publish"), producer |-> Hex(11), seq |-> Num(17), value |-> Num(-9)]),
   EventAt(1, [event |-> Word("release"), producer |-> Hex(1)]),
   EventAt(1, [event |-> Word("release"), producer |-> Hex(11)]),
   EventAt(2, [event |-> Word("read")])}

(* A binding, one with too high a ceiling, one that wraps, an empty one,   *)
(* and one for a protocol there is none of.                                *)
GatewayRequests ==
  {ResetTo("gateway",
     [id |-> Hex(1), zone |-> Hex(2), protocol |-> Word(p), priority_ceiling |-> Num(c),
      pixel_from |-> Num(f), pixel_to |-> Num(t)]) :
     p \in {"ddp", "fax"}, c \in {1, 7, 9}, f \in {0, 2}, t \in {2, 4}}
  \cup
  {EventAt(1, [event |-> Word("ingress"), source_id |-> Hex(3), offset |-> Num(1), count |-> Num(3)]),
   EventAt(1, [event |-> Word("ingress"), source_id |-> Hex(3), offset |-> Num(3), count |-> Num(6),
               priority |-> Num(7)]),
   EventAt(1, [event |-> Word("ingress"), offset |-> Num(3)]),
   EventAt(1, [event |-> Word("program")]), EventAt(1, [event |-> Word("ceiling")])}

LedAt(i, x, y, z) ==
  Obj([index |-> Num(i), world |-> List(<<Num(4 * x), Num(4 * y), Num(4 * z)>>)])

(* LEDs out of order, in a plane, in a corner, and hardly any. *)
DeviceOf(quality, leds) ==
  Obj([device |-> Hex(1), quality |-> Word(quality), leds |-> List(leds)])

DeviceJson ==
  {DeviceOf(q, l) :
     q \in {"synthetic", "mapped", "guessed"},
     l \in {<<LedAt(2, 0, 0, 0), LedAt(0, 1, -1, 0), LedAt(1, 2, 2, 0), LedAt(3, -1, 3, 1)>>,
            <<LedAt(0, 2, 0, 0), LedAt(1, 2, 0, 0), LedAt(2, 0, 2, 2)>>,
            <<LedAt(5, 1, 1, 1)>>}}

Whole == Obj([clause |-> Word("device"), device |-> Hex(1)])
FirstTwo == Obj([clause |-> Word("device"), device |-> Hex(1), leds |-> List(<<Num(0), Num(2)>>)])
RightHalf ==
  Obj([clause |-> Word("where"), predicate |-> Word("compare"), axis |-> Word("x"),
       op |-> Word("ge"), value |-> Num(4)])
NotNear ==
  Obj([clause |-> Word("where"), predicate |-> Word("all"),
       of |-> List(<<Obj([predicate |-> Word("not"),
                          of |-> Obj([predicate |-> Word("near"), radius |-> Num(5)])])>>)])
NoClause == Obj([clause |-> Word("where"), predicate |-> Word("any")])

ZoneRequests ==
  {ResetTo("zone", [device |-> d, zone |-> Obj([id |-> Hex(2), include |-> List(in), exclude |-> List(ex)])]) :
     d \in DeviceJson,
     in \in {<<Whole>>, <<FirstTwo, RightHalf>>, <<NoClause>>}, ex \in {<<>>, <<NotNear>>}}
  \cup {EventAt(0, [event |-> Word("resolve")]), EventAt(0, [event |-> Word("why_excluded")])}

Projections ==
  {[type |-> "strip"], [type |-> "angle", axis |-> "z"], [type |-> "angle", axis |-> "x"],
   [type |-> "grid", width |-> 2, height |-> 2], [type |-> "grid", width |-> 1, height |-> 3],
   [type |-> "grid", width |-> 3, height |-> 2], [type |-> "grid", width |-> 0, height |-> 0]}
  \cup {[type |-> "axis", vector |-> v] : v \in {<<4, 0, 0>>, <<-4, 0, 0>>, <<4, 4, 0>>, <<0, -4, -4>>, <<4, -4, 0>>}}
  \cup {[type |-> "radial", point |-> p] : p \in {<<0, 0, 0>>, <<8, 4, 0>>, <<4, 12, 4>>}}

Pair(u, k) == Obj([id |-> Hex(u), key |-> Hex(k)])

RecordJson(kind, signature) ==
  Obj([kind |-> Num(kind), hlc |-> Num(5), id |-> Hex(1), author |-> Hex(2), signature |-> signature])

RecordRequests ==
  {ResetTo("records", [controllers |-> List(<<Pair(2, 21)>>), devices |-> List(<<>>)]),
   ResetTo("records", [controllers |-> List(<<Pair(2, 21), Pair(2, 1)>>)]),
   EventAt(0, [event |-> Word("accept"), wall_ms |-> Num(3), record |-> RecordJson(1, Hex(31))]),
   EventAt(0, [event |-> Word("accept"), record |-> RecordJson(1, Word("xyz"))]),
   EventAt(0, [event |-> Word("accept"), record |-> RecordJson(6, Hex(31))]),
   EventAt(0, [event |-> Word("digest")]),
   EventAt(0, [event |-> Word("wanted"), theirs |-> List(<<Obj([id |-> Hex(1), hlc |-> Num(5)])>>)]),
   EventAt(0, [event |-> Word("reconcile"), theirs |-> List(<<Obj([id |-> Hex(11), hlc |-> Num(5)])>>)])}

Peer(u, f, c) == Obj([uuid |-> Hex(u), flash_kib |-> Num(f), capacity |-> Num(c)])
Bridged(u) == Obj([uuid |-> Hex(u), flash_kib |-> Num(5), eligible |-> [flag |-> FALSE]])

(* Every table of up to four peers that may tie in part, in every order. *)
KeeperRequests ==
  {ResetTo("keepers", [peers |-> List(<<p, q, r, s>>)]) :
     p, q, r, s \in {Peer(1, 1, 1), Peer(2, 1, 1), Peer(3, 1, 0), Peer(4, 2, 0), Bridged(3)}}
  \cup
  {ResetTo("keepers", [peers |-> List(<<Peer(1, 1, 1), Obj([flash_kib |-> Num(1)])>>)]),
   EventAt(0, [event |-> Word("select")]),
   EventAt(0, [event |-> Word("is_keeper"), uuid |-> Hex(2)]),
   EventAt(0, [event |-> Word("is_keeper"), uuid |-> Hex(11)])}

(* Sources: an ambient scene, a show that fades, one that asks too much,   *)
(* one whose priority wraps, and one without the scene.                    *)
SourceJson(name, u, p, until) ==
  [event |-> Word(name), id |-> Hex(u), zone |-> Hex(1), scene |-> Hex(1), priority |-> Num(p),
   expires_at_us |-> until, cost |-> Num(1), fade_out_ms |-> Num(p), program |-> Hex(40),
   led_to |-> Num(2)]

SourceRequests ==
  {ResetTo("sources", [budget |-> Num(2), max_concurrent |-> Num(1)]),
   EventAt(0, SourceJson("push", 1, 0, [null |-> TRUE])),
   EventAt(1, SourceJson("push", 2, 1, Num(2))),
   EventAt(1, SourceJson("push", 3, 8, [null |-> TRUE])),
   EventAt(1, SourceJson("push", 3, 1, [null |-> TRUE])),
   EventAt(1, [event |-> Word("push"), id |-> Hex(1), zone |-> Hex(1)]),
   EventAt(1, [event |-> Word("pop"), id |-> Hex(1)]), EventAt(1, [event |-> Word("pop")]),
   EventAt(2, [event |-> Word("advance")])}

RenderRequests ==
  {ResetTo("render", [budget |-> Num(1), led_count |-> Num(3)]),
   ResetTo("render", [none |-> Num(0)]),
   EventAt(0, SourceJson("bind", 1, 0, [null |-> TRUE])),
   EventAt(1, SourceJson("bind", 1, 2, Num(2))),
   EventAt(1, SourceJson("bind", 2, 1, Num(2))),
   EventAt(0, SourceJson("bind", 2, 1, Num(3))),
   EventAt(0, SourceJson("bind", 2, 2, [null |-> TRUE])),
   EventAt(1, [event |-> Word("bind"), id |-> Hex(3), zone |-> Hex(1), scene |-> Hex(1), priority |-> Num(0)]),
   EventAt(1, [event |-> Word("bind"), id |-> Hex(3), program |-> Word("xyz")]),
   EventAt(1, [event |-> Word("frame")]), EventAt(2, [event |-> Word("frame")])}

(* One vector for each machine, and for zones and keepers one for each     *)
(* device and table.                                                       *)
Resets(requests) == {r \in requests : r.verb = "reset"}

Each(requests) == {{r} \cup (requests \ Resets(requests)) : r \in Resets(requests)}

Suites ==
  {Odd \cup Nodes, ChannelRequests, RecordRequests, Odd \cup SourceRequests, RenderRequests}
    \cup Each(GatewayRequests) \cup Each(ZoneRequests) \cup Each(KeeperRequests)
=============================================================================
