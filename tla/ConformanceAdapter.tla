------------------------- MODULE ConformanceAdapter -------------------------
(***************************************************************************)
(* The conformance adapter (adapters/conformance/src/main.rs): it reads a  *)
(* request a line, does to a machine what the request says and answers,    *)
(* and the runner at the other end waits for each answer.                  *)
(*                                                                         *)
(* JSON is a record with one field, named for what it is: [number |-> n],  *)
(* [text |-> s], [hex |-> h] for a text that decodes to the bytes h,       *)
(* [flag |-> b], [list |-> seq], [object |-> record].  A builder yields a  *)
(* set, empty where the code gives up on the request.                      *)
(*                                                                         *)
(* The pure machines and the stack of sources are those of their modules;  *)
(* of a node, a channel and a store of records, which have models of their *)
(* own, only what they are fed is kept.                                    *)
(***************************************************************************)
EXTENDS ZoneGeometry, Keepers, StackCalls

CONSTANTS
  Suite,            \* vectors: sets of requests [verb, body], asked in any order
  Nothing,          \* it waits for none
  Prefix, Key, Signature,  \* bytes of the length each of these has
  EmptyBytes,       \* no bytes at all
  StripDevice,      \* the uuid of the device a render vector runs on
  Projection,       \* the projections a zone may have
  Parses,           \* the bytes that are a program
  RecordKinds,      \* the numbers of the kinds of records
  U8, U16, U32,     \* one more than the largest number of each width
  MaxGatewayPriority, DefaultLease, PixelMax, NoPriority,  \* as in Gateway
  Events            \* bound: how many events a vector has

VARIABLES
  machine,   \* what the current vector asked for; its stack is that of StackCalls
  stdin,     \* lines sent and not read
  stdout,    \* answers written and not read
  vector,    \* what the runner runs
  asked,     \* the request the runner waits for
  events     \* events since the last reset (bound)

pipes == <<stdin, stdout, vector, asked>>
vars == <<machine, stackVars, pipes, events>>

INSTANCE Gateway

(* Sources are named by uuids, as are devices, peers and zones. *)
Uuid == Id

Comment == [comment |-> TRUE]

(* A request is not a comment, and pixels are counted in sixteen bits. *)
ASSUME AdapterAssumption ==
  /\ U8 \in Nat \ {0} /\ U16 \in Nat \ {0} /\ U32 \in Nat \ {0}
  /\ PixelMax = U16 - 1 /\ NoPriority \notin Nat
  /\ AmbientFloorMax \in Nat /\ MaxGatewayPriority \in Nat
  /\ Uuid \subseteq Int
  /\ \A requests \in Suite : Nothing \notin requests /\ Comment \notin requests

(* A grid is counted in sixteen bits, of which One has one more. *)
ASSUME ProjectionAssumption ==
  \A pr \in Projection :
    /\ pr.type \in {"strip", "grid", "axis", "radial", "angle"}
    /\ pr.type = "grid" => pr.width \in 0..(One + 1) /\ pr.height \in 0..(One + 1)
    /\ pr.type = "axis" => pr.vector \in [1..3 -> Int]
    /\ pr.type = "radial" => pr.point \in [1..3 -> Int]

-----------------------------------------------------------------------------
(* Reading JSON.                                                           *)

At(j, key) ==
  IF "object" \in DOMAIN j /\ key \in DOMAIN j.object THEN {j.object[key]} ELSE {}

Typed(type, j, key) == {v[type] : v \in {w \in At(j, key) : type \in DOMAIN w}}

Only(S, default) == IF S = {} THEN default ELSE CHOOSE v \in S : TRUE

WordAt(j, key) == Typed("text", j, key)
HexAt(j, key) == Typed("hex", j, key)
NumberAt(j, key) == Typed("number", j, key) \cap Nat
NumberOr(j, key, default) == Only(NumberAt(j, key), default)
FlagAt(j, key) == Typed("flag", j, key) \cap BOOLEAN
ListAt(j, key) == {l \in Typed("list", j, key) : Len(l) \in Nat /\ DOMAIN l = 1..Len(l)}
UuidAt(j, key) == HexAt(j, key) \cap Uuid

(* A field that may be missing, and must be hex where it is there. *)
BytesAt(j, key) == IF HexAt(j, key) \cup WordAt(j, key) = {} THEN {EmptyBytes} ELSE HexAt(j, key)

(* `as i32' keeps the low bits; what is not a whole number is 0. *)
Q16From(v) ==
  IF "number" \in DOMAIN v /\ v.number \in Int THEN ((v.number + U32 \div 2) % U32) - (U32 \div 2) ELSE 0
Q16At(j, key) == Only({Q16From(v) : v \in At(j, key)}, 0)

TripleAt(j, key) ==
  LET l == Only(ListAt(j, key), <<>>)
  IN  [k \in 1..3 |-> IF k <= Len(l) THEN Q16From(l[k]) ELSE 0]

(* All of a list, or nothing. *)
AllBuilt(built) ==
  IF \A i \in DOMAIN built : built[i] # {}
  THEN {[i \in DOMAIN built |-> Only(built[i], {})]} ELSE {}

-----------------------------------------------------------------------------
(* Machines of a reset.                                                    *)

BuildNode(j) ==
  {[kind |-> "node", fed |-> <<>>,
    made |-> [uuid |-> f.uuid, mesh |-> f.mesh, capacity |-> f.capacity % U32,
              boot |-> NumberOr(j, "boot_counter", 1) % U32, now |-> NumberOr(j, "now_us", 0)]] :
   f \in [uuid : UuidAt(j, "uuid"), mesh : UuidAt(j, "mesh_id"), capacity : NumberAt(j, "capacity")]}

(* SourceStack::new: however little a device says it can carry, it has     *)
(* room for two sources.                                                   *)
RoomFor(count) == IF count < 2 THEN 2 ELSE count

BuildSources(j) ==
  {[kind |-> "sources", room |-> [budget |-> NumberOr(j, "budget", 0) % U32,
                                  max |-> RoomFor(NumberOr(j, "max_concurrent", 0))]]}

BuildChannel(j) ==
  {[kind |-> "channel", fed |-> <<>>,
    made |-> [id |-> NumberOr(j, "channel_id", 0) % U16, hold |-> NumberOr(j, "hold_ms", 0) % U32,
              default |-> Q16At(j, "default")]]}

Protocols == {"artnet", "e131", "ddp", "mqtt", "http"}

(* What is wrong with a binding is said when it is used. *)
BuildBinding(j) ==
  {[kind |-> "gateway",
    binding |-> [id |-> f.id, ceiling |-> f.ceiling % U8,
                 pixels |-> <<NumberOr(j, "pixel_from", 0) % U16, NumberOr(j, "pixel_to", 0) % U16>>]] :
   f \in [id : UuidAt(j, "id"), zone : UuidAt(j, "zone"), ceiling : NumberAt(j, "priority_ceiling"),
          protocol : WordAt(j, "protocol") \cap Protocols]}

(* What the predicates inside of a predicate are read from. *)
InnerOf(j) == At(j, "of") \cup UNION {Range(l) : l \in ListAt(j, "of")}

BuildPredicate(json) ==
  LET built[j \in Nested(json, InnerOf)] ==
        LET word == WordAt(j, "predicate")
            parts(l) == AllBuilt([i \in DOMAIN l |-> built[l[i]]])
        IN  CASE word = {"compare"} ->
                   {[type |-> "compare", axis |-> a, op |-> o, value |-> Q16At(j, "value")] :
                    a \in WordAt(j, "axis") \cap {"x", "y", "z"},
                    o \in WordAt(j, "op") \cap {"lt", "le", "gt", "ge"}}
              [] word = {"near"} ->
                   {[type |-> "near", point |-> TripleAt(j, "point"), radius |-> Q16At(j, "radius")]}
              [] word = {"not"} ->
                   UNION {{[type |-> "not", part |-> p] : p \in built[v]} : v \in At(j, "of")}
              [] word \in {{"all"}, {"any"}} ->
                   UNION {{[type |-> Only(word, ""), of |-> ps] : ps \in parts(l)} : l \in ListAt(j, "of")}
              [] OTHER -> {}
  IN  built[json]

LedNumber(l, i) ==
  IF i <= Len(l) /\ "number" \in DOMAIN l[i] /\ l[i].number >= 0 THEN l[i].number % U16 ELSE 0

BuildClause(j) ==
  CASE WordAt(j, "clause") = {"device"} ->
         {[type |-> "device", device |-> d,
           leds |-> Only({<<LedNumber(l, 1), LedNumber(l, 2)>> : l \in ListAt(j, "leds")}, <<>>)] :
          d \in UuidAt(j, "device")}
    [] WordAt(j, "clause") = {"where"} ->
         {[type |-> "where", test |-> p] : p \in BuildPredicate(j)}
    [] OTHER -> {}

BuildZone(j) ==
  LET clauses(key) ==
        LET l == Only(ListAt(j, key), <<>>) IN AllBuilt([i \in DOMAIN l |-> BuildClause(l[i])])
  IN  {[include |-> in, exclude |-> ex] :
       in \in IF UuidAt(j, "id") = {} THEN {} ELSE clauses("include"), ex \in clauses("exclude")}

BuildDevice(j) ==
  {[device |-> d, quality |-> q,
    leds |-> [i \in DOMAIN l |-> [index |-> NumberOr(l[i], "index", 0) % U16,
                                  world |-> TripleAt(l[i], "world")]]] :
   d \in UuidAt(j, "device"), q \in WordAt(j, "quality") \cap {"synthetic", "rough", "mapped"},
   l \in ListAt(j, "leds")}

BuildZoneState(j) ==
  {[kind |-> "zone", zone |-> f.zone, dev |-> f.dev] :
   f \in [zone : UNION {BuildZone(v) : v \in At(j, "zone")},
          dev : UNION {BuildDevice(v) : v \in At(j, "device")}]}

(* Controllers and devices with their keys; one that is not readable fails *)
(* them all.                                                               *)
BuildAuthority(j) ==
  LET pairs(key) ==
        LET l == Only(ListAt(j, key), <<>>)
        IN  AllBuilt([i \in DOMAIN l |-> UuidAt(l[i], "id") \X (HexAt(l[i], "key") \cap Key)])
  IN  {[kind |-> "records", fed |-> <<>>, made |-> f] :
       f \in [controllers : pairs("controllers"), devices : pairs("devices")]}

(* A peer is eligible unless the vector says otherwise. *)
BuildKeepers(j) ==
  LET peers == Only(ListAt(j, "peers"), <<>>)
      claim(p) == {[uuid |-> u, flash |-> NumberOr(p, "flash_kib", 0) % U32,
                    capacity |-> NumberOr(p, "capacity", 0) % U32,
                    eligible |-> Only(FlagAt(p, "eligible"), TRUE)] :
                   u \in UuidAt(p, "uuid")}
  IN  {[kind |-> "keepers", claims |-> cs] : cs \in AllBuilt([i \in DOMAIN peers |-> claim(peers[i])])}

StripOf(count) ==
  [device |-> StripDevice, quality |-> "rough",
   leds |-> [i \in 1..count |-> [index |-> i - 1, world |-> <<(i - 1) * One, 0, 0>>]]]

BuildRender(j) ==
  {[kind |-> "render", bound |-> <<>>, leds |-> StripOf(NumberOr(j, "led_count", 4) % U16),
    room |-> [budget |-> NumberOr(j, "budget", U32 - 1) % U32,
              max |-> RoomFor(NumberOr(j, "max_concurrent", 8))]]}

BuildMachine(name, j) ==
  CASE name = "node" -> BuildNode(j)
    [] name = "sources" -> BuildSources(j)
    [] name = "channel" -> BuildChannel(j)
    [] name = "gateway" -> BuildBinding(j)
    [] name = "zone" -> BuildZoneState(j)
    [] name = "records" -> BuildAuthority(j)
    [] name = "keepers" -> BuildKeepers(j)
    [] name = "render" -> BuildRender(j)
    [] OTHER -> {}

-----------------------------------------------------------------------------
(* Answers.  A refusal by a machine is an answer like any other; an error  *)
(* says that the request could not be put to it.                           *)

Answer(a) == stdout' = Append(stdout, [to |-> Head(stdin), answer |-> a])

Ok(actions) == Answer([ok |-> actions])

Fails ==
  /\ Answer([error |-> TRUE])
  /\ UNCHANGED <<machine, stackVars, events>>

Counted == events' = events + 1

(* A machine that is a pure function answers and stays. *)
Tells(actions) == Ok(actions) /\ Counted /\ UNCHANGED <<machine, stackVars>>

(* A machine with a model of its own takes what it is fed. *)
Feed(call) ==
  /\ machine' = [machine EXCEPT !.fed = Append(@, call)]
  /\ Ok(<<>>)
  /\ Counted
  /\ UNCHANGED stackVars

FeedOrFail(built) == IF built = {} THEN Fails ELSE \E call \in built : Feed(call)

-----------------------------------------------------------------------------
(* Events, one operator for each machine.                                  *)

NodeEvent(at, kind, ev) ==
  FeedOrFail(
    CASE kind = "tick" -> {[at |-> at, tick |-> TRUE]}
      [] kind = "datagram" -> {[at |-> at, datagram |-> b] : b \in HexAt(ev, "bytes")}
      [] kind = "peer_discovered" -> {[at |-> at, found |-> p] : p \in HexAt(ev, "prefix") \cap Prefix}
      [] kind = "peer_lost" -> {[at |-> at, lost |-> p] : p \in HexAt(ev, "prefix") \cap Prefix}
      [] OTHER -> {})

ChannelEvent(at, kind, ev) ==
  LET producers == HexAt(ev, "producer") \cap Prefix
  IN  FeedOrFail(
        CASE kind = "claim" ->
               {[at |-> at, claim |-> p, priority |-> NumberOr(ev, "priority", 0) % U8,
                 lease |-> NumberOr(ev, "lease_ms", 0) % U32] : p \in producers}
          [] kind = "release" -> {[release |-> p] : p \in producers}
          [] kind = "publish" ->
               {[at |-> at, publish |-> p, seq |-> NumberOr(ev, "seq", 0) % U16,
                 value |-> Q16At(ev, "value")] : p \in producers}
          [] kind = "advance" -> {[at |-> at, advance |-> TRUE]}
          [] kind = "read" -> {[at |-> at, read |-> TRUE]}
          [] OTHER -> {})

BuildRecord(j) ==
  {[id |-> u, kind |-> NumberOr(j, "kind", 255) % U8, hlc |-> NumberOr(j, "hlc", 0),
    author |-> a, body |-> b, signature |-> s] :
   u \in IF NumberOr(j, "kind", 255) % U8 \in RecordKinds THEN UuidAt(j, "id") ELSE {},
   a \in UuidAt(j, "author"), b \in BytesAt(j, "body"), s \in HexAt(j, "signature") \cap Signature}

(* An entry of a digest that is not readable is passed over. *)
DigestFrom(ev) ==
  LET l == Only(ListAt(ev, "theirs"), <<>>)
      entry(j) == {[id |-> u, hlc |-> n] : u \in UuidAt(j, "id"), n \in NumberAt(j, "hlc")}
  IN  FoldLeft(LAMBDA acc, j : acc \o SetToSeq(entry(j)), <<>>, l)

(* A record that is taken changes the store; the others only ask. *)
RecordsEvent(kind, ev) ==
  FeedOrFail(
    CASE kind = "accept" ->
           {[wall |-> NumberOr(ev, "wall_ms", 0), accept |-> r] :
            r \in UNION {BuildRecord(j) : j \in At(ev, "record")}}
      [] kind = "digest" -> {[digest |-> TRUE]}
      [] kind = "wanted" -> {[wanted |-> DigestFrom(ev)]}
      [] kind = "reconcile" -> {[reconcile |-> DigestFrom(ev)]}
      [] OTHER -> {})

ZoneEvent(kind) ==
  CASE kind = "resolve" -> Tells(<<[selected |-> ResolveZone(machine.zone, machine.dev).leds]>>)
    [] kind = "why_excluded" -> Tells(<<[excluded |-> WhyExcluded(machine.zone, machine.dev)]>>)
    [] OTHER -> Fails

(* Both questions leave the table ranked. *)
Ranks(actions) ==
  /\ machine' = [machine EXCEPT !.claims = SortedClaims(@)]
  /\ Ok(actions)
  /\ Counted
  /\ UNCHANGED stackVars

KeepersEvent(kind, ev) ==
  \/ /\ kind = "select"
     /\ LET chosen == SelectKeepers(machine.claims)
        IN  Ranks(<<[keepers |-> [i \in DOMAIN chosen |-> chosen[i].uuid],
                     quorum |-> QuorumOf(Len(chosen))]>>)
  \/ /\ kind = "is_keeper"
     /\ \E u \in UuidAt(ev, "uuid") : Ranks(<<[keeper |-> IsKeeper(machine.claims, u)]>>)
  \/ /\ \/ kind \notin {"select", "is_keeper"}
        \/ kind = "is_keeper" /\ UuidAt(ev, "uuid") = {}
     /\ Fails

(* No priority is not the same as priority zero. *)
IngressFrom(ev) ==
  [offset |-> NumberOr(ev, "offset", 0) % U16, count |-> NumberOr(ev, "count", 0) % U16,
   priority |-> Only({n % U8 : n \in NumberAt(ev, "priority")}, NoPriority)]

Judged(at, i) ==
  IF Refused(machine.binding, i) = "none"
  THEN [admitted |-> AdmitIngress(machine.binding, i, at)]
  ELSE [refused |-> Refused(machine.binding, i)]

GatewayEvent(at, kind, ev) ==
  CASE kind = "ingress" /\ UuidAt(ev, "source_id") # {} -> Tells(<<Judged(at, IngressFrom(ev))>>)
    [] kind = "program" -> Tells(<<[accepted |-> FALSE]>>)
    [] kind = "ceiling" -> Tells(<<[highest |-> MaxGatewayPriority]>>)
    [] OTHER -> Fails

(* A source has been pushed when the step says; null is no expiry. *)
BuildSource(ev, at) ==
  {[id |-> f.id, pushedAt |-> at, expires |-> NumberOr(ev, "expires_at_us", Never),
    kind |-> [priority |-> f.priority % U8, cost |-> NumberOr(ev, "cost", 0) % U32,
              fadeIn |-> NumberOr(ev, "fade_in_ms", 0) % U16,
              fadeOut |-> NumberOr(ev, "fade_out_ms", 0) % U16]] :
   f \in [id : UuidAt(ev, "id"), zone : UuidAt(ev, "zone"), scene : UuidAt(ev, "scene"),
          priority : NumberAt(ev, "priority")]}

(* A call on the stack, at the time a step states. *)
Pushed(at, s) ==
  IF Acceptable(machine.room, at, s)
  THEN Push(machine.room, at, s) /\ Ok(<<>>)
  ELSE UNCHANGED stackVars /\ Ok(<<[refused |-> s.id]>>)

Popped(at, id) ==
  IF id \in {s.id : s \in active}
  THEN Pop(machine.room, at, id) /\ Ok(<<>>)
  ELSE UNCHANGED stackVars /\ Ok(<<[refused |-> id]>>)

Advanced(at) == Advance(machine.room, at) /\ Ok(<<>>)

SourcesEvent(at, kind, ev) ==
  \/ /\ kind = "push"
     /\ \E s \in BuildSource(ev, at) : Pushed(at, s)
     /\ Counted /\ UNCHANGED machine
  \/ /\ kind = "pop"
     /\ \E id \in UuidAt(ev, "id") : Popped(at, id)
     /\ Counted /\ UNCHANGED machine
  \/ kind = "advance" /\ Advanced(at) /\ Counted /\ UNCHANGED machine
  \/ /\ \/ kind \notin {"push", "pop", "advance"}
        \/ kind = "push" /\ BuildSource(ev, at) = {}
        \/ kind = "pop" /\ UuidAt(ev, "id") = {}
     /\ Fails

-----------------------------------------------------------------------------
(* A render vector: programs are bound to sources and frames painted.      *)

(* Zone::resolve of a run of the strip. *)
StripZone(ev) ==
  [include : {<<[type |-> "device", device |-> StripDevice,
                 leds |-> <<NumberOr(ev, "led_from", 0) % U16,
                            NumberOr(ev, "led_to", Len(machine.leds.leds)) % U16>>]>>},
   exclude : {<<>>}]

RunOf(ev) == {ResolveZone(zone, machine.leds).leds : zone \in StripZone(ev)}

BoundOf(ev, at) ==
  [source : BuildSource(ev, at), program : BytesAt(ev, "program"), leds : RunOf(ev)]

(* Variant: what is bound to a source stays bound to it. *)
BindToFirst(b) ==
  machine' = IF \E i \in DOMAIN machine.bound : machine.bound[i].source.id = b.source.id
             THEN machine ELSE [machine EXCEPT !.bound = Append(@, b)]

(* What is bound stays, whether the stack took the source or not. *)
Bind(b) == machine' = [machine EXCEPT !.bound = Append(@, b)]

(* The entries of `bound' that a frame paints, in that order: those of the *)
(* admitted sources from the bottom up, then for each source that fades    *)
(* its first.  Not every one of them has an LED or shows yet.              *)
Painted(at) ==
  LET bound == machine.bound
      below(i, j) == \/ bound[i].source.kind.priority < bound[j].source.kind.priority
                     \/ /\ bound[i].source.kind.priority = bound[j].source.kind.priority
                        /\ \/ bound[i].source.pushedAt < bound[j].source.pushedAt
                           \/ bound[i].source.pushedAt = bound[j].source.pushedAt /\ i < j
      shows(i) == /\ bound[i].source.id \in admitted
                  /\ bound[i].source.kind.fadeIn = 0 \/ at > bound[i].source.pushedAt
                  /\ bound[i].leds # <<>>
      first(f) == {i \in DOMAIN bound : /\ bound[i].source.id = f.source.id
                                        /\ \A j \in 1..(i - 1) : bound[j].source.id # f.source.id}
      fades(k) == /\ at - fading[k].since < fading[k].source.kind.fadeOut
                  /\ \E i \in first(fading[k]) : bound[i].leds # <<>>
      leaving == InOrder({k \in DOMAIN fading : fades(k)}, <)
  IN  InOrder({i \in DOMAIN bound : shows(i)}, below)
        \o [k \in DOMAIN leaving |-> CHOOSE i \in first(fading[leaving[k]]) : TRUE]

RenderEvent(at, kind, ev) ==
  \/ /\ kind = "bind"
     /\ \E b \in BoundOf(ev, at) : Pushed(at, b.source) /\ Bind(b)
     /\ Counted
  \/ /\ kind = "frame"
     /\ \A i \in DOMAIN machine.bound : machine.bound[i].program \in Parses
     /\ Tells(<<[painted |-> Painted(at)]>>)
  \/ kind = "advance" /\ Advanced(at) /\ Counted /\ UNCHANGED machine
  \/ /\ \/ kind \notin {"bind", "frame", "advance"}
        \/ kind = "bind" /\ BoundOf(ev, at) = {}
        \/ kind = "frame" /\ \E i \in DOMAIN machine.bound : machine.bound[i].program \notin Parses
     /\ Fails

-----------------------------------------------------------------------------
(* Requests.                                                               *)

Made(body) ==
  UNION {BuildMachine(f.machine, f.state) :
           f \in [machine : WordAt(body, "machine"), state : At(body, "state")]}

(* Variant: the old machine goes before the new one is made. *)
ResetEarly(body) ==
  /\ IF Made(body) = {}
     THEN machine' = [kind |-> "none"] /\ Answer([error |-> TRUE])
     ELSE machine' \in Made(body) /\ Ok(<<>>)
  /\ Cleared
  /\ events' = 0

(* A reset that cannot be read leaves the machine as it is. *)
Reset(body) ==
  IF Made(body) = {} THEN Fails
  ELSE machine' \in Made(body) /\ Cleared /\ Ok(<<>>) /\ events' = 0

Event(body) ==
  LET at == NumberOr(body, "at_us", 0)
      ev == Only(At(body, "event"), [number |-> 0])
      kind == Only(WordAt(ev, "event"), "")
  IN  IF WordAt(ev, "event") = {} \/ machine.kind = "none" THEN Fails
      ELSE
        CASE machine.kind = "node" -> NodeEvent(at, kind, ev)
        [] machine.kind = "sources" -> SourcesEvent(at, kind, ev)
        [] machine.kind = "channel" -> ChannelEvent(at, kind, ev)
        [] machine.kind = "gateway" -> GatewayEvent(at, kind, ev)
        [] machine.kind = "zone" -> ZoneEvent(kind)
        [] machine.kind = "records" -> RecordsEvent(kind, ev)
        [] machine.kind = "render" -> RenderEvent(at, kind, ev)
        [] machine.kind = "keepers" -> KeepersEvent(kind, ev)

(* The body is looked at before the verb. *)
Respond(r) ==
  IF "garbage" \in DOMAIN r.body THEN Fails
  ELSE CASE r.verb = "hello" -> Ok(<<>>) /\ UNCHANGED <<machine, stackVars, events>>
         [] r.verb = "reset" -> Reset(r.body)
         [] r.verb = "event" -> Event(r.body)
         [] OTHER -> Fails

-----------------------------------------------------------------------------
(* The two ends of the pipes.                                              *)

AdapterInit ==
  /\ machine = [kind |-> "none"]
  /\ EmptyStack
  /\ stdin = <<>> /\ stdout = <<>> /\ asked = Nothing
  /\ vector \in Suite
  /\ events = 0

(* The runner asks one thing at a time, now and then with a line of its    *)
(* log before it.                                                          *)
Ask ==
  /\ asked = Nothing
  /\ \E r \in vector, log \in {<<>>, <<Comment>>} :
       /\ r.verb = "event" => events < Events
       /\ asked' = r
       /\ stdin' = stdin \o log \o <<r>>
  /\ UNCHANGED <<machine, stackVars, stdout, vector, events>>

(* Variant: a line of the log is answered as an error. *)
SkipAnswers ==
  /\ stdin # <<>> /\ Head(stdin) = Comment
  /\ stdin' = Tail(stdin)
  /\ Fails
  /\ UNCHANGED <<vector, asked>>

(* main: comments and blank lines are passed over. *)
Skip ==
  /\ stdin # <<>> /\ Head(stdin) = Comment
  /\ stdin' = Tail(stdin)
  /\ UNCHANGED <<machine, stackVars, stdout, vector, asked, events>>

(* main: every other line is answered, and the answer flushed. *)
Reply ==
  /\ stdin # <<>> /\ Head(stdin) # Comment
  /\ stdin' = Tail(stdin)
  /\ Respond(Head(stdin))
  /\ UNCHANGED <<vector, asked>>

(* The runner takes the first answer there is for the one it waits for. *)
Take ==
  /\ stdout # <<>> /\ asked # Nothing
  /\ stdout' = Tail(stdout)
  /\ asked' = Nothing
  /\ UNCHANGED <<machine, stackVars, stdin, vector, events>>

AdapterNext == Ask \/ Skip \/ Reply \/ Take

AdapterSpec ==
  /\ AdapterInit /\ [][AdapterNext]_vars
  /\ WF_vars(Skip) /\ WF_vars(Reply) /\ WF_vars(Take)

-----------------------------------------------------------------------------
(* What the runner reads is the answer to what it asked, and an answer     *)
(* comes: a log line in between does not put the two out of step, and      *)
(* neither waits for the other (main.rs: a buffered answer is a deadlock). *)
EveryRequestAnswered ==
  /\ [](stdout # <<>> => Head(stdout).to = asked)
  /\ asked # Nothing ~> stdout # <<>>

(* A vector whose step could not be put to the machine goes on with the    *)
(* machine it had, however far the reading of the step had come.           *)
ErrorsChangeNothing ==
  [][stdout' # <<>> /\ stdout = <<>> /\ "error" \in DOMAIN Head(stdout').answer
       => UNCHANGED <<machine, stackVars>>]_vars

PaintedNow ==
  IF stdout # <<>> /\ "ok" \in DOMAIN Head(stdout).answer
  THEN {Head(stdout).answer.ok[i].painted :
          i \in {k \in DOMAIN Head(stdout).answer.ok : "painted" \in DOMAIN Head(stdout).answer.ok[k]}}
  ELSE {}

(* The stack and the list of programs are kept apart, and a frame puts     *)
(* them together: after any binds, rebinds, refusals and lapses it paints  *)
(* each admitted source, as it is on the stack now, with a program bound   *)
(* to it as such, and nothing that is neither admitted nor fading.         *)
FramePaintsStack ==
  \A order \in PaintedNow :
    /\ \A s \in active :
         /\ \E i \in DOMAIN machine.bound : machine.bound[i].source = s
         /\ s.id \in admitted /\ s.kind.fadeIn = 0 =>
              \A i \in DOMAIN machine.bound :
                machine.bound[i].source = s /\ machine.bound[i].leds # <<>>
                  => \E k \in DOMAIN order : order[k] = i
    /\ \A k \in DOMAIN order :
         machine.bound[order[k]].source.id
           \in admitted \cup {fading[f].source.id : f \in DOMAIN fading}

(* Whatever a frame of a console addresses, of its pixels exactly those    *)
(* that the binding covers are granted and all others counted as clipped.  *)
(* It gets the priority it asked for, unless that is above the ceiling of  *)
(* the binding: then it gets no more than the ceiling, and that is told.   *)
GatewayKeepsInside ==
  machine.kind = "gateway" =>
    \A i \in [offset : 0..PixelMax, count : 0..PixelMax, priority : (0..U8 - 1) \cup {NoPriority}] :
      LET b == machine.binding
          a == AdmitIngress(b, i, 0)
          wanted == {p \in i.offset..(i.offset + i.count - 1) : Covers(b, p)}
      IN  IF Refused(b, i) = "none"
          THEN /\ wanted = a.pixels[1]..(a.pixels[2] - 1)
               /\ a.clipped = i.count - Cardinality(wanted)
               /\ a.priority <= b.ceiling /\ a.priority <= MaxGatewayPriority
               /\ a.clamped <=> AskedPriority(i) > b.ceiling
               /\ ~a.clamped => a.priority = AskedPriority(i)
          ELSE BindingFault(b) = "none" => wanted = {}

(* Devices choose the same keepers from the same claims, in whatever order *)
(* each lists its peers, and with them every device that asks about itself *)
(* (no message is exchanged); and a peer that comes or goes changes no     *)
(* more than one of the others.                                            *)
KeepersAgree ==
  machine.kind = "keepers" =>
    LET S == {machine.claims[i] : i \in DOMAIN machine.claims}
        alike == Cardinality({c.uuid : c \in S}) = Len(machine.claims)
    IN  alike => /\ {SelectKeepers(machine.claims)[i] :
                       i \in 1..KeeperCount(machine.claims)} = Chosen(S)
                 /\ \A c \in S : IsKeeper(machine.claims, c.uuid) <=> c \in Chosen(S)
                 /\ \A c \in S :
                      Cardinality((Chosen(S \ {c}) \ Chosen(S))) <= 1

(* How far along its zone an LED is, by each projection that has an order. *)
Reach(pr, world, ordinal) ==
  CASE pr.type = "axis" -> Dot(world, pr.vector)
    [] pr.type = "radial" -> Distance(world, pr.point)
    [] OTHER -> ordinal

(* No order is promised around an axis, nor along one that rises in one    *)
(* coordinate and falls in another: its ends are not at those corners of   *)
(* the box that it is measured by.                                         *)
Ordering(pr) ==
  /\ pr.type # "angle"
  /\ pr.type = "axis" =>
       (\A k \in 1..3 : pr.vector[k] >= 0) \/ (\A k \in 1..3 : pr.vector[k] <= 0)

(* A projection keeps the order of the LEDs, and puts at 1 only the ones   *)
(* that nothing lies beyond; along the strip the last is exactly there,    *)
(* and in a grid no two LEDs that fit share a cell.                        *)
PlacedWithin(members, bounds) ==
  LET n == Len(members)
      u(pr, i) == Projected(pr, members[i].world, bounds, i - 1)
      far(pr, i) == Reach(pr, members[i].world, i - 1)
  IN  \A pr \in Projection :
        /\ \A i, j \in 1..n :
             /\ u(pr, i).u \in 0..One
             /\ Ordering(pr) /\ far(pr, i) < far(pr, j)
                  => u(pr, i).u <= u(pr, j).u /\ u(pr, i).u < One
             /\ pr.type = "grid" /\ i # j /\ n <= pr.width * pr.height
                  => u(pr, i).uv # u(pr, j).uv
        /\ pr.type = "strip" /\ n > 1 => u(pr, n).u = One

PlacedInOrder ==
  machine.kind = "zone" =>
    LET members == MembersOf(machine.zone, machine.dev)
    IN  PlacedWithin(members, BoundsOf(members))
=============================================================================
