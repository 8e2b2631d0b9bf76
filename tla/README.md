# Lumen device: a TLA+ verification project

Lumen devices are LED controllers that form a mesh without a server. One device
is elected as the timebase, the others synchronise their clocks to it, and all of
them render the same show from replicated records, stacks of sources and shared
channels. The crate `lumen-device` is the device without its hardware, written as
state machines that take an event and a time and return actions; `lumen-sim` runs
many of them on a simulated network.

This directory holds TLA+ modules translated from that code, TLC configurations
that check them on small instances, and proofs of some of the properties for
every instance. `D/` below is `src/crates/lumen-device/src/`, `S/` is
`src/crates/lumen-sim/src/`, `A/` is `src/adapters/conformance/src/`.

To check one configuration: `tlc -config stack_frames.cfg MCSourceStack.tla`.
To check the proofs of one module: `tlapm StackProofs.tla`.

## 1. The system

| Component | Code | State | Operations | Modelled in |
|---|---|---|---|---|
| Timebase election | `D/election.rs` | role, epoch, the moments of the last tick heard and sent, count of better ticks, best candidacy heard | `on_tick`, `on_timer`, `next_deadline_us` | Election, ElectionMesh |
| Time synchronisation | `D/sync.rs` | trust in the clock, burst of samples, smallest round trip, last tick, last probe | `on_tick`, `on_sample`, `on_timer`, `next_deadline_us` | Sync (in part) |
| Node | `D/node.rs` | the two above, whom to probe, the outstanding probe | `on_timer`, `on_datagram` (tick, request, response) | NodeMesh |
| Datagram fabric | `S/net.rs` | what is on the air, partitions, power | `send_to`, `recv`, `partition`, `split`, `heal_all`, `set_powered`, `advance_to` | SimNetwork; its abstraction Fabric |
| World runner | `S/world.rs` | simulated time, a timer per node, a script of faults | `step_to`, `apply`, `settle`, `fire_timers`, `deliver_*` | World (in part) |
| Replicated records | `D/records.rs` | a store and a hybrid logical clock per node, the keys it trusts | `stamp`, `accept`, `digest`, `reconcile`, `wanted`, `collect`, `authorise_controller`, `register_device`, `revoke_controller` | Records |
| Source stack | `D/sources.rs` | active, fading, admitted and rejected sources | `push`, `pop`, `renew`, `advance` | SourceStack |
| Shared channels | `D/channels.rs` | owner with lease and sequence number, value and its age | `claim`, `release`, `publish`, `read`, `advance`, `declare` | Channels (in part) |
| Render shard | `D/render.rs` | per core: a machine per source, a history per source and LED, the last frame's time | `Shard::new`, `render_shard`, `forget`, `merge` | Shards (in part); paint order in SourceStack |
| Zones | `D/zones.rs` | the deadline of a device that settles; what its zones select, and where in it each LED sits | `touch`, `is_due`, `settled`, `resolve`, `excluded_for_mapping`, `bounds`, `project` | Zones, ZoneGeometry (in part) |
| Keepers | `D/keepers.rs` | none: a function of the peer table | `select`, `is_keeper`, the quorum | Keepers |
| Gateway | `D/gateway.rs` | the bindings, one per id | `bind`, `unbind`, `admit` | Gateway, GatewayStack |
| Conformance adapter | `A/main.rs` | the machine of the current vector | a request a line: `reset`, `event`, `decode` | ConformanceAdapter (in part) |
| Scenarios, traces, vectors | `S/scenario.rs`, `S/record.rs`, `S/export.rs` | a script; what a run left | builders, `to_text`, `from_text`, `verify_replay`, `to_behavioural_vector` | Scenarios, Recording, VectorExport (in part) |
| Simulated clock, storage | `S/clock.rs`, `S/storage.rs` | drift and slew; blocks, wear | `advance_to`, `discipline`; `write`, `erase`, `wipe` | SimClock, SimStorage (in part) |
| Simulated strip | `S/led.rs` | frames presented, a digest over them, the recent ones | `present` | Scenarios (in part) |
| Audio analysis | `D/audio/*.rs` | filters | signal arithmetic | no: no control state |
| Random numbers, entropy | `S/rng.rs`, `S/entropy.rs` | a generator | draws | no: a draw is a nondeterministic choice |

How they interact. A node owns an `Election` and a `Sync` and calls both from one
timer and from one datagram handler; its effects are actions that the shell (in
the simulator, the world runner) turns into datagrams and timers. Devices meet
only through the fabric. The records travel over a reliable transport
(`D/lib.rs:103`), channel frames and ticks over a best-effort one. The renderer
reads the stack of sources, the channels and the show clock once per frame; app
calls and frames interleave freely. A gateway turns frames of consoles that have no
credentials into sources of the stack. A run of the simulator is recorded as text, checked
by running it again, and exported as a vector, which a runner puts to an implementation
through the conformance adapter, a question and an answer at a time.

What is hard, and therefore what the properties are about:

* *election*: candidacies that cross, ticks that are late, copied or from a former
  life, splits that heal with two leaders, devices with equal scores;
* *node*: two state machines driven by one timer, a probe that is never answered,
  answers that arrive after the master has gone;
* *records*: late and reordered pushes, clocks that go backwards, nodes that are
  wiped, controllers that are revoked, rounds of gossip that overlap;
* *stack*: pushes, pops, renewals, lapses and frames in any order, and three
  lists that must tell one story to the app and to the renderer;
* *channels*: a sequence number that wraps, producers that crash, hand over,
  or come back, a lease that nobody but a frame enforces;
* *zones*: moves, mapping sessions and edits that touch one deadline in any order,
  a membership that is worked out now and then and used in every frame;
* *shards*: cores that render parts of one frame with histories of their own,
  programs that fault halfway, and a promise that nobody can see the split;
* *gateway*: what a console asks for against what its binding grants, at the ends of the
  16-bit range, and bindings that are lowered while their console keeps sending;
* *keepers*: tables filled in different orders, with ties, that must give one answer;
* *zones, geometry*: boxes without extent and axes of either sign, on which an LED could
  leave the range or two could change places;
* *recordings*: fields that vanish, lines that are lost at the end, defaults that hide it;
* *adapter*: two pipes on which a missing or doubled answer stops everything, errors in the
  middle of a request, a stack and a list of programs that nothing keeps together;
* *simulator*: cores that ask to be woken again at the same instant, devices killed
  with datagrams on the way to them, clocks whose rate is applied jump by jump.

The full list, with a line and the properties for each, is under `hazards` in PROJECT.json.

## 2. Modules

```
Devices ─┬─ Election ─┬─ ElectionMesh ── ElectionProofs
         ├─ Fabric ───┤       ^                ^
         └─ Sync ─────┴─ NodeMesh ──────── NodeProofs   (INSTANCE: refinement)
Records ──┬─ SharedProofs
Channels ─┤
Shards ───┘
Sorted ─┬─ StackCalls ── SourceStack ─┬─ GatewayStack ─┬─ StackProofs
        │                  Gateway ───┘    Zones ──────┤
        │                                FoldTheorems ─┤
        ├─ SimNetwork ─┬─ World ───────────────────────┴─ WorldProofs
        │  SimClock ───┤
        │  SimStorage ─┘
        ├─ Keepers ────┬─ ConformanceAdapter ─┬─ AdapterProofs
        └─ StackCalls ─┤        FoldTheorems ─┘
           Gateway ────┤
        ZoneGeometry ──┘
Sorted ── Scenarios ── Recording ── VectorExport ── RecordingProofs   (with FoldTheorems)
MCElection, MCNode, MCRecords, MCSourceStack (GatewayStack), MCChannels, MCZones, MCShards,
MCWorld, MCAdapter, MCRecording: TLC instances
```

PROJECT.json maps every definition to the lines it models. Definitions marked
*Variant* in their comment are plausible bugs: put in the place of the definition
they vary, they must violate a property (`mutants` in PROJECT.json).
They are part of no specification.

**Time.** The code stores moments and compares their distance to now. The
modules store that distance, an *age*, and stop it at the largest value it is
compared with; one `Elapse` action makes everybody a unit older. SourceStack keeps
the show clock itself, because the expiry of a source is an absolute time. One
unit is one second for the election (a tick interval); the constants of the
configurations keep the proportions that matter (a follower waits three ticks, a
candidate settles for less than that) and shrink the rest: a burst is 2 samples
where the code has more, the resync interval 4 units where it is 30 s.

**Election, ElectionMesh.** One operator for each branch of `on_tick` and
`on_timer`; `ElectionOnTick` and `ElectionOnTimer` are the handlers. ElectionMesh
joins them to Fabric: timers, ticks, power, splits. `Prompt = TRUE` makes a timer
fire and a datagram arrive within the unit they are due in; `FALSE` drops every
assumption about time, so a tick may be arbitrarily old.

**Fabric.** Datagrams are a set: any order of delivery, loss, one extra copy.
Faults are paid from a budget (a bound), repairs are free, and strike only while no more
than `Crowd` devices are on (a bound: after the first, no further device is switched on
beyond it). `Endless` removes both bounds where safety is checked. The power comes back in two ways. A device that is booted
starts over and sets its timer (`StartsOver`); one that is revived by the runner has its
memory but no timer, since `Kill` cleared it and `Revive` sets none (`GoesOn`): it is `asleep`,
no timer of its own fires, until a datagram reaches it, whatever the datagram says, because
every handler ends by setting the timer (node.rs:118). A datagram that is no tick is not in
ElectionMesh, which has `Wake` for it; nothing obliges it to come.

**Sync, NodeMesh.** The offset of a sample is abstracted to *whose clock it was
measured against*, so a correction is characterised by the set of peers whose
answers it was made from (`ref`). NodeMesh models the whole of `on_timer` and
`on_datagram`, with the calls they make in their order: the epoch in a tick is
the one the election has after the handler moved it.

**Records.** A record is its id, clock, author and the key it was signed with;
contents are left out. `HlcTick` and `Observe` are the arithmetic of the hybrid
clock, with its saturation. `Accept` is the whole of `Store::accept`, the clock
included. Records of one push are accepted one by one, so other events fall in
between. Wiping a node empties its store, resets its clock and gives it a new key.

**Sorted.** What a sort leaves: the elements of a finite set, each at the place of the number of
those before it. The code sorts with the comparison of the standard library, which does not say
how; a strict total order leaves it no choice.

**StackCalls, SourceStack.** StackCalls has the state of the stack and its calls, which the adapter
uses too; SourceStack the app and the frames around them. The vector of sources is kept sorted by a total order in the
code, so it is a set here and `Outranks` the order; admission is a fold over
`Ranked`. `readmit`, which every change but a renewal ends with, is part of each
action. The `told` variable is not in the code: it is what an app knows that
does nothing but follow the `Change`s a call reports. A `Removed` with reason
`Superseded` is read as "replaced", not as "gone": the source is still on the
stack, and its next `Admitted` or `Rejected` comes only if its standing changes.
`framed` marks the moment right after `advance`, when the renderer paints. A push may name a
moment still to come, as a scheduled one does (sources.rs:844). What a frame is made of is
`Layers`: the admitted sources, and over them the fades in the order they began. The renderer
has copies of the sources, which the caller binds; here each is bound as it was last pushed, and what a caller
does that binds an id twice is in ConformanceAdapter.

**Channels.** One channel. `sent` counts the frames of each producer without
wrapping; on the air is only the count modulo `SeqSpace`. `Publish` covers a frame
that is on time, late or a copy: any frame at most `Delay` older than the newest
may arrive at any time, any number of times, or never. A frame that
`Channel::publish` refuses changes nothing, hence no action.
`Half` is `u16::MAX / 2` of the code: (SeqSpace - 1) \div 2.

**Zones.** One device and its zones. A predicate is the set of points where it
holds, so `All`, `Any`, `Not`, boxes and spheres need no operators of their own; an
LED is as far from the root as its index says. `Touch` takes the wait of
the cause; `Settled` is the caller that resolves and settles when `is_due` says so
(the calls are the shell's, and it is assumed to make them: a change of place is a
`RootMoved`, and so on). `still` is not in the code: it is how long the
device has not been moved or mapped, for the properties to compare with.

**Shards.** One device whose cores each render a run of the LEDs, and the same
device with one core (`Whole`) beside it, given the same frames; the second is there
to compare with and renders last, which is no loss since they share nothing. The
loop over layers and LEDs in `render_source` is turned inside out: an LED's colour is
the fold of the layers that land on it (`Mixed`), and whether a layer lands (`Lands`)
asks for faults on earlier LEDs *of the same core*, which is what `break` does. A
program is a pure function of the ordinal of the LED (`Place`) and of the history
(`Prev`), so the pair of them stands for the colour it computes, and where it faults is
chosen once for a frame, not once for a core. Histories are counted modulo
`Trail`. `tainted` is not in the code: it remembers, for the properties, which
sources faulted on a pixel. A program that returns no colour, `dt` (every renderer sees
the same times), budgets, LEDs the device does not know and slices that are too
short are left out.

**Gateway, GatewayStack.** `Gateway` is the policy, a function of a binding, a frame and the
time. `GatewayStack` puts it in front of SourceStack: `Bind` and `Unbind` change the bindings
and nothing else, `ConsoleFrame` is `admit` and the push the shell makes of it, and apps go
on as before with ids of their own. `changedAt` is not in the code: it is when the bindings
last changed. The pixels of a frame do not reach the stack and are looked at in
ConformanceAdapter.

**Keepers.** The ranking as a relation, selection as the front of the sorted table.
`Chosen(S)` is what is promised, without an order: the eligible claims with fewer than
`MaxKeepers` above them.

**ZoneGeometry.** Predicates, clauses, bounds and projections on integers that stand
for the raw form of a fixed-point number; products and quotients are cut off as `Q16` does.
The square root is defined by what it returns. The arctangent is replaced by a function that
runs through a quarter turn along the diagonal: it has the order of the angles, not their
values. The limits of the range are left out. A predicate inside of a predicate is worked out by a
recursive function on what is `Nested` in a clause, to the depth `Nesting` (a bound).

**ConformanceAdapter.** The process and the runner at the other end, with the two pipes
between them. A request is JSON as a record with one field named for its type, so that a
missing field and one of another type are told apart; a builder returns a set that is empty where
the code gives up with `?`. Truncating casts are `% 2^w`. Gateway (by `INSTANCE`), keepers, zones and
`StackCalls` are the modules above, called as the code calls them; of a node, a channel and a store
of records only what they are fed is kept, since NodeMesh, Channels and Records are about them.
`Ask` and `Take` are the runner's and not in this repository.

**Scenarios, Recording, VectorExport.** A scenario is built with the builders of the
code and run by `Run`, *one* run of World (a perfect network, a core that does the same
whenever it is woken), enough to tell scenarios apart. A recording is a sequence of lines
and a line a sequence of tokens: a number, a word, a digest, bytes in hex. Writing puts the
fields down in the code's order, and nothing where the code writes nothing; reading takes
tokens from the left, with the code's defaults, and a reader returns a set that is empty
where the code returns a `ParseError`. A run keeps an inbox for each device, read in the order of
the devices when the operations of an instant are over (`Settle`). Loops over lines, fields and the script
are recursive functions. `Lose` cuts the file after any token and
within the last one. FNV-1a is `Digest`, on small numbers.

**World, SimNetwork, SimClock, SimStorage.** The runner is a loop, and `phase` says
where it is: it looks for the next instant (`idle`), applies what the script has for it
(`op` when it stopped there for the script alone, `ops`), and settles it in passes that
read the sockets (`drain`) and then wake whom is due (`fire`), until a pass has nothing
to do or `MaxPasses` is reached. The core is any core: it answers an event with a set of
wake-ups (`asks`). The script is any script of `Ops` operations, and all of those of one
instant come before it is settled. `life` is not in the code: it counts the kills of a
device, so that a datagram to its former life can be told from one to this.
Probabilities are kept as whether a thing may happen at all. `SendTo` and
`Disciplined` are entry points the runner offers to a core but does not yet wire
(world.rs:686); the script uses them here. Fabric is SimNetwork without the moments: the
correspondence is by reading, not by refinement. Traces, reports and strips are in
Scenarios and Recording. Left out: counters, errors for datagrams that are too long, the wall clock, the wear of flash, and the
events a core gets that ask for nothing.

## 3. What the runs show

| Run | Instance | What holds |
|---|---|---|
| election_prompt | 3 devices, prompt, loopback, endless power cycling, 2 scores, epochs to 2 | never two leaders; nobody stands while a leader is powered |
| election_converges | 3 devices, equal scores, one fault of any kind at any time (loss, copy, split, off, reboot, resumption) | every side where somebody is awake ends with one leader, and roles stop changing; the strongest device keeps the role, whatever ticks reach it |
| node_sync | 3 devices switched on at any moments, and one fault of any kind while two of them or fewer are on; loopback, one duration of a round trip, up to 6 datagrams on the air | the mesh of nodes implements the mesh of elections (refinement); after lost probes and answers, dead masters and bursts that mix the answers of two, every follower is corrected by its leader's answers alone, and goes on being so |
| records_gossip | 2 controllers, two wipes, revocations or lost connections, overlapping rounds, clocks that run out | a new edit wins; edits are not lost; the digests come to agree once nobody holds a record another refuses |
| records_ties | 2 controllers, no faults | **violated**: equal clocks do not mean equal records |
| stack_frames | 2 sources of apps of 4 kinds and a console with 3 bindings to choose from, room for 2, budget 3, 4 calls, pushes for now or for later, rebinding at any time | what renders is what the stack promises: nothing that fits is left out, the app is told, nothing overstays or sticks, only fades that have not run their length and ties are painted over the top; no console hides an alert, and a lowered ceiling holds a lease later |
| channel_lease | 2 producers, 2 priorities, 8 sequence numbers, 7 frames each across the wrap | the owner's frames are in order, and heard; only frames freshen; a crashed producer lets go |
| zones_settle | 2 LEDs at 3 places, 2 zones, 5 selectors, a wait of 2 units | membership holds still during a move and follows every change; edits are shown in the end; dark zones are explained rightly |
| shards_agree | 2 cores, 3 LEDs (one core has two), 2 sources that overlap across the cores, 2 layers, at most one fault a frame, any number of frames | the split frame is the whole frame wherever no source that faulted on a pixel is involved, histories included; no source is lost |
| world_runs | 2 devices, any 2 operations within 3 units of time, 2 passes, wake-ups at once or in 2 units, a slow clock or a right one, moved back or forth, a perfect or a bad network, 2 keys of storage | the order of what is read and the silence of the dead; nothing due is left between instants; a correction is never overdone, a jump that earns a unit leaves less of it, and reported time never goes back; every run ends |
| adapter_session | every table of 4 of 5 claims, devices of 1 to 4 LEDs in 3 qualities with 6 zones and 15 projections, bindings with every frame of pixels 0 to 15, stacks and frames; 4 events after a reset, with log lines and malformed requests | every request gets its one answer; an error changes nothing; a frame paints what the stack admits; consoles get the pixels their binding covers and no others, and the priority they ask for up to the ceiling of the binding; keepers do not depend on the order of the table; projections keep the order of the LEDs |
| recording_survives | 7 scenarios with every operation and every kind of trace entry, one comment or blank line, cut after any token or inside the last | what is written is what is read; a file that lost its end is never taken for the run; no two operations look alike in the vector |

**Why the bounds are enough.** Two devices suffice for what two candidacies, or a
probe and its answer, can do to each other; three are needed for a bystander (a
follower between two candidates, a device on the far side of a split), and the
runs about uniqueness and convergence have three. Whose answers a clock was corrected by is
a question only where there are two others to ask, so `node_sync` has three devices too. Losers
come from devices that are switched on at different moments; faults while all three are on make
the state space too large, so `Crowd = 2` keeps them to two, before the third comes or for good. With
one duration of a round trip no sample is too slow, so that `sync.rs` discards one occurs in no
run; the refinement is proved with it (`NodesElect`). In `election_converges` all scores are equal, and the strongest
device is the one with the lowest uuid, which is put to the test after a split; that other scores,
reboots and old ticks change nothing is a theorem (`StrongestLeads`). That the election's safety needs no
timing at all is not checked by a run of its own: it is proved for any number of devices.
With 8 numbers, of which the next 2 count as newer, every comparison of `is_newer` occurs; frames are counted from
5 to 12, so that the numbers wrap while frames are on the way.
The records run has controllers only: that a device speaks for itself alone is in the
model and in the proofs, but a third node, of either kind, makes the liveness run too
large. Two layers are enough for a source that fades in, or out, over itself or another,
and `Trail = 2` tells a step of history that is missing or too many from none; the
proofs need neither bound.
In the runner two operations are what it takes to cut, kill or correct something and undo
it, a chain of wake-ups at one instant reaches `MaxPasses`, and jumps of odd length at half
speed meet the truncation of `Quotient`. With a slew of 2 in 4 a jump of one unit of time earns nothing
and one of two earns a unit, so both kinds occur. `OwedMax = 3` makes a correction saturate.
Three sources are the least for which one is skipped for its cost while a later
one fits; one console is enough, because an id has one binding and one source.
Four claims with two keepers give ties at every place of the ranking, on both sides of the
cut. With `One = 4` every projection is cut off somewhere, and the boxes are flat, empty and
full. Numbers have 3 to 5 bits in the adapter, so that every cast is exceeded. `EpochMax`, `HlcMax` and `TimeMax` are reached in the runs, so the
saturated values are checked too. `MaxInFlight`, `MaxQueue`, `Calls`, `FirstFrame` and
`LastFrame` only cut the state space: a handler whose result would exceed them does not
run. In the two election runs `MaxInFlight` is larger than anything that occurs;
in node_sync it is not, and leaves out states in which more than 6 datagrams wait at once.

**Fairness.** *MeshFairness*: a timer that stays due fires, something on the air
arrives, time passes; the runner does all three in every step. Nobody is obliged
to switch a device on or heal a split, and convergence is claimed for each side
on its own. *NodeFairness* adds strong fairness for a quick answer: `sync.rs`
discards slow samples, and says that "on a busy link most samples are bad and a
few are fine" (sync.rs:197). Without it a device whose every answer is slow never
synchronises, and the code does not claim otherwise. *RecordsFairness*: a message
on a reliable link arrives unless the link breaks (weak), and nodes go on
gossiping (strong, since the bound `MaxQueue` may disable a round again and
again). *ChannelSpec*: `advance` runs every frame and time passes. *ZonesSpec*: the
device wakes when `due_at` says so, and time passes. *WorldSpec*: the runner is a loop in one
thread, so some step of it is taken while there is one (weak fairness of the whole);
a run ends, so world_runs does not look for deadlock; recording_survives stops when a file has been
checked. *AdapterSpec*: the process reads its input and answers, and the runner reads the answers it
waits for (weak); nobody is obliged to ask. SourceStack
has no liveness property: that sources end is said as an invariant of frames later than
every lease (`NothingSticks`).

## 4. Findings

* *Equal clocks* (records_ties). Two controllers that edit one record in the same
  millisecond with the same counter produce the same hybrid clock. Digests carry
  clocks only, so neither pulls, the tie-break by author in `supersedes` is never
  reached, and the stores differ until the next edit. `records.rs:395` says a
  clock is unique to its edit.
Seen while modelling, and not among the runs: a source that has no room, and never showed, fades
out over everything else when it is popped or expires, at first at full strength, because
`begin_fade` does not ask whether it was admitted (sources.rs:381) and the renderer blends every
fade over the admitted sources (render.rs:425), although sources.rs:20 and
docs/runtime-model.md:49 say that what cannot be admitted is not rendered at all; a device that becomes leader while it
is synchronised goes on probing its old master from `on_timer` (node.rs:163), although
`on_tick_message` stops a leader from synchronising (node.rs:222); `better_ticks`
never ages, so better ticks hours apart add up (election.rs:151); an answer to
a probe sent before the master was lost makes the device leave `Unsynced` without
a tick (sync.rs:212); admission skips a source that does not fit, so
a less important one may render while a more important one does not
(sources.rs:428 against sources.rs:26); a fade is painted over all that is admitted, so that
one of an ambient source hides an alert until it has run its length (render.rs:421); and a renewal that comes after the lapse
but before the next frame revives the source on that device only (sources.rs:329).

A fault on a pixel shows where the cores split: one core leaves all later LEDs of the source
as they were, two cores only those of the same shard, and their histories differ until the
source is forgotten (render.rs:574; render.rs:154 says that the shards together render exactly
what the whole renders). `SplitIsWhole` is about sources without such a fault for that reason.

In the adapter, binding an id again replaces its source on the stack but keeps both programs, and a
frame paints both (main.rs:86 speaks of one program per bound source); a program that does not
parse makes every later frame an error; the program of a refused source is bound all the same; and
numbers are truncated, so that a priority of 256 is 0. A projection along an axis whose components
differ in sign is clipped for some LEDs, as its reach is taken from two corners of the box
(zones.rs:488); of such an axis `PlacedInOrder` says only that all LEDs are in the unit (`Ordering`). In a recording trailing tokens are ignored
and a missing `end` or `stats` is zero; it is caught because the run is compared as a whole, and only
for scenarios that take time: a file of a scenario of duration 0 that is cut before its devices
replays to the empty report that a reader makes of the missing lines, and passes. The scenarios
of the repository take time, and `DurationAssumption` says so.
`first_divergence` reports a difference where one trace ends before the other, although
world.rs:230 says "None when they are identical up to the length of the shorter one".

A producer that restarts and claims again before its lease lapses is taken for the
owner that renews, so the number of its former life is kept and its frames,
counted from the start, are dropped for up to half of the numbers
(channels.rs:134). `Channels` has no restart action for that reason: the code
promises such a producer nothing, and `LatestWins` would be about two lives.
`Membership::leds` is documented as ascending (zones.rs:382) and searched as such
(zones.rs:393), but `resolve` keeps the order of the device's list: the order is
the caller's to provide.

The simulated clock applies its rate jump by jump and truncates each time
(clock.rs:135): at 20 ppm a jump shorter than 50 ms adds no drift at all, and below the
slew rate a short jump absorbs no correction, although clock.rs:133 says that the error
grows with elapsed time exactly as a crystal's does. A world that jumps often
drifts less than one that jumps rarely. A revived device hears nothing from the runner
(world.rs:493): it is silent until a datagram or a scripted tick reaches it.

## 5. What is proved

All theorems are for every value of the constants that satisfies the named
`ASSUME`s of the modules (`NodeAssumption`, `ElectionAssumption`,
`FabricAssumption`, `RecordsAssumption`, `StackAssumption`, `ChannelAssumption`,
`ZonesAssumption`, `ShardsAssumption`, `GatewayStackAssumption`, `AdapterAssumption`,
`KeepersAssumption`, `NodeMeshAssumption`, `SyncAssumption`, `NetworkAssumption`, `ClockAssumption`,
`StorageAssumption`, `WorldAssumption`, `GeometryAssumption`, `ProjectionAssumption`,
`RecordingAssumption`, `DurationAssumption`, `VectorAssumption`), and of the safety part of the specifications.
Every invariant that a run checks is stated by one of the theorems.

**ElectionProofs.** `TypeCorrect`: `MeshTypeOK` is inductive, because it also says
that a tick on the air carries the candidacy of its sender.
`CandidateIsUnbeaten`: by the same induction, device by device (`Unbeaten`); a
candidacy is remembered only if it does not beat the device's own, which does not
change while it stands. `StrongestLeads`: a leader steps down only when it hears a
better candidacy of *another* device, and by the type invariant there is none.
The lemmas show that `Beats` is a strict total order on the candidacies of
different devices.

`OneLeader` and `NobodyStands` have a hypothesis, `Timely`: timers and ticks are on time
(`Prompt`), the mesh does not split and loses nothing, and nobody comes back silent (devices may go
off and be booted again, and ticks may be doubled and overtake one another), and a follower waits longer than a
tick interval and longer than a candidate settles. The code's intervals are of that kind: 3 s against
1 s and 2 s (election.rs:25-31). All of it is needed: a device that has just come
back and knows of nobody waits as long as a follower, and with equal times it stands in
the unit of time in which the leader's tick, or the end of the other's candidacy,
is due. Without `Prompt` two leaders are what the code allows for a while, and
`election_converges` shows that they do not last. The invariant is `TimelyInv`: a tick on the air was sent
in this unit of time and still says what its sender is (`Current`), and for each two devices
that are on (`Bound`): the age of a candidate bounds what the other one can have missed of it (`Told`);
two candidates stood in the same unit, and the one that is to yield has the other's tick
on the way to it (`Rivals`); when one leads, the other follows, and has heard it since its last tick or
is about to (`Obeyed`). `AtMostOneLeader` is the last conjunct. `NobodyStandsAgainstLeader` follows
because a follower that would stand has an age of `FollowerTimeout`, which `Obeyed` excludes.

**NodeProofs.** `NodesElect`: NodeMesh implements ElectionMesh. Every step of whole devices, which
also ask their master for the time on the same wires, is a step of the election or a
stutter, when the datagrams that are not ticks are taken away (`TicksOf`). The proof has one
lemma for each handler. It needs the invariant `NetInv`: a tick names its
sender, and finitely many datagrams are in flight, so that there is room for another tick
whenever there is room for another datagram. `NodesHaveOneLeader` carries `OneLeader` over,
through the same substitution.

**SharedProofs**, the records. `RecordsTypeCorrect`, `ClockIsAhead` (type correctness and the
clock's cover of the store, proved inductive together: accepting moves the clock
past the record). `FreshEditsWin`: `HlcTick` is strictly larger than
the clock until it saturates, and the clock is not behind anything held or seen.
`EditsAreNotLost`: `Accept` puts a record only in the place of what it supersedes, and
nothing else removes one while no key changes.

**SharedProofs**, the channel. The type invariant carries the conjunct that makes the rest
work: the number kept for the owner is that of the frame shown, which is the
owner's and was sent. With it, distances between sequence numbers are distances
between frames modulo `SeqSpace` (`SeqDistance`, from the arithmetic lemmas
`Division`, `Remainder`, `Distance`). A frame at most `Delay <= SeqSpace - Half`
older than the one shown is never taken for newer (`LateIsNotNewer`), one less than `Half`
newer always is (`AheadIsNewer`). From these: `ChannelTypeCorrect`,
`OwnersAreHeard`, `FramesInOrder`, `NothingElseFreshens`. The assumption on
`Delay` is the price of a 16-bit number: at 60 Hz a frame would have to be nine
minutes late to break it.

**FoldTheorems.** What the proofs about stacks, tables and the simulator share. The library's
induction theorems take an operator as a parameter and cannot be used, so an induction is done here as the search for a smallest
counterexample, among numbers (`LeastNumber`) or among finite sets (`SmallestSubset`). With it: a fold over a
set or a sequence is what some run of partial results ends with (`FoldExists`, `FoldFromLeft`);
what a sum over a finite set is, with and without one of its elements (`SumAdd`, `SumSame`);
and that a strict total order gives each element of a finite set the place of the number of those before it,
each place once (`PlacesAreTaken`, `ListIsOrder`).

**StackProofs**, the stack. `NothingIsStuck` from the invariant `Leased`: every source
above the ambient floor has an expiry, and just after a frame nothing has reached
its own. A renewal keeps it, because it can only set an expiry, never remove one.

The rest is about admission, a fold over the ranked sources. `AdmitsWhatFits` says of any stack what it computes: a
source is in exactly if it fits beside the admitted ones above it. The ranking puts every
source behind exactly those that outrank it, so that the partial results of the fold are
the admitted among the first so many sources. With it `StackInv` is
inductive: `Leased`; no two sources have one id (`Stackable`); the three lists are those of
one admission of the present stack (`WellAdmitted`); each app has been told what
they say of its source (`WellTold`); just after a frame no fade is over (`FadesEnd`). From it: `NothingIsLeftOut` (what is
rejected does not fit), `AppsAreTold`, `NothingStays`, and `OrdersAgree`: of the admitted sources none
that the top outranks is painted after it, because both orders compare the priority and then the moment of the
push, and of the fades, which are painted after all of them, each is still within its length
(`RunningFade`).

**StackProofs**, the gateway. `GatewayIsStack`: every step of gateway and consoles is a push, pop, renewal,
frame or stutter of SourceStack, so that all theorems about the stack hold with a gateway.
`CeilingsTakeHold` from the invariant `Bounded`: the source of a console always has the lease it
was pushed with, and either it was pushed before the bindings last changed or a binding held now
allows its priority (`Excused`); a lease after the change the first kind has gone, by the frame
invariant of `Leased`. `AlertsAreSeen`: only an alert outranks an alert, and what a console may ask for is below one, so by
`AdmitsWhatFits` an alert competes with the alerts above it and nothing else.

**StackProofs**, the zones. The type invariant says that until the device has lain still for
the whole wait something is pending, and due no sooner than the rest of it
(`still < Settle => pending /\ due + still >= Settle`): the later deadline wins, so an
edit cannot pull the work forward. `MembershipHolds` follows, because only `Settled`
changes membership. `MembershipFollows` is inductive by itself, and with it
`DarknessIsExplained`: on a settled device `members` and `Covered` are one.

**WorldProofs.** `ClocksConverge`: what a clock absorbs at a time is part of what it owes, in its
direction (`SlewStepIsPart`), whatever the rate and however small the steps, so what is owed and what is absorbed
add up to the same until it is disciplined again, and a correction is never overdone. It is worked off
by every jump that earns a unit at the rate of the slew (`EarnedSlew`). A shorter jump earns nothing, as the division
drops it, so that a world of short jumps alone never works anything off: the theorem promises
progress of long ones only.
`NothingIsLeftLate` from the invariant `WorldInv`, which says what a pass has done at each place
of the loop. `OnAir`: each datagram on the air has a number of its own and is for a
device that is on, in the life it was sent to. `Received`: what a device has to
read is for its present life, in order, and before all that is still on the air, so that
appending keeps the order. `Running`: after the sockets were fed nothing on the air is due; after they were read none
holds anything; a pass that found nothing to do leaves no timer that is due. So when the
runner goes on, without having reached `MaxPasses`, nothing of this instant is left.
`WorldTypeCorrect` adds the types of cores and of flash: the bytes counted as used are
those of the entries (`Flash`), by `SumAdd`, since a write changes one entry and the count
by the difference.

**SharedProofs**, the shards. `EveryLedOnce`: every LED belongs to exactly one shard, by the
arithmetic of the division (the remainder goes to the earlier cores). The
inductive invariant `ShardsInv` compares a core with the one-core device at different
moments: a core that still has to render, like the one-core device, remembers the last
frame, and one that has rendered shows what the one core *is going to* paint and
remembers what it is going to remember (`After`). It is needed since in between
the two devices differ. It holds because a program without faults lands wherever the
membership says, on whichever core, and the ordinal does not depend on the core.
`SplittingShowsTheSame` is its consequence at the end of a frame; `ShardsTypeCorrect`
its part about histories. `SplittingLosesNothing` holds with faults: what stops a core
before an LED stops the one core there too.

**AdapterProofs**, the keepers. About any finite table of claims with different ids: `RankingIsTotal`, no tie
is left for the order of arrival to break; `KeepersAreFew`, the keepers inject into the places 0 to
`MaxKeepers - 1` by how many are above them (`ChosenAreApart`); `JoinMovesOne`, a newcomer adds at most one
to what is above a claim, so only the last of the chosen can drop out. `KeepersAreAgreed` says so of
what a device computes from the table it has: sorting permutes it (`SortingPermutes`), the eligible claims stay
in the order of the ranking, and the first `MaxKeepers` of them are the `Chosen` (`ChosenAreFirst`, `SelectIsChosen`).

**AdapterProofs**, the process. The invariant `AdapterInv` says where the two ends are (`PipesFit`: nothing is
asked, or the request is on its way, after a line of the log or not, or its answer is), and that the machine
is one a builder makes (`Fits`: a binding within the widths of its fields, a table of claims, a list of bound
programs whose sources have been pushed at some time). One lemma for each machine says that an event answers
once and leaves a machine of its kind (`EventKeeps`), whatever JSON the request is. From it: `AnswersAreInStep`; `ErrorsKeep`, since
only what leaves everything alone answers with an error; `GatewayIsKeptInside`, for all frames of 16 bits
and the bindings that fit, by arithmetic: the pixels, and the priority, which is the one asked for or the ceiling of
the binding, whichever is less.

**AdapterProofs**, the frame. `FramesPaintTheStack` needs `PaintInv`: the stack is a finite set and its fades a list
(`Stacked`; that the fold over the fades returns one is `StillFadingIsList`), every source on it has an entry among the
programs (`BoundHeld`, which no call on the stack breaks since none adds a source but the one that is bound in the same
step), and the answer that waits is a frame of the stack as it is now (`FrameFits`, since the machine does not move until
the runner has read it). That `Painted` has each entry that shows once, in its place, is
`ShownInOrder`, from `PlacesAreTaken` and `ListIsOrder`.

**AdapterProofs**, the zones. `LedsArePlaced`: of any device, zone and projection, each LED is put in the unit,
in order, at 1 only where no LED is further, and no two LEDs that fit in a grid share a cell. It needs of the state
that the LEDs of the device stand somewhere (`Standing`, a part of `Fits`), which the members of the zone inherit
(`MembersStand`) and by which the box around them exists and holds them (`BoxFits`). The rest is arithmetic on numbers
that are cut off, and the provers do not decide it: a quotient keeps the order and stays under what its dividend stays
under (`QuotientGrows`, `QuotientBelow`), so what is normalised does (`NormalisedFits`, `FractionFits`); a product with a vector of
one sign reaches furthest at a corner of the box (`DotFits`); the square root, found as the least number whose successor squares
to more (`RootExists`), grows with the sum of squares, so no LED is further from a point than the far corner
(`FromFits`). Two of `One + 1` numbers in a row or column are told apart, which is where the width of a grid,
sixteen bits, is needed (`ProjectionAssumption`).

**RecordingProofs.** About every recording of every scenario of the format (`RecordingAssumption`: scenarios and
what a core does are made of operations and trace entries with the fields their tag has, each with a value of its
type). Loops over lines, fields and operations are inductions over numbers, with `EveryNumber` and
`EveryNumberUpTo` of FoldTheorems, about functions that are shown to exist first (`LineLoop` and its like).

`RecordingsReadBack`: a field is read back from the tokens it was written as, whatever follows
them, and nothing else is read from them; so are the fields of an operation and of a trace entry, one after the other;
and each line of the text takes the reader from the recording read so far to that with one
line more (`ReadSoFar`, `NextLine`). The inductive invariant `Kept` says that what was recorded is a recording of
the format, which needs that a run leaves only trace entries of the format (`RunParts`), and that a file that
is not cut follows the text line by line, with annotations in between (`Along`). By induction along
it, all of the file makes all of the recording.

`VerdictsAreRight`: the invariant `Judged` says of a file that was cut that its lines but the last
follow the text, and the last is a note or what is left of the next line (`Lost`): its first tokens, the last of
them perhaps with its own end lost. Such a line is refused, or changes only what its
keyword speaks of. If the cut is before the line `end`, the end that is read is 0 and the end of
any replay is the duration that was read, which is not 0 (`DurationAssumption`; a duration
that loses digits keeps its first one, which is not 0), and the verdict is not "same". If the cut is later,
the whole scenario has been read, its replay is what was recorded, since a script that is in order is left as it is
(`Normalise`), and the verdict is "same" exactly if all of the report has been read. A file is read in
one way at most (`AtMostOne`), so there is one verdict.

`EventsAreToldApart`: by cases of the tag; each operation has an event whose name and detail give it back.

**Only model-checked.** All liveness properties (`Converges` and the like, and of the adapter that an
answer comes), which the prover does not reach: they rest on fairness and on which actions are enabled.

## 6. What is left out, and what could follow

Left out within modelled parts: the median of the offsets and the histogram of
round trips in `sync.rs`; framing and sealing of datagrams; partitions of single
pairs and latencies of `net.rs`, which SimNetwork has, in the mesh modules; contents and signatures of records
(a key matches or it does not); how far a fade has come, the colours; `ChannelUniforms`;
the interpolation of a stale reading, and the cast of `hold_us` in it, which
exceeds an `i32` for a hold beyond half an hour; the range of `Q16` in ZoneGeometry; the text of JSON; and
the ring of recent frames of a strip.

Not modelled: the audio analysis, which is arithmetic on samples (a Fourier transform, band
levels, onsets and a tempo) whose correctness is a matter of numbers; the random
generators, whose properties are statistical; the shared types of `lib.rs`, which appear as the
parameters of actions; and the bytecode machine, which is not in this repository.

What nothing is promised about, and hence no property says. Three such things are in the code:
better ticks of a leader never age (election.rs:151), a side of a split on which every device
was revived and is silent elects nobody (world.rs:493; `Converges` and the properties of nodes except it), and a producer that restarts within its lease is not heard for a while
(channels.rs:134). The epoch is a `u32` that saturates (election.rs:190): reigns at the limit all have the same
epoch. `EpochMax` is reached in the runs and no property fails there.

Next would be:

1. *Fabric*: the abstraction of SimNetwork to Fabric as a refinement.
2. *Runs*: that `Run` of Scenarios is one of the runs of World, which is so by reading.

The run that exhibits a violation is kept as long as the code is as it is.
