---------------------------- MODULE MCRecording ----------------------------
(* Scenarios that between them have every operation and every kind of      *)
(* entry a trace may have.                                                 *)
EXTENDS VectorExport

(* What a core does.  The last three no run of World traces today; the     *)
(* format has them all the same.                                           *)
Reaction ==
  <<[type |-> <<"action", "set_timer">>, in |-> 9000],
    [type |-> <<"action", "send">>, dest |-> <<>>, transport |-> "datagram", datagram |-> <<>>],
    [type |-> <<"action", "send">>, dest |-> <<1, 2, 3, 4>>, transport |-> "reliable",
     datagram |-> <<7, 8>>],
    [type |-> <<"action", "discipline">>, offset |-> -12],
    [type |-> <<"action", "role">>, role |-> "leader", epoch |-> 3],
    [type |-> <<"action", "sync_lost">>], [type |-> <<"action", "sync_acquired">>],
    [type |-> <<"event", "datagram">>, len |-> 2],
    [type |-> <<"event", "peer_up">>, prefix |-> <<1, 2, 3, 4>>],
    [type |-> <<"event", "peer_down">>, prefix |-> <<4, 3, 2, 1>>]>>

Tick(n) == [tag |-> "tick", node |-> n]
KillOf(n) == [tag |-> "kill", node |-> n]
ReviveOf(n, wipe) == [tag |-> "revive", node |-> n, wipe |-> wipe]
Send(a, b, bytes) == [tag |-> "send", from |-> a, to |-> b, bytes |-> bytes]
Multicast(a, g, bytes) == [tag |-> "multicast", from |-> a, group |-> g, bytes |-> bytes]
JoinOf(n, g) == [tag |-> "join", node |-> n, group |-> g]
Between(tag, a, b) == [tag |-> tag, a |-> a, b |-> b]
HealAllOp == [tag |-> "heal_all"]
SplitOf(l, r) == [tag |-> "split", left |-> l, right |-> r]
FaultsTo(f) == [tag |-> "set_faults", faults |-> f]
Moved(tag, n, offset) == [tag |-> tag, node |-> n, offset |-> offset]
DriftOf(n, ppm) == [tag |-> "drift", node |-> n, ppm |-> ppm]
Present(n, level) == [tag |-> "present", node |-> n, level |-> level]
Store(n, key, value) == [tag |-> "store", node |-> n, key |-> key, value |-> value]
Erase(n, key) == [tag |-> "erase", node |-> n, key |-> key]

Odd == <<1, 20, 3, 4, 5, 60>>

Plain == WithNodes(NewScenario(4, 20), 2, 3)

(* A datagram, and the power of its receiver at the same moment. *)
Outage ==
  AtTime(AtTime(AtTime(AtTime(AtTime(Plain, 12, Send(2, 1, <<7>>)), 5, Send(1, 2, <<>>)),
    5, KillOf(2)), 5, Send(2, 1, <<9, 9, 9, 9>>)), 12, ReviveOf(2, TRUE))

Groups ==
  AtTime(AtTime(AtTime(AtTime(AtTime(AtTime(Plain, 1, JoinOf(2, 3)), 2, Multicast(1, 3, <<5, 6>>)),
    3, SplitOf(<<1>>, <<2>>)), 3, Multicast(1, 3, <<6>>)), 4, HealAllOp), 4, Between("partition", 1, 2))

Devices ==
  AtTime(AtTime(AtTime(AtTime(AtTime(AtTime(AtTime(
    WithFaults(WithNode(NewScenario(31, 100),
      WithStorageCapacity(WithClockError(NewNode(7, 0), -30, 15), 2)), Odd),
    10, Present(7, 300)), 10, Store(7, <<1>>, <<2, 3, 4, 5>>)), 10, Store(7, <<>>, <<>>)),
    11, Erase(7, <<1>>)), 12, Moved("skew", 7, -14)), 12, DriftOf(7, 40)), 99, Tick(7))

Ticks == Every(WithNodes(NewScenario(0, 3), 1, 0), 0, 2, 5, [t \in 0..4 |-> Tick(t)])

Darkness ==
  AtTime(AtTime(AtTime(AtTime(AtTime(Plain, 0, KillOf(1)), 0, Present(1, 5)), 0, JoinOf(1, 2)),
    0, Between("heal", 2, 1)), 9, FaultsTo(Odd))

Scenarios == {Outage, Groups, Devices, Ticks, Darkness, Plain, AtTime(Plain, 3, Moved("discipline", 1, 50))}

Differing ==
  {Tick(1), Tick(2), KillOf(2), ReviveOf(2, TRUE), ReviveOf(2, FALSE), Send(1, 2, <<>>),
   Send(1, 1, <<>>), Send(2, 1, <<7>>), Multicast(1, 3, <<6>>), Multicast(1, 2, <<6>>),
   JoinOf(2, 3), JoinOf(2, 2), Between("partition", 1, 2), Between("partition", 1, 7),
   Between("heal", 2, 1), HealAllOp, SplitOf(<<1>>, <<2>>), SplitOf(<<>>, <<2>>),
   SplitOf(<<1>>, <<>>), FaultsTo(PerfectFaults), FaultsTo(Odd), Moved("skew", 7, 14),
   Moved("skew", 7, -14), Moved("discipline", 1, 50), DriftOf(7, 40), DriftOf(7, -40),
   Present(7, 300), Present(7, 0), Store(7, <<1>>, <<2, 3, 4, 5>>), Store(7, <<1>>, <<2>>),
   Store(7, <<>>, <<>>), Erase(7, <<1>>), Erase(7, <<>>)}
=============================================================================
