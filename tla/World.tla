-------------------------------- MODULE World --------------------------------
(***************************************************************************)
(* The runner of the simulator (world.rs): it jumps from one instant at    *)
(* which something is due to the next and settles the world there, device  *)
(* by device, until the instant is quiet or a limit on passes is reached.  *)
(*                                                                         *)
(* A core is any: on an event it asks for any number of wake-ups.  A       *)
(* script is any: at an instant of its choice it does what it wants.       *)
(***************************************************************************)
EXTENDS SimNetwork, SimClock, SimStorage

CONSTANTS
  Duration,    \* of the scenario
  MaxPasses,   \* how often an instant is settled at most
  Delay,       \* what a core may ask a timer to wait
  Offset,      \* by how much a clock may be moved or corrected
  Rate,        \* by how much a clock may be fast or slow
  Length,      \* how long a stored value may be
  Ops          \* bound: operations in a script

ASSUME WorldAssumption ==
  /\ Duration \in Nat /\ MaxPasses \in Nat \ {0} /\ Ops \in Nat
  /\ Delay \subseteq Nat /\ Length \subseteq Nat
  /\ Offset \subseteq Int /\ Rate \subseteq -Million .. Million

Never == -1   \* no timer

VARIABLES
  now,
  phase,     \* idle, op, ops, drain, fire or over
  timer,     \* when each device is to be woken
  due,       \* devices that are still to be woken in this pass
  worked,    \* whether this pass had anything to do
  passes,    \* passes at this instant
  overrun,   \* whether the limit on passes ended the last instant
  clock, storage,
  ops        \* operations left in the script

deviceVars == <<timer, clock, storage>>
passVars == <<due, worked, passes, overrun>>
worldVars == <<netVars, now, phase, deviceVars, passVars, ops>>

WorldInit ==
  /\ NetInit
  /\ now = 0 /\ phase = "ops"
  /\ timer = [n \in Node |-> Never]
  /\ due = {} /\ worked = FALSE /\ passes = 0 /\ overrun = FALSE
  /\ \E skew \in Offset \cup {0}, drift \in Rate \cup {0} :
       clock = [n \in Node |-> IF n = Min(Node) THEN NewClock(skew, drift) ELSE NewClock(0, 0)]
  /\ storage = [n \in Node |-> Blank]
  /\ ops = Ops

-----------------------------------------------------------------------------
(* The core of n handles an event and asks for wake-ups; the earliest, the *)
(* one it still waits for included, is the one it gets.                    *)
Wakes(n, asks) ==
  LET moments == {now + d : d \in asks} \cup ({timer[n]} \ {Never})
  IN  IF moments = {} THEN Never ELSE Min(moments)

Event(n, asks) ==
  /\ timer' = [timer EXCEPT ![n] = Wakes(n, asks)]
  /\ clock' = [clock EXCEPT ![n] = ReadClock(@)]

-----------------------------------------------------------------------------
(* What is due next, but for the script.  A timer that the limit on passes *)
(* left behind does not count.                                             *)
(* Variant: it does. *)
PendingAll ==
  {p.at : p \in inFlight} \cup {Larger(timer[n], now) : n \in {m \in Node : timer[m] # Never}}

Pending == {p.at : p \in inFlight} \cup {timer[n] : n \in {m \in Node : timer[m] > now}}

AdvanceTo(t) ==
  /\ now' = t
  /\ IF t = now THEN UNCHANGED <<netVars, clock>>
     ELSE /\ Deliver(t)
          /\ clock' = [n \in Node |-> ReadClock(Advanced(clock[n], t - now))]

(* The next instant: something is due, or the script has something to do. *)
NextInstant ==
  /\ phase = "idle"
  /\ \E t \in now .. Duration :
       /\ \A p \in Pending : t <= Larger(p, now)
       /\ phase' = IF \E p \in Pending : t = Larger(p, now) THEN "ops" ELSE "op"
       /\ phase' = "op" => t > now /\ ops > 0
       /\ AdvanceTo(t)
  /\ UNCHANGED <<timer, storage, passVars, ops>>

Finish ==
  /\ phase = "idle"
  /\ \A p \in Pending : p > Duration
  /\ phase' = "over"
  /\ AdvanceTo(Duration)
  /\ UNCHANGED <<timer, storage, passVars, ops>>

-----------------------------------------------------------------------------
(* Operations of the script. *)
Scripted ==
  /\ phase \in {"op", "ops"} /\ phase' = "ops"
  /\ ops > 0 /\ ops' = ops - 1
  /\ UNCHANGED <<now, passVars>>

TickOp(n, asks) ==
  /\ IF n \in powered THEN Event(n, asks) ELSE UNCHANGED <<timer, clock>>
  /\ UNCHANGED <<netVars, storage>>

NetOp ==
  /\ \/ \E a, b \in Node : SendTo(a, {b}, now) \/ (a # b /\ (Partition(a, b) \/ Heal(a, b)))
     \/ \E a \in Node, g \in Group : SendTo(a, joined[g] \ {a}, now) \/ Join(a, g)
     \/ \E left \in SUBSET Node : \E right \in SUBSET (Node \ left) : Split(left, right)
     \/ \E f \in FaultModels : SetFaults(f)
     \/ HealAll
  /\ UNCHANGED deviceVars

Kill(n) ==
  /\ PowerDown(n)
  /\ timer' = [timer EXCEPT ![n] = Never]
  /\ UNCHANGED <<clock, storage>>

Revive(n, wipe) ==
  /\ PowerUp(n)
  /\ storage' = IF wipe THEN [storage EXCEPT ![n] = Blank] ELSE storage
  /\ UNCHANGED <<timer, clock>>

ClockOp(n) ==
  /\ \/ \E o \in Offset : clock' = [clock EXCEPT ![n].skew = o]
     \/ \E r \in Rate : clock' = [clock EXCEPT ![n].drift = r]
     \/ \E o \in Offset : clock' = [clock EXCEPT ![n] = Disciplined(@, o)]
  /\ UNCHANGED <<netVars, timer, storage>>

StorageOp(n, k) ==
  /\ \/ \E len \in Length : storage' = [storage EXCEPT ![n] = Written(@, k, len)]
     \/ storage' = [storage EXCEPT ![n] = Erased(@, k)]
  /\ UNCHANGED <<netVars, timer, clock>>

Apply ==
  /\ Scripted
  /\ \/ \E n \in Node, asks \in SUBSET Delay : TickOp(n, asks)
     \/ NetOp
     \/ \E n \in Node : Kill(n) \/ ClockOp(n)
     \/ \E n \in Node, wipe \in BOOLEAN : Revive(n, wipe)
     \/ \E n \in Node, k \in Key : StorageOp(n, k)

-----------------------------------------------------------------------------
(* Settling an instant: each pass drains the sockets and then wakes the    *)
(* devices whose timers were due when it began to.                         *)
StartSettling ==
  /\ phase = "ops" /\ phase' = "drain"
  /\ Deliver(now)
  /\ clock' = [n \in Node |-> IF n \in powered THEN ReadClock(clock[n]) ELSE clock[n]]
  /\ worked' = FALSE /\ passes' = 0 /\ overrun' = FALSE
  /\ UNCHANGED <<now, timer, storage, due, ops>>

Waiting == {n \in powered : inbox[n] # <<>>}

ReceiveNext(n, asks) ==
  /\ phase = "drain" /\ Waiting # {} /\ n = Min(Waiting)
  /\ Recv(n)
  /\ Event(n, asks)
  /\ worked' = TRUE
  /\ UNCHANGED <<now, phase, storage, due, passes, overrun, ops>>

CollectTimers ==
  /\ phase = "drain" /\ Waiting = {} /\ phase' = "fire"
  /\ due' = {n \in powered : timer[n] # Never /\ timer[n] <= now}
  /\ worked' = (worked \/ due' # {})
  /\ UNCHANGED <<netVars, now, deviceVars, passes, overrun, ops>>

FireNext(n, asks) ==
  /\ phase = "fire" /\ due # {} /\ n = Min(due)
  /\ due' = due \ {n}
  /\ timer' = [timer EXCEPT ![n] = IF asks = {} THEN Never ELSE now + Min(asks)]
  /\ clock' = [clock EXCEPT ![n] = ReadClock(@)]
  /\ UNCHANGED <<netVars, now, phase, storage, worked, passes, overrun, ops>>

(* Variant: one pass is enough. *)
PassEndsOnce ==
  /\ phase = "fire" /\ due = {} /\ phase' = "idle"
  /\ passes' = passes + 1
  /\ UNCHANGED <<netVars, now, deviceVars, due, worked, overrun, ops>>

PassEnds ==
  /\ phase = "fire" /\ due = {}
  /\ \/ ~ worked /\ phase' = "idle" /\ UNCHANGED <<netVars, worked, passes, overrun>>
     \/ /\ worked /\ passes + 1 < MaxPasses
        /\ phase' = "drain" /\ Deliver(now)
        /\ worked' = FALSE /\ passes' = passes + 1 /\ UNCHANGED overrun
     \/ /\ worked /\ passes + 1 >= MaxPasses
        /\ phase' = "idle" /\ overrun' = TRUE
        /\ passes' = passes + 1 /\ UNCHANGED <<netVars, worked>>
  /\ UNCHANGED <<now, deviceVars, due, ops>>

Settle ==
  \/ StartSettling \/ CollectTimers \/ PassEnds
  \/ \E n \in Node, asks \in SUBSET Delay : ReceiveNext(n, asks) \/ FireNext(n, asks)

WorldNext == NextInstant \/ Finish \/ Apply \/ Settle

(* The runner is a loop: it goes on until it is over. *)
WorldSpec == WorldInit /\ [][WorldNext]_worldVars /\ WF_worldVars(WorldNext)

-----------------------------------------------------------------------------
Packet == [from : Node, to : Node, at : Nat, seq : Nat, life : Nat]

(* Types; a device that is off waits for nothing and nothing is on its way *)
(* to it, in this life of it or the last; what a device reads is in the    *)
(* order it was due; and its flash holds what it says, within capacity.    *)
WorldTypeOK ==
  /\ phase \in {"idle", "op", "ops", "drain", "fire", "over"}
  /\ now \in 0 .. Duration /\ ops \in 0 .. Ops /\ passes \in 0 .. MaxPasses
  /\ worked \in BOOLEAN /\ overrun \in BOOLEAN
  /\ due \subseteq powered /\ powered \subseteq Node
  /\ inFlight \subseteq Packet
  /\ \A p \in inFlight : p.life = life[p.to] /\ p.to \in powered
  /\ \A n \in Node :
       /\ timer[n] \in Nat \cup {Never}
       /\ n \notin powered => timer[n] = Never /\ inbox[n] = <<>>
       /\ \A i \in DOMAIN inbox[n] : inbox[n][i].to = n /\ inbox[n][i].life = life[n]
       /\ \A i, j \in DOMAIN inbox[n] : i < j => Earlier(inbox[n][i], inbox[n][j])
       /\ storage[n].used = Content(storage[n]) /\ storage[n].used <= Capacity
       /\ clock[n].owed \in -OwedMax .. OwedMax

(* Between two instants nothing that was due is left: no datagram unread   *)
(* or on the air, and no timer, unless the limit on passes cut it short.   *)
NothingIsLate ==
  phase \in {"idle", "over"} =>
    /\ \A p \in inFlight : p.at > now
    /\ \A n \in Node : inbox[n] = <<>>
    /\ overrun \/ \A n \in Node : timer[n] = Never \/ timer[n] > now

(* A correction is worked off and never overdone, whatever becomes of the  *)
(* rate and the offset of the clock, and what a core is told never goes    *)
(* back.  A jump that is long enough to earn a unit at the rate of the     *)
(* slew leaves less owed; the division drops what a shorter one earns, so  *)
(* of a runner that makes only those nothing is promised (clock.rs:135).   *)
CorrectionsConverge ==
  [][\A n \in Node :
       /\ clock'[n].reported >= clock[n].reported
       /\ now' # now =>
            /\ clock'[n].owed + clock'[n].absorbed = clock[n].owed + clock[n].absorbed
            /\ Magnitude(clock'[n].owed) <= Magnitude(clock[n].owed)
            /\ clock'[n].owed * clock[n].owed >= 0
            /\ clock[n].owed # 0 /\ (now' - now) * SlewPpm >= Million
                 => Magnitude(clock'[n].owed) < Magnitude(clock[n].owed)]_worldVars

(* Every run ends, also when cores keep asking to be woken at once.        *)
RunEnds == <>(phase = "over")
=============================================================================
