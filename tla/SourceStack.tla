---------------------------- MODULE SourceStack ----------------------------
(***************************************************************************)
(* The stack of sources of one zone (sources.rs) and the order in which    *)
(* the renderer paints them (render.rs).                                   *)
(*                                                                         *)
(* StackCalls has the calls.  Here apps make them, at the moments of the   *)
(* show clock, and every so often a frame is painted.                      *)
(***************************************************************************)
EXTENDS StackCalls

CONSTANTS
  Kind,             \* what they come as: [priority, cost, fadeIn, fadeOut]
  Budget,           \* what the device can spend on one pixel
  MaxConcurrent,    \* how many sources it renders at once
  TimeMax,          \* bound: no call and no expiry is later than this
  Horizon,          \* bound: the last frame
  Calls             \* bound: how many calls there are

ASSUME StackAssumption ==
  /\ Id \subseteq Int
  /\ Kind \subseteq [priority : Nat, cost : Nat, fadeIn : Nat, fadeOut : Nat]
  /\ AmbientFloorMax \in Nat /\ Budget \in Nat /\ Calls \in Nat
  /\ TimeMax \in Nat /\ Horizon \in Nat /\ TimeMax <= Horizon
  /\ Never \notin Int
  /\ MaxConcurrent \in Nat /\ MaxConcurrent >= 2

VARIABLES
  now,       \* the show clock
  framed,    \* a frame has just been painted
  calls      \* calls left (bound)

vars == <<now, stackVars, framed, calls>>

Source == [id : Id, kind : Kind, pushedAt : 0..TimeMax,
           expires : (0..TimeMax) \cup {Never}]

Room == [budget |-> Budget, max |-> MaxConcurrent]

-----------------------------------------------------------------------------
StackInit ==
  /\ now = 0
  /\ EmptyStack
  /\ framed = FALSE
  /\ calls = Calls

Call ==
  /\ calls > 0
  /\ now <= TimeMax
  /\ calls' = calls - 1
  /\ framed' = FALSE
  /\ UNCHANGED now

(* A frame first brings the stack up to the moment. *)
Frame == Advance(Room, now) /\ framed' = TRUE /\ UNCHANGED <<now, calls>>

Tick ==
  /\ now < Horizon
  /\ now' = now + 1
  /\ framed' = FALSE
  /\ UNCHANGED <<stackVars, calls>>

(* A push names a show time: the one it was sent at, or a later one when   *)
(* it is scheduled (sources.rs:844).                                       *)
StackNext ==
  \/ Call /\ \E s \in Source : Push(Room, now, s)
  \/ Call /\ \E id \in Id : Pop(Room, now, id)
  \/ Call /\ \E id \in Id, t \in 0..TimeMax : Renew(id, t)
  \/ Frame
  \/ Tick

StackSpec == StackInit /\ [][StackNext]_vars

-----------------------------------------------------------------------------
(* What a frame paints, from the bottom up.                                *)

(* A source that fades in does not show at the moment it was pushed, nor   *)
(* before it.                                                              *)
Shows(s) == s.id \in admitted /\ (s.kind.fadeIn = 0 \/ now > s.pushedAt)

(* What a frame is made of: the admitted sources, which are layer 0, and   *)
(* the fades over them, each a layer of its own.  The renderer has copies  *)
(* of the sources as they were pushed; of what it looks at, a renewal      *)
(* changes nothing.                                                        *)
Layers ==
  {[source |-> s, layer |-> 0] : s \in {o \in active : Shows(o)}}
    \cup {[source |-> fading[i].source, layer |-> i] : i \in DOMAIN fading}

(* Variant: the renderer paints the later push first. *)
PaintedOverReversed(other, l) ==
  \/ other.layer > l.layer
  \/ /\ other.layer = l.layer
     /\ \/ other.source.kind.priority > l.source.kind.priority
        \/ /\ other.source.kind.priority = l.source.kind.priority
           /\ other.source.pushedAt < l.source.pushedAt

(* The renderer paints other over l: fades over everything, in the order   *)
(* they began; the admitted by priority and push alone.                    *)
PaintedOver(other, l) ==
  \/ other.layer > l.layer
  \/ /\ other.layer = l.layer
     /\ \/ other.source.kind.priority > l.source.kind.priority
        \/ /\ other.source.kind.priority = l.source.kind.priority
           /\ other.source.pushedAt > l.source.pushedAt

-----------------------------------------------------------------------------
(* What a set of sources takes, and whether s has room beside it. *)
Spent(S) == SumFunction([s \in S |-> s.kind.cost])

Fits(S, s) ==
  Spent(S) + s.kind.cost <= Budget /\ Cardinality(S) < MaxConcurrent

(* A source is left out only while what is admitted above it leaves it no  *)
(* room: it drops back in the moment something above it goes.              *)
NothingLeftOut ==
  \A s \in active :
    LET above == {o \in active : o.id \in admitted /\ Outranks(o, s)}
    IN  s.id \in rejected <=> ~Fits(above, s)

(* An app that only follows the changes knows what every source is doing,  *)
(* over any sequence of pushes, replacements, pops, lapses and fades: the  *)
(* stack, both lists of its ids and what the app was told always agree.    *)
ToldTheTruth ==
  /\ \A s, o \in active : s.id = o.id => s = o
  /\ admitted \cap rejected = {} /\ admitted \cup rejected = Ids(active)
  /\ \A id \in Id : told[id] = CASE id \in admitted -> "shown"
                                 [] id \in rejected -> "left out"
                                 [] OTHER -> "gone"

(* No frame paints a source at or after the moment it expires, nor a fade  *)
(* that has run its length, however the lease was shortened or extended.   *)
NothingOverstays ==
  framed => /\ \A s \in active : s.expires = Never \/ now < s.expires
            /\ \A i \in DOMAIN fading :
                 now < fading[i].since + fading[i].source.kind.fadeOut

(* The admitted source that no admitted one outranks (top, sources.rs:262). *)
Top(s) == s.id \in admitted /\ \A o \in active \ {s} : o.id \in admitted => Outranks(s, o)

(* The two orders agree: the stack and the renderer sort the sources by    *)
(* separate rules, and a frame that shows the top of the stack paints it   *)
(* over every layer but two kinds: what has left the stack no longer ago   *)
(* than its fade takes, whatever its priority was (render.rs:418), and an  *)
(* admitted source pushed at the same priority and moment.                 *)
TopCovers ==
  framed => \A s \in active : Top(s) /\ Shows(s) =>
    LET top == [source |-> s, layer |-> 0]
    IN  \A l \in Layers \ {top} :
          \/ PaintedOver(top, l)
          \/ /\ l.layer > 0
             /\ now - fading[l.layer].since < l.source.kind.fadeOut
          \/ /\ l.layer = 0
             /\ l.source.kind.priority = s.kind.priority
             /\ l.source.pushedAt = s.pushedAt

(* Nothing above the ambient floor gets stuck: a frame later than every    *)
(* lease that was given, at the push or by a renewal, shows only ambient   *)
(* sources.                                                                *)
NothingSticks == framed /\ now > TimeMax => \A s \in active : Ambient(s)
=============================================================================
