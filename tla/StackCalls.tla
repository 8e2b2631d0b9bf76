----------------------------- MODULE StackCalls -----------------------------
(***************************************************************************)
(* A stack of sources (sources.rs) and the calls on it, each at a moment   *)
(* `at', on a stack that has room for what `room' says.                    *)
(*                                                                         *)
(* The vector of active sources is always sorted by a total order, so it   *)
(* is a set here and the order an operator.  An app follows the stack by   *)
(* the changes each call reports: `told' is what it has made of them.      *)
(***************************************************************************)
EXTENDS Integers, FiniteSets, SequencesExt, Sorted

CONSTANTS
  Id,               \* the sources that may be pushed
  AmbientFloorMax,  \* the highest priority that may omit an expiry
  Never             \* the expiry of a source that has none

VARIABLES
  active,    \* the sources on the stack
  fading,    \* the sources on their way out, each with the start of its fade
  admitted,  \* ids that render
  rejected,  \* ids that do not, for want of room
  told       \* what an app that follows the changes believes of each id

stackVars == <<active, fading, admitted, rejected, told>>

EmptyStack ==
  /\ active = {} /\ fading = <<>> /\ admitted = {} /\ rejected = {}
  /\ told = [id \in Id |-> "gone"]

(* A new stack takes the place of the old one. *)
Cleared ==
  /\ active' = {} /\ fading' = <<>> /\ admitted' = {} /\ rejected' = {}
  /\ told' = [id \in Id |-> "gone"]

Ambient(s) == s.kind.priority <= AmbientFloorMax

(* Variant: the instant named is still part of the lease. *)
HasExpiredLate(s, t) == s.expires # Never /\ t > s.expires

HasExpired(s, t) == s.expires # Never /\ t >= s.expires

(* The order of the stack: priority, then the latest push, then the id. *)
Outranks(s, other) ==
  \/ s.kind.priority > other.kind.priority
  \/ /\ s.kind.priority = other.kind.priority
     /\ \/ s.pushedAt > other.pushedAt
        \/ s.pushedAt = other.pushedAt /\ s.id > other.id

Ids(S) == {s.id : s \in S}

Of(id) == {s \in active : s.id = id}

Ranked(S) == InOrder(S, Outranks)

-----------------------------------------------------------------------------
(* Admission: from the top down, each source that still fits. *)
Consider(room, acc, s) ==
  IF acc.spent + s.kind.cost <= room.budget /\ Cardinality(acc.in) < room.max
  THEN [in |-> acc.in \cup {s.id}, spent |-> acc.spent + s.kind.cost]
  ELSE acc

Admit(room, S) ==
  FoldLeft(LAMBDA acc, s : Consider(room, acc, s), [in |-> {}, spent |-> 0], Ranked(S)).in

(* Variant: only a source that was not on the stack is ever rejected. *)
ReportedOnce(S, in) ==
  [id \in Id |->
     CASE id \in in \ admitted -> "shown"
       [] id \in Ids(S) \ (in \cup Ids(active)) -> "left out"
       [] id \in Ids(active) \ Ids(S) -> "gone"
       [] OTHER -> told[id]]

(* What an app makes of the changes when S becomes the stack: a source     *)
(* that is admitted or rejected anew, or has left.  A source that replaces *)
(* one of its own id is reported only where its standing changes.          *)
Reported(S, in) ==
  [id \in Id |->
     CASE id \in in \ admitted -> "shown"
       [] id \in (Ids(S) \ in) \ rejected -> "left out"
       [] id \in Ids(active) \ Ids(S) -> "gone"
       [] OTHER -> told[id]]

Readmit(room, S) ==
  LET in == Admit(room, S)
  IN  /\ admitted' = in
      /\ rejected' = Ids(S) \ in
      /\ told' = Reported(S, in)

(* The fades that begin when the sources of S leave; one without a fade is *)
(* finished at once.                                                       *)
BeginFade(at, S) ==
  LET slow == Ranked({s \in S : s.kind.fadeOut > 0})
  IN  [i \in DOMAIN slow |-> [source |-> slow[i], since |-> at]]

-----------------------------------------------------------------------------
(* Variant: no rule against sources without an expiry. *)
AcceptableForever(room, at, s) == ~HasExpired(s, at) /\ s.kind.cost <= room.budget

(* A push is refused when it could stay for ever, has lapsed on its way,   *)
(* or could not be rendered even alone.  A refusal changes nothing.        *)
Acceptable(room, at, s) ==
  /\ Ambient(s) \/ s.expires # Never
  /\ ~HasExpired(s, at)
  /\ s.kind.cost <= room.budget

Push(room, at, s) ==
  /\ Acceptable(room, at, s)
  /\ active' = (active \ Of(s.id)) \cup {s}
  /\ Readmit(room, active')
  /\ UNCHANGED fading

Pop(room, at, id) ==
  /\ Of(id) # {}
  /\ active' = active \ Of(id)
  /\ fading' = fading \o BeginFade(at, Of(id))
  /\ Readmit(room, active')

(* A renewal does not look at the clock, and leaves the admission alone. *)
Renew(id, expires) ==
  /\ Of(id) # {}
  /\ active' = {IF s.id = id THEN [s EXCEPT !.expires = expires] ELSE s :
                  s \in active}
  /\ UNCHANGED <<fading, admitted, rejected, told>>

FadeDone(at, f) == at - f.since >= f.source.kind.fadeOut

Continue(at, kept, f) == IF FadeDone(at, f) THEN kept ELSE Append(kept, f)

(* The fades that are not over, in their order. *)
StillFading(at, fades) == FoldLeft(LAMBDA kept, f : Continue(at, kept, f), <<>>, fades)

(* Variant: a frame does not run the admission of what remains. *)
AdvanceKeeps(room, at) ==
  LET lapsed == {s \in active : HasExpired(s, at)}
      in == admitted \ Ids(lapsed)
  IN  /\ active' = active \ lapsed
      /\ fading' = StillFading(at, fading \o BeginFade(at, lapsed))
      /\ admitted' = in
      /\ rejected' = rejected \ Ids(lapsed)
      /\ told' = Reported(active', in)

(* What has lapsed begins to fade, fades that are over end, and admission  *)
(* is run again.                                                           *)
Advance(room, at) ==
  LET lapsed == {s \in active : HasExpired(s, at)}
  IN  /\ active' = active \ lapsed
      /\ fading' = StillFading(at, fading \o BeginFade(at, lapsed))
      /\ Readmit(room, active')
=============================================================================
