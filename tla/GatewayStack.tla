---------------------------- MODULE GatewayStack ----------------------------
(***************************************************************************)
(* A gateway feeding the stack of sources: consoles without credentials    *)
(* send frames at any time, the owner binds, rebinds and unbinds them, and *)
(* apps push, pop and renew sources of their own.                          *)
(*                                                                         *)
(* The shell pushes what the gateway admits, under an id that belongs to   *)
(* the binding; the pixels of a frame do not reach the stack.              *)
(***************************************************************************)
EXTENDS SourceStack

CONSTANTS
  ConsoleId,           \* ids of the consoles' bindings and of their sources
  AppKind,             \* what apps push
  Binding,             \* the bindings an owner may ask for
  Frames,              \* the frames consoles may send
  MaxGatewayPriority, DefaultLease, PixelMax, NoPriority

Gate == INSTANCE Gateway

(* What a console shows has no program that costs, and no fades. *)
ConsoleKind(priority) ==
  [priority |-> priority, cost |-> 0, fadeIn |-> 0, fadeOut |-> 0]

ASSUME GatewayStackAssumption ==
  /\ ConsoleId \subseteq Id
  /\ AppKind \subseteq Kind
  /\ MaxGatewayPriority \in Nat /\ DefaultLease \in Nat \ {0}
  /\ \A p \in 0..MaxGatewayPriority : ConsoleKind(p) \in Kind
  /\ \A b \in Binding : b.id \in ConsoleId /\ b.ceiling \in Nat
  /\ Frames \subseteq Gate!Ingress

VARIABLES
  bindings,   \* what the gateway holds
  changedAt   \* when it last changed, for the properties

gatewayVars == <<bindings, changedAt>>

GatewayInit == StackInit /\ bindings = {} /\ changedAt = 0

(* A binding that is not valid is refused when it is written. *)
Bind ==
  /\ \E b \in Binding :
       /\ Gate!BindingFault(b) = "none"
       /\ bindings' = Gate!GatewayBind(bindings, b)
  /\ changedAt' = now
  /\ UNCHANGED vars

Unbind ==
  /\ \E b \in bindings : bindings' = Gate!GatewayUnbind(bindings, b.id)
  /\ changedAt' = now
  /\ UNCHANGED vars

(* Variant: a frame is let in by the binding its console once had. *)
FromAny(b) == b \in Binding

(* The binding must be held now. *)
Held(b) == b \in bindings

(* What the shell pushes for an admitted frame. *)
SourceOf(b, i) ==
  LET a == Gate!AdmitIngress(b, i, now)
  IN  [id |-> b.id, pushedAt |-> a.pushedAt, expires |-> a.expires,
       kind |-> ConsoleKind(a.priority)]

(* A frame of a console, early enough for its lease to end in the bound. *)
ConsoleFrame ==
  /\ Call
  /\ now + DefaultLease <= TimeMax
  /\ \E b \in Binding, i \in Frames :
       Held(b) /\ Gate!Refused(b, i) = "none" /\ Push(Room, now, SourceOf(b, i))
  /\ UNCHANGED gatewayVars

(* Apps do as in SourceStack, with ids of their own. *)
AppPush ==
  /\ Call
  /\ \E s \in Source : /\ s.kind \in AppKind /\ s.id \notin ConsoleId
                       /\ Push(Room, now, s)
  /\ UNCHANGED gatewayVars

AppPop == Call /\ (\E id \in Id \ ConsoleId : Pop(Room, now, id)) /\ UNCHANGED gatewayVars

AppRenew ==
  /\ Call
  /\ \E id \in Id \ ConsoleId, t \in 0..TimeMax : Renew(id, t)
  /\ UNCHANGED gatewayVars

GatewayNext ==
  \/ Bind
  \/ Unbind
  \/ ConsoleFrame
  \/ AppPush
  \/ AppPop
  \/ AppRenew
  \/ Frame /\ UNCHANGED gatewayVars
  \/ Tick /\ UNCHANGED gatewayVars

GatewaySpec == GatewayInit /\ [][GatewayNext]_<<vars, gatewayVars>>

-----------------------------------------------------------------------------
(* What apps put above everything a gateway may ask for. *)
Alert(s) == s.id \notin ConsoleId /\ s.kind.priority > MaxGatewayPriority

(* Nothing a console sends, at whatever priority, can take an alert off    *)
(* the lights: an alert renders exactly if there is room for it beside the *)
(* alerts above it (gateway.rs: a gateway that could outrank a smoke alarm *)
(* indicator is a gateway that can hide it).                               *)
ConsolesHideNoAlert ==
  \A s \in active : Alert(s) =>
    LET above == {o \in active : Alert(o) /\ o.id \in admitted /\ Outranks(o, s)}
    IN  s.id \in admitted <=> Fits(above, s)

(* A binding that is lowered or taken away has its effect a lease later at *)
(* the latest, though nobody takes down what its console already pushed:   *)
(* no frame then shows a console above the ceiling it has now.             *)
CeilingTakesHold ==
  framed /\ now >= changedAt + DefaultLease =>
    \A s \in active : s.id \in ConsoleId =>
      \E b \in bindings : b.id = s.id /\ s.kind.priority <= b.ceiling
=============================================================================
