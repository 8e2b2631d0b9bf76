------------------------------ MODULE Gateway ------------------------------
(***************************************************************************)
(* The policy for integrations without credentials (gateway.rs): what a    *)
(* binding grants, and what becomes of a frame that asks for more.         *)
(***************************************************************************)
EXTENDS Integers

CONSTANTS
  AmbientFloorMax,     \* the priority of a frame that names none
  MaxGatewayPriority,  \* the highest ceiling a binding may have
  DefaultLease,        \* how long a source of a gateway stays
  PixelMax,            \* the largest pixel number (u16::MAX)
  NoPriority           \* the protocol carries no priority

Lesser(a, b) == IF a < b THEN a ELSE b
Greater(a, b) == IF a > b THEN a ELSE b

Ingress ==
  [offset : 0..PixelMax, count : 0..PixelMax, priority : Nat \cup {NoPriority}]

(* Variant: a binding may name any ceiling. *)
BindingFaultOfRange(b) == IF b.pixels[1] >= b.pixels[2] THEN "empty range" ELSE "none"

(* What is wrong with a binding: the ceiling is looked at first. *)
BindingFault(b) ==
  IF b.ceiling > MaxGatewayPriority THEN "ceiling too high"
  ELSE IF b.pixels[1] >= b.pixels[2] THEN "empty range" ELSE "none"

Covers(b, pixel) == b.pixels[1] <= pixel /\ pixel < b.pixels[2]

(* The pixels a frame gets of those it addresses, half open. *)
GrantedFrom(b, i) == Greater(i.offset, b.pixels[1])
GrantedTo(b, i) == Lesser(Lesser(i.offset + i.count, PixelMax), b.pixels[2])

Refused(b, i) ==
  IF BindingFault(b) # "none" THEN BindingFault(b)
  ELSE IF GrantedFrom(b, i) >= GrantedTo(b, i) THEN "outside binding" ELSE "none"

AskedPriority(i) ==
  IF i.priority = NoPriority THEN AmbientFloorMax ELSE i.priority

(* Variant: the priority is held to the highest ceiling there may be, not  *)
(* to the ceiling of the binding.                                          *)
GrantedUpToHighest(b, i) == Lesser(AskedPriority(i), MaxGatewayPriority)

GrantedPriority(b, i) == Lesser(AskedPriority(i), b.ceiling)

(* Variant: what falls short of the binding is not counted, only what runs *)
(* past it.                                                                *)
ClippedAfter(b, i) == Lesser(i.offset + i.count, PixelMax) - GrantedTo(b, i)

Clipped(b, i) == Greater(i.count - (GrantedTo(b, i) - GrantedFrom(b, i)), 0)

(* What the gateway makes of a frame that it does not refuse: a source of  *)
(* the binding's zone without a scene, a fade or a cost, and always with a *)
(* lease.                                                                  *)
AdmitIngress(b, i, now) ==
  [priority |-> GrantedPriority(b, i), clamped |-> GrantedPriority(b, i) < AskedPriority(i),
   pixels |-> <<GrantedFrom(b, i), GrantedTo(b, i)>>, clipped |-> Clipped(b, i),
   pushedAt |-> now, expires |-> now + DefaultLease]

-----------------------------------------------------------------------------
(* The bindings a gateway holds, one for each id. *)
GatewayBind(held, b) == {o \in held : o.id # b.id} \cup {b}
GatewayUnbind(held, id) == {o \in held : o.id # id}
=============================================================================
