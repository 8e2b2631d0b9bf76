---------------------------- MODULE MCSourceStack ----------------------------
(* Instances of SourceStack and GatewayStack for TLC. *)
EXTENDS GatewayStack

As(priority, cost, fadeIn, fadeOut) ==
  [priority |-> priority, cost |-> cost, fadeIn |-> fadeIn, fadeOut |-> fadeOut]

(* A scene at the ambient floor, a show that takes the whole budget, an    *)
(* alert, and something that no budget can pay.                            *)
AppKinds == {As(0, 1, 0, 0), As(1, 3, 1, 1), As(2, 1, 0, 1), As(2, 4, 0, 0)}

ConsoleKinds == {As(0, 0, 0, 0), As(1, 0, 0, 0)}

AllKinds == AppKinds \cup ConsoleKinds

(* Bindings of console 3: as high as may be, lowered, and too high. *)
Bindings == [id : {3}, pixels : {<<1, 3>>}, ceiling : {0, 1, 3}]

(* A console that asks for the highest priority there is. *)
LoudFrames == {[offset |-> 0, count |-> 4, priority |-> 3]}
=============================================================================
