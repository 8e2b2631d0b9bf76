------------------------------ MODULE MCZones ------------------------------
(* An instance of Zones for TLC. *)
EXTENDS Zones

Named(leds) == [type |-> "device", device |-> Self, leds |-> leds]
Where(points) == [type |-> "where", points |-> points]

(* Nothing, as a zone that is deleted; the near end of the room; a corner  *)
(* of it and an LED by name; one that takes back all it gives; the device  *)
(* by name but for the far end.                                            *)
Selectors ==
  {[include |-> {}, exclude |-> {}],
   [include |-> {Where({0, 1})}, exclude |-> {}],
   [include |-> {Where({0, 1}), Named({1})}, exclude |-> {Where({1})}],
   [include |-> {Where({0})}, exclude |-> {Named({0, 1})}],
   [include |-> {Named({0, 1})}, exclude |-> {Where({2, 3})}]}
=============================================================================
