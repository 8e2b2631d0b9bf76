---------------------------- MODULE ZoneGeometry ----------------------------
(***************************************************************************)
(* What a zone selects on one device, and where each LED of it sits in its *)
(* zone: the arithmetic of zones.rs that Zones leaves out.                 *)
(*                                                                         *)
(* A number is the raw form of a fixed-point one, One times its value.     *)
(* Limits of the range of Q16 are left out: coordinates are small.         *)
(***************************************************************************)
EXTENDS Integers, FiniteSets, SequencesExt

CONSTANTS
  One,      \* the raw form of 1
  Nesting   \* bound: how deep a predicate is nested

ASSUME GeometryAssumption == One \in Nat \ {0} /\ Nesting \in Nat

Smaller(a, b) == IF a < b THEN a ELSE b
Larger(a, b) == IF a > b THEN a ELSE b
Abs(a) == IF a < 0 THEN -a ELSE a
Clamp(a) == Smaller(Larger(a, 0), One)

(* The arithmetic of Q16: products and quotients are cut off. *)
Mul(a, b) == (a * b) \div One
Div(a, b) == IF b > 0 THEN (a * One) \div b ELSE (-a * One) \div (-b)

(* The length of a vector, cut off to the raw grid. *)
Length(x, y, z) ==
  LET sq == x * x + y * y + z * z
  IN  CHOOSE r \in 0..(Abs(x) + Abs(y) + Abs(z)) : r * r <= sq /\ sq < (r + 1) * (r + 1)

(* The angle of a direction in turns: in place of the arctangent, a        *)
(* quarter turn is run through along the diagonal, which keeps the order.  *)
Turns(a, b) ==
  LET s == Abs(a) + Abs(b)
  IN  CASE s = 0 -> 0
        [] a > 0 /\ b >= 0 -> (b * One) \div (4 * s)
        [] a <= 0 /\ b > 0 -> One \div 4 + ((-a) * One) \div (4 * s)
        [] a < 0 /\ b <= 0 -> One \div 2 + ((-b) * One) \div (4 * s)
        [] OTHER -> (3 * One) \div 4 + (a * One) \div (4 * s)

-----------------------------------------------------------------------------
(* A device: [device, quality, leds], its LEDs in any order; an LED:       *)
(* [index, world], with world a triple.                                    *)
IsTrustworthy(quality) == quality \in {"rough", "mapped"}

AxisOf(axis, p) == CASE axis = "x" -> p[1] [] axis = "y" -> p[2] [] OTHER -> p[3]

CmpHolds(op, a, b) ==
  CASE op = "lt" -> a < b [] op = "le" -> a <= b [] op = "gt" -> a > b [] OTHER -> a >= b

Distance(p, q) == Length(p[1] - q[1], p[2] - q[2], p[3] - q[3])

(* A tree and all that is nested in it. *)
Nested(tree, Branches(_)) ==
  LET level[d \in 0..Nesting] ==
        IF d = 0 THEN {tree} ELSE UNION {Branches(t) : t \in level[d - 1]}
  IN  UNION {level[d] : d \in 0..Nesting}

(* A predicate says by its field `type' what it is. *)
PartsOf(p) ==
  IF "of" \in DOMAIN p THEN Range(p.of) ELSE IF "part" \in DOMAIN p THEN {p.part} ELSE {}

PredicateHolds(p, world) ==
  LET holds[q \in Nested(p, PartsOf)] ==
        CASE q.type = "compare" -> CmpHolds(q.op, AxisOf(q.axis, world), q.value)
          [] q.type = "near" -> Distance(world, q.point) < q.radius
          [] q.type = "all" -> \A i \in DOMAIN q.of : holds[q.of[i]]
          [] q.type = "any" -> \E i \in DOMAIN q.of : holds[q.of[i]]
          [] OTHER -> ~holds[q.part]
  IN  holds[p]

(* A clause names a device, all of it or the LEDs from..(to - 1), or tests *)
(* where an LED is.                                                        *)
ClauseMatches(c, dev, led) ==
  \/ /\ c.type = "device"
     /\ c.device = dev.device
     /\ c.leds # <<>> => c.leds[1] <= led.index /\ led.index < c.leds[2]
  \/ /\ c.type = "where"
     /\ IsTrustworthy(dev.quality)
     /\ PredicateHolds(c.test, led.world)

(* The smallest box around some LEDs; it has no meaning around none. *)
BoundsOf(leds) ==
  LET at(k) == {leds[i].world[k] : i \in DOMAIN leds}
      least(S) == CHOOSE a \in S : \A b \in S : a <= b
      most(S) == CHOOSE a \in S : \A b \in S : a >= b
  IN  IF leds = <<>> THEN [count |-> 0]
      ELSE [min |-> [k \in 1..3 |-> least(at(k))],
            max |-> [k \in 1..3 |-> most(at(k))],
            count |-> Len(leds)]

Selects(zone, dev, led) ==
  /\ \E i \in DOMAIN zone.include : ClauseMatches(zone.include[i], dev, led)
  /\ ~ \E i \in DOMAIN zone.exclude : ClauseMatches(zone.exclude[i], dev, led)

(* The members of a zone, in the order the device lists its LEDs. *)
MembersOf(zone, dev) ==
  LET among[n \in 0..Len(dev.leds)] ==
        IF n = 0 THEN <<>>
        ELSE IF Selects(zone, dev, dev.leds[n]) THEN Append(among[n - 1], dev.leds[n])
        ELSE among[n - 1]
  IN  among[Len(dev.leds)]

ResolveZone(zone, dev) ==
  LET members == MembersOf(zone, dev)
  IN  [leds |-> [i \in DOMAIN members |-> members[i].index],
       bounds |-> BoundsOf(members)]

WhyExcluded(zone, dev) ==
  /\ ~IsTrustworthy(dev.quality)
  /\ MembersOf(zone, dev) = <<>>
  /\ MembersOf(zone, [dev EXCEPT !.quality = "mapped"]) # <<>>

-----------------------------------------------------------------------------
(* The first is 0, the last is 1. *)
Fraction(ordinal, count) ==
  IF count <= 1 THEN 0 ELSE Clamp((ordinal * One) \div (count - 1))

(* Nothing is told apart where there is no extent. *)
Normalised(value, lo, hi) == IF hi = lo THEN 0 ELSE Clamp(Div(value - lo, hi - lo))

Dot(p, v) == Mul(p[1], v[1]) + Mul(p[2], v[2]) + Mul(p[3], v[3])

(* Variant: the ends of the box are taken in the order they are stored. *)
AlongVectorUnordered(v, world, bounds) ==
  Normalised(Dot(world, v), Dot(bounds.min, v), Dot(bounds.max, v))

(* Along a vector, between what it makes of two corners of the box. *)
AlongVector(v, world, bounds) ==
  LET lo == Dot(bounds.min, v)
      hi == Dot(bounds.max, v)
  IN  Normalised(Dot(world, v), Smaller(lo, hi), Larger(lo, hi))

(* From a point, as a share of the way to the far corner of the box. *)
FromPoint(p, world, bounds) ==
  LET reach == [k \in 1..3 |-> Larger(Abs(bounds.max[k] - p[k]), Abs(bounds.min[k] - p[k]))]
  IN  Normalised(Distance(world, p), 0, Length(reach[1], reach[2], reach[3]))

Centre(bounds) == [k \in 1..3 |-> Mul(bounds.min[k] + bounds.max[k], One \div 2)]

(* Around an axis through the middle of the box, in turns. *)
AroundAxis(axis, world, bounds) ==
  LET d == [k \in 1..3 |-> world[k] - Centre(bounds)[k]]
  IN  (CASE axis = "x" -> Turns(d[2], d[3])
         [] axis = "y" -> Turns(d[3], d[1])
         [] OTHER -> Turns(d[1], d[2])) % One

(* Row by row; what does not fit is put on the last row. *)
GridCell(width, height, ordinal) ==
  LET w == Larger(width, 1)
      h == Larger(height, 1)
  IN  <<Fraction(ordinal % w, w), Fraction(Smaller(ordinal \div w, h - 1), h)>>

(* Projection::project: where the LED that comes at `ordinal' among the    *)
(* members sits.                                                           *)
Projected(pr, world, bounds, ordinal) ==
  [u |-> CASE pr.type = "axis" -> AlongVector(pr.vector, world, bounds)
           [] pr.type = "radial" -> FromPoint(pr.point, world, bounds)
           [] pr.type = "angle" -> AroundAxis(pr.axis, world, bounds)
           [] OTHER -> Fraction(ordinal, bounds.count),
   uv |-> IF pr.type = "grid" THEN GridCell(pr.width, pr.height, ordinal) ELSE <<>>]
=============================================================================
