------------------------------ MODULE SimClock ------------------------------
(***************************************************************************)
(* The clock of a simulated device (clock.rs): it runs at a rate of its    *)
(* own, works off corrections gradually, and never reads less than before. *)
(***************************************************************************)
EXTENDS Integers, FiniteSetsExt

CONSTANTS
  Million,   \* the unit of rates: parts per so many
  SlewPpm,   \* how much of the time may be corrected
  OwedMax    \* i64::MAX, at which a correction saturates

ASSUME ClockAssumption ==
  /\ Million \in Nat \ {0} /\ SlewPpm \in Nat
  /\ OwedMax \in Nat

Magnitude(x) == IF x < 0 THEN -x ELSE x
Smaller(a, b) == IF a < b THEN a ELSE b
Larger(a, b) == IF a > b THEN a ELSE b

(* Division as the machine does it, towards zero. *)
Quotient(a, b) == IF a < 0 THEN -((-a) \div b) ELSE a \div b

Saturate(x) == Larger(-OwedMax, Smaller(OwedMax, x))

NewClock(skew, drift) ==
  [local |-> 0, skew |-> skew, drift |-> drift, owed |-> 0, absorbed |-> 0, reported |-> 0]

(* Variant: the whole allowance is used, owed or not. *)
SlewStepBlind(c, delta) ==
  LET allowed == (delta * SlewPpm) \div Million
  IN  IF c.owed < 0 THEN -allowed ELSE allowed

(* Variant: time must not go back, so a correction backwards waits. *)
SlewStepForward(c, delta) ==
  IF c.owed < 0 THEN 0 ELSE Smaller((delta * SlewPpm) \div Million, c.owed)

(* How much of what is owed is absorbed in so much time. *)
SlewStep(c, delta) ==
  LET step == Smaller((delta * SlewPpm) \div Million, Magnitude(c.owed))
  IN  IF c.owed < 0 THEN -step ELSE step

Advanced(c, delta) ==
  [c EXCEPT !.local = @ + delta + Quotient(delta * c.drift, Million),
            !.owed = @ - SlewStep(c, delta),
            !.absorbed = @ + SlewStep(c, delta)]

(* Reading the clock is what makes a value the least to be reported next. *)
ReadClock(c) ==
  [c EXCEPT !.reported = Larger(@, Larger(0, c.local + c.skew + c.absorbed))]

Disciplined(c, offset) == [c EXCEPT !.owed = Saturate(@ + offset)]
=============================================================================
