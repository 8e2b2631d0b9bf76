------------------------------- MODULE Shards -------------------------------
(***************************************************************************)
(* A frame rendered on several cores (render.rs): each core has a renderer *)
(* of its own and a run of the LEDs, its shard, and writes its own slice   *)
(* of the output.  Beside them the same frames are rendered whole, by one  *)
(* core, which is what the shards are compared with.                       *)
(*                                                                         *)
(* What a program computes for a pixel is abstracted to what it depends    *)
(* on: the place of the LED in the membership and the history of this      *)
(* source on this LED.  Whether it faults there is chosen, and the same on *)
(* whichever core: a program is a pure function.                           *)
(***************************************************************************)
EXTENDS Integers, FiniteSets, Sequences, SequencesExt

CONSTANTS
  Cores,       \* how many cores the device has
  Whole,       \* the one core of the device it is compared with
  Strip,       \* how many LEDs both have
  Source,
  Coverings,   \* what the sources may cover, each in the order of resolve
  Faults,      \* which programs fault in a frame: as a whole, on a pixel
  MaxLayers,   \* bound: layers of one frame
  Trail        \* bound: histories are told apart modulo Trail

Led == 0 .. (Strip - 1)
Core == 0 .. (Cores - 1)
Renderer == Core \cup {Whole}

ASSUME ShardsAssumption ==
  /\ Cores \in Nat \ {0} /\ Strip \in Nat
  /\ Whole \notin Int
  /\ Coverings \subseteq [Source -> Seq(Led)]
  /\ Faults \subseteq [frame : SUBSET Source, pixel : SUBSET (Source \X Led)]
  /\ MaxLayers \in Nat
  /\ Trail \in Nat \ {0}

(* One source in a frame: painted solid, or mixed with what is underneath  *)
(* while it fades in or out.                                               *)
Layer == [source : Source, shown : {"solid", "in", "out"}]

(* The admitted sources, then those that fade out. *)
Layers ==
  {ls \in UNION {[1 .. n -> Layer] : n \in 1 .. MaxLayers} :
     \A i \in DOMAIN ls : \A j \in (i + 1) .. Len(ls) :
       /\ ls[i].shown = "out" => ls[j].shown = "out"
       /\ ls[i].source = ls[j].source
            => ls[i].shown # "out" /\ ls[j].shown = "out"}

NoFault == [frame |-> {}, pixel |-> {}]

VARIABLES
  layers,   \* the layers of this frame, bottom to top; none between frames
  covers,   \* what each source covers
  fault,    \* what faults in this frame
  todo,     \* renderers that have not rendered this frame yet
  out,      \* the buffer of either device: what was mixed into each LED
  report,   \* the sources that rendered, merged over the cores
  trail,    \* the history each renderer keeps of each source on each LED
  tainted   \* sources that faulted on a pixel since they were forgotten
            \* (for the properties only)

frameVars == <<layers, covers, fault>>
shardVars == <<frameVars, todo, out, report, trail, tainted>>

-----------------------------------------------------------------------------
Base == Strip \div Cores
Extra == Strip % Cores

(* Variant: the remainder is forgotten. *)
CountEven(core) == Base

(* The remainder goes to the earlier shards. *)
Count(core) == Base + (IF core < Extra THEN 1 ELSE 0)
Start(core) == core * Base + (IF core < Extra THEN core ELSE Extra)

Holds(core, led) == led >= Start(core) /\ led < Start(core) + Count(core)

Owned(r) == IF r = Whole THEN Led ELSE {led \in Led : Holds(r, led)}

(* Variant: a shard counts the LEDs it renders. *)
PlaceInShard(r, s, led) ==
  LET mine == SelectSeq(covers[s], LAMBDA l : l \in Owned(r))
  IN  IF led \in ToSet(mine) THEN CHOOSE k \in DOMAIN mine : mine[k] = led ELSE 0

(* The ordinal of an LED on any core counts the whole membership. *)
Place(r, s, led) ==
  IF led \in ToSet(covers[s])
  THEN CHOOSE k \in DOMAIN covers[s] : covers[s][k] = led
  ELSE 0

Before(s, led) ==
  {l \in ToSet(covers[s]) : Place(Whole, s, l) <= Place(Whole, s, led)}

(* A source paints an LED unless its program faults in the frame section   *)
(* or on this pixel, or did on an earlier pixel of this core.              *)
Lands(r, s, led) ==
  /\ led \in Owned(r) \cap ToSet(covers[s])
  /\ s \notin fault.frame
  /\ \A l \in Before(s, led) \cap Owned(r) : <<s, l>> \notin fault.pixel

(* What a source did on an LED is the `prev' of what it does next, also in *)
(* the next layer when it fades out under its own successor.               *)
Strokes(r, s, led, n) ==
  Cardinality({k \in 1 .. n : layers[k].source = s /\ Lands(r, s, led)})
Prev(r, s, led, n) == (trail[r][led][s] + Strokes(r, s, led, n)) % Trail

Nothing == [shown |-> "not"]
Paints(r, led) ==
  [k \in DOMAIN layers |->
     LET s == layers[k].source
     IN  IF ~ Lands(r, s, led) THEN Nothing
         ELSE [source |-> s, shown |-> layers[k].shown,
               place |-> Place(r, s, led), prev |-> Prev(r, s, led, k - 1)]]

(* A layer replaces what is underneath, is mixed with it (a fade at full   *)
(* strength counts as a mix), or leaves it.                                *)
Over(colour, paint) ==
  CASE paint.shown = "not" -> colour
    [] paint.shown = "solid" -> <<paint>>
    [] paint.shown \in {"in", "out"} -> Append(colour, paint)

Mixed(paints, underneath) == FoldLeft(Over, underneath, paints)

Side(r) == IF r = Whole THEN "whole" ELSE "split"

Colour(r, led) == Mixed(Paints(r, led), out[Side(r)][led])

Contributed(r) ==
  {s \in Source : \E k \in DOMAIN layers, led \in Led :
     layers[k].source = s /\ layers[k].shown # "out" /\ Lands(r, s, led)}

-----------------------------------------------------------------------------
Dark == [d \in {"whole", "split"} |-> [led \in Led |-> <<>>]]

ShardsInit ==
  /\ layers = <<>> /\ fault = NoFault
  /\ covers \in Coverings
  /\ todo = {}
  /\ out = Dark
  /\ report = [d \in {"whole", "split"} |-> {}]
  /\ trail = [r \in Renderer |-> [led \in Led |-> [s \in Source |-> 0]]]
  /\ tainted = {}

(* The firmware forgets the sources that left the stack, on every core,    *)
(* and starts a frame over the same picture underneath.                    *)
NewFrame(ls, c, f, gone) ==
  /\ todo = {} /\ layers = <<>>
  /\ layers' = ls /\ covers' = c /\ fault' = f
  /\ todo' = Renderer
  /\ trail' = [r \in Renderer |-> [led \in Led |->
                 [s \in Source |-> IF s \in gone THEN 0 ELSE trail[r][led][s]]]]
  /\ tainted' = (tainted \ gone) \cup {p[1] : p \in f.pixel}
  /\ UNCHANGED <<out, report>>

(* Cores render in any order; the device to compare with comes last. *)
RenderShard(r) ==
  /\ r \in todo
  /\ r = Whole => todo = {Whole}
  /\ todo' = todo \ {r}
  /\ out' = [out EXCEPT ![Side(r)] =
               [led \in Led |-> IF led \in Owned(r) THEN Colour(r, led) ELSE @[led]]]
  /\ trail' = [trail EXCEPT ![r] =
                 [led \in Led |-> [s \in Source |->
                    IF led \in Owned(r) THEN Prev(r, s, led, Len(layers))
                    ELSE @[led][s]]]]
  /\ report' = [report EXCEPT ![Side(r)] = @ \cup Contributed(r)]
  /\ UNCHANGED <<frameVars, tainted>>

(* Both show their frame. *)
Show ==
  /\ todo = {} /\ layers # <<>>
  /\ layers' = <<>> /\ fault' = NoFault
  /\ out' = Dark
  /\ report' = [d \in {"whole", "split"} |-> {}]
  /\ UNCHANGED <<covers, todo, trail, tainted>>

ShardsNext ==
  \/ \E ls \in Layers, c \in Coverings, f \in Faults, gone \in SUBSET Source :
       NewFrame(ls, c, f, gone)
  \/ \E r \in Renderer : RenderShard(r)
  \/ Show

ShardsSpec == ShardsInit /\ [][ShardsNext]_shardVars

-----------------------------------------------------------------------------
(* No source that faulted on a pixel is involved. *)
Clean(led) ==
  \A k \in DOMAIN layers :
    led \in ToSet(covers[layers[k].source]) => layers[k].source \notin tainted

(* Types; a core keeps history of its own LEDs alone, and it is the one    *)
(* core's history of every source that did not fault.                      *)
ShardsTypeOK ==
  /\ layers \in Layers \cup {<<>>} /\ fault \in Faults \cup {NoFault}
  /\ covers \in Coverings
  /\ todo \subseteq Renderer /\ tainted \subseteq Source
  /\ trail \in [Renderer -> [Led -> [Source -> 0 .. (Trail - 1)]]]
  /\ \A core \in Core, led \in Led, s \in Source :
       /\ led \notin Owned(core) => trail[core][led][s] = 0
       /\ led \in Owned(core) /\ s \notin tainted /\ (core \in todo <=> Whole \in todo)
            => trail[core][led][s] = trail[Whole][led][s]

(* A device with many cores shows what one with a single core shows, frame *)
(* after frame, wherever no source that faulted on a pixel is involved,    *)
(* and reports the same sources.                                           *)
SplitIsWhole ==
  todo = {} =>
    /\ \A led \in Led : Clean(led) => out["split"][led] = out["whole"][led]
    /\ \A s \in Source \ tainted : s \in report["split"] <=> s \in report["whole"]

(* Faults or not, no source that renders on one core is lost on many. *)
NothingLost == todo = {} => report["whole"] \subseteq report["split"]
=============================================================================
