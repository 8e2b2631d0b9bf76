-------------------------------- MODULE Zones --------------------------------
(***************************************************************************)
(* The zones of one device (zones.rs): which of its LEDs each zone covers, *)
(* and when that is worked out again while somebody carries the device     *)
(* around and somebody else edits the zones.                               *)
(*                                                                         *)
(* A point stands for world coordinates and a geometric predicate for the  *)
(* set of points where it holds.  An LED is as far from the root of the    *)
(* device as its index says.                                               *)
(***************************************************************************)
EXTENDS Integers

CONSTANTS
  Led,       (* the LEDs of the device, by index                           *)
  Site,      (* where the root of the device may be                        *)
  Device,    (* devices a clause may name                                  *)
  Self,      (* the one that resolves its zones                            *)
  ZoneId,    (* the zone records                                           *)
  Selector,  (* what they may select                                       *)
  Settle     (* how long a device must lie still: SETTLE_US                *)

Point == {site + led : site \in Site, led \in Led}
Clause ==
  [type : {"device"}, device : Device, leds : SUBSET Led]
    \cup [type : {"where"}, points : SUBSET Point]

ASSUME ZonesAssumption ==
  /\ Led \subseteq Nat /\ Site \subseteq Nat
  /\ Self \in Device
  /\ Selector \subseteq [include : SUBSET Clause, exclude : SUBSET Clause]
  /\ Settle \in Nat \ {0}

VARIABLES
  site,      (* where the device is, or believes to be                     *)
  quality,   (* how much its coordinates can be trusted                    *)
  zone,      (* what each zone selects                                     *)
  pending,   (* something changed that membership depends on               *)
  due,       (* how long until it is worked out again                      *)
  members,   (* the LEDs each zone covered when that was last done         *)
  still      (* how long the device has not been moved or mapped, up to    *)
             (* Settle (for the properties only)                           *)

placeVars == <<site, quality, zone>>
settlingVars == <<pending, due>>
zoneVars == <<placeVars, settlingVars, members, still>>

MapQuality == {"synthetic", "rough", "mapped"}

-----------------------------------------------------------------------------
(***************************************************************************)
(* Zone::resolve.                                                          *)
(***************************************************************************)
(* Naming a device selects it wherever it is; a geometric clause selects   *)
(* only a device whose coordinates mean something.                         *)
Matches(c, at, q, led) ==
  \/ c.type = "device" /\ c.device = Self /\ led \in c.leds
  \/ c.type = "where" /\ q # "synthetic" /\ at + led \in c.points

Resolve(s, at, q) ==
  {led \in Led : /\ \E c \in s.include : Matches(c, at, q, led)
                 /\ ~ \E c \in s.exclude : Matches(c, at, q, led)}

(* What the zones cover now. *)
Covered == [z \in ZoneId |-> Resolve(zone[z], site, quality)]

(* Variant: what the zone excludes is forgotten. *)
ExcludedByIncludes(z) ==
  /\ quality = "synthetic"
  /\ Covered[z] = {}
  /\ \E led \in Led, c \in zone[z].include : Matches(c, site, "mapped", led)

(* excluded_for_mapping: the app may say so. *)
ExcludedForMapping(z) ==
  /\ quality = "synthetic"
  /\ Covered[z] = {}
  /\ Resolve(zone[z], site, "mapped") # {}

-----------------------------------------------------------------------------
(***************************************************************************)
(* Settling.                                                               *)
(***************************************************************************)
ZonesInit ==
  /\ site \in Site
  /\ quality \in MapQuality
  /\ zone \in [ZoneId -> Selector]
  /\ pending = FALSE
  /\ due = 0
  /\ members = Covered
  /\ still = Settle

(* Variant: the latest cause sets the deadline. *)
TouchLatest(wait) ==
  /\ pending' = TRUE
  /\ due' = wait

(* The later deadline wins. *)
Touch(wait) ==
  /\ pending' = TRUE
  /\ due' = IF pending /\ due > wait THEN due ELSE wait

RootMoved(s) ==
  /\ site' = s
  /\ Touch(Settle)
  /\ still' = 0
  /\ UNCHANGED <<quality, zone, members>>

(* Variant: only a better mapping is worth a thought. *)
MappingImproved(q, s) ==
  /\ quality' = q
  /\ site' = s
  /\ IF q = "synthetic" THEN UNCHANGED settlingVars ELSE Touch(Settle)
  /\ still' = 0
  /\ UNCHANGED <<zone, members>>

(* A mapping session changes how good the coordinates are, and the         *)
(* coordinates.                                                            *)
MappingChanged(q, s) ==
  /\ quality' = q
  /\ site' = s
  /\ Touch(Settle)
  /\ still' = 0
  /\ UNCHANGED <<zone, members>>

(* Variant: an edit waits like a move. *)
ZoneWaits(z, s) ==
  /\ zone' = [zone EXCEPT ![z] = s]
  /\ Touch(Settle)
  /\ UNCHANGED <<site, quality, members, still>>

(* Somebody's deliberate act: it applies at once, unless a move is on. *)
ZoneChanged(z, s) ==
  /\ zone' = [zone EXCEPT ![z] = s]
  /\ Touch(0)
  /\ UNCHANGED <<site, quality, members, still>>

IsDue == pending /\ due = 0

(* The device resolves its zones and settles. *)
Settled ==
  /\ IsDue
  /\ members' = Covered
  /\ pending' = FALSE
  /\ due' = 0
  /\ UNCHANGED <<placeVars, still>>

Elapse ==
  /\ due' = IF due > 0 THEN due - 1 ELSE 0
  /\ still' = IF still < Settle THEN still + 1 ELSE Settle
  /\ UNCHANGED <<placeVars, pending, members>>

ZonesNext ==
  \/ \E s \in Site : RootMoved(s)
  \/ \E q \in MapQuality, s \in Site : MappingChanged(q, s)
  \/ \E z \in ZoneId, s \in Selector : ZoneChanged(z, s)
  \/ Settled
  \/ Elapse

(* The device wakes when work is due (due_at), and time passes. *)
ZonesSpec ==
  ZonesInit /\ [][ZonesNext]_zoneVars /\ WF_zoneVars(Settled) /\ WF_zoneVars(Elapse)

-----------------------------------------------------------------------------
(* Types; what is pending is not due before the device has lain still.     *)
ZonesTypeOK ==
  /\ site \in Site
  /\ quality \in MapQuality
  /\ zone \in [ZoneId -> Selector]
  /\ pending \in BOOLEAN
  /\ due \in 0 .. Settle
  /\ members \in [ZoneId -> SUBSET Led]
  /\ still \in 0 .. Settle
  /\ still < Settle => pending /\ due + still >= Settle

(* A device with nothing pending covers exactly what its zones say: no     *)
(* change of place, of mapping or of a record is forgotten, whichever      *)
(* came in the middle of which.                                            *)
NothingForgotten == ~ pending => members = Covered

(* The membership of a device never changes while it is being moved, not   *)
(* even because somebody edits a zone meanwhile (zones.rs:108).            *)
NoFlicker == [][members' # members => still = Settle]_zoneVars

(* Edits are shown in the end, even if they never stop coming; only a      *)
(* device that is moved again and again may wait for ever.                 *)
EditsAreShown ==
  <>[][UNCHANGED still \/ still' # 0]_zoneVars => []<>(~ pending)

(* The app's explanation is right: confirming the place of a settled       *)
(* device lights a zone that was dark on it if, and only if, the device    *)
(* said that this was the reason.                                          *)
DarkIsExplained ==
  [][~ pending /\ MappingChanged("mapped", site) =>
       \A z \in ZoneId : quality = "synthetic" /\ members[z] = {} =>
         (ExcludedForMapping(z) <=> Covered[z]' # {})]_zoneVars
=============================================================================
