----------------------------- MODULE SimStorage -----------------------------
(***************************************************************************)
(* The flash of a simulated device (storage.rs): a few keys, each with a   *)
(* value of some length, under a capacity that counts keys and values.     *)
(***************************************************************************)
EXTENDS Integers, Functions

CONSTANTS
  Key,         \* keys, all of length KeyLen
  KeyLen,
  MaxValueLen,
  Capacity     \* of the partition

ASSUME StorageAssumption ==
  /\ KeyLen \in Nat /\ MaxValueLen \in Nat /\ Capacity \in Nat

Blank == [entries |-> <<>>, used |-> 0]

EntryCost(len) == KeyLen + len
OldCost(s, k) == IF k \in DOMAIN s.entries THEN EntryCost(s.entries[k]) ELSE 0

(* Variant: overwriting counts as adding. *)
ProjectedAdding(s, k, len) == s.used + EntryCost(len)

Projected(s, k, len) == s.used - OldCost(s, k) + EntryCost(len)

(* A value that is too long, or does not fit, changes nothing. *)
Written(s, k, len) ==
  IF len <= MaxValueLen /\ Projected(s, k, len) <= Capacity
  THEN [entries |-> [j \in DOMAIN s.entries \cup {k} |-> IF j = k THEN len ELSE s.entries[j]],
        used |-> Projected(s, k, len)]
  ELSE s

Erased(s, k) ==
  [entries |-> Restrict(s.entries, DOMAIN s.entries \ {k}),
   used |-> s.used - OldCost(s, k)]

Content(s) == SumFunction([k \in DOMAIN s.entries |-> EntryCost(s.entries[k])])
=============================================================================
