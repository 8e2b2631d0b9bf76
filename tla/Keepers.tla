------------------------------ MODULE Keepers ------------------------------
(***************************************************************************)
(* Which devices keep the records (keepers.rs): the same ranking of the    *)
(* peer table on every device, with no message exchanged.                  *)
(*                                                                         *)
(* A device ranks its table where it lies, so the table is a sequence and  *)
(* to select is to sort it.                                                *)
(***************************************************************************)
EXTENDS Integers, FiniteSets, Sequences, Sorted

CONSTANT MaxKeepers  \* how many keepers a mesh runs

ASSUME KeepersAssumption == MaxKeepers \in Nat \ {0}

Claim == [uuid : Int, flash : Nat, capacity : Nat, eligible : BOOLEAN]

(* Variant: claims that agree in flash and capacity are left as they lie. *)
RanksAboveUntied(c, d) ==
  \/ c.eligible /\ ~d.eligible
  \/ /\ c.eligible = d.eligible
     /\ \/ c.flash > d.flash
        \/ c.flash = d.flash /\ c.capacity > d.capacity

(* The better claim: may keep at all, most flash, most capacity, then the  *)
(* lower uuid.                                                             *)
RanksAbove(c, d) ==
  \/ c.eligible /\ ~d.eligible
  \/ /\ c.eligible = d.eligible
     /\ \/ c.flash > d.flash
        \/ /\ c.flash = d.flash
           /\ \/ c.capacity > d.capacity
              \/ c.capacity = d.capacity /\ c.uuid < d.uuid

(* What select makes of the table, and how many of it are keepers.  Claims *)
(* that neither is above the other stay in the order they had.             *)
SortedClaims(claims) ==
  LET above(i, j) == \/ RanksAbove(claims[i], claims[j])
                     \/ ~RanksAbove(claims[j], claims[i]) /\ i < j
      order == InOrder(DOMAIN claims, above)
  IN  [k \in DOMAIN claims |-> claims[order[k]]]

KeeperCount(claims) ==
  LET eligible == Cardinality({i \in DOMAIN claims : claims[i].eligible})
  IN  IF eligible < MaxKeepers THEN eligible ELSE MaxKeepers

SelectKeepers(claims) == SubSeq(SortedClaims(claims), 1, KeeperCount(claims))

QuorumOf(count) ==
  CASE count = 0 -> "none"
    [] count = 1 -> "fragile"
    [] count = 2 -> "thin"
    [] OTHER -> "healthy"

IsKeeper(claims, me) ==
  \E i \in DOMAIN SelectKeepers(claims) : SelectKeepers(claims)[i].uuid = me

-----------------------------------------------------------------------------
(* What the mesh relies on, said without an order of the table: a keeper   *)
(* may keep, and fewer than MaxKeepers of those that may rank above it.    *)
Above(S, c) == {d \in S : d.eligible /\ RanksAbove(d, c)}

Chosen(S) == {c \in S : c.eligible /\ Cardinality(Above(S, c)) < MaxKeepers}
=============================================================================
