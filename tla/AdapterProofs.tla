---------------------------- MODULE AdapterProofs ----------------------------
(***************************************************************************)
(* Theorems about ConformanceAdapter, for vectors of any requests, and     *)
(* about what it puts them to: the choice of the devices that keep the     *)
(* records (Keepers), for peer tables of any size and any number of        *)
(* keepers, the policy of a gateway (Gateway), for any binding, and the    *)
(* places of the LEDs of a zone (ZoneGeometry), for any LEDs and zone.     *)
(***************************************************************************)
EXTENDS ConformanceAdapter, FoldTheorems, SequenceTheorems

-----------------------------------------------------------------------------
(* The devices that keep the records.                                      *)

(* The claims of one mesh: as many as there are devices. *)
PeerTable(S) ==
  /\ S \subseteq Claim /\ IsFiniteSet(S)
  /\ \A c, d \in S : c.uuid = d.uuid => c = d

LEMMA RanksOneWay ==
  ASSUME NEW c \in Claim, NEW d \in Claim, RanksAbove(c, d)
  PROVE  ~RanksAbove(d, c)
BY DEF Claim, RanksAbove

LEMMA RanksThrough ==
  ASSUME NEW c \in Claim, NEW d \in Claim, NEW e \in Claim,
         RanksAbove(c, d), RanksAbove(d, e)
  PROVE  RanksAbove(c, e)
BY DEF Claim, RanksAbove

LEMMA RanksApart ==
  ASSUME NEW c \in Claim, NEW d \in Claim, c.uuid # d.uuid
  PROVE  RanksAbove(c, d) \/ RanksAbove(d, c)
BY DEF Claim, RanksAbove

(* A claim that is above another is above or below any third. *)
LEMMA RanksBetween ==
  ASSUME NEW c \in Claim, NEW d \in Claim, NEW e \in Claim, RanksAbove(c, e)
  PROVE  RanksAbove(c, d) \/ RanksAbove(d, e)
BY DEF Claim, RanksAbove

(* The ranking leaves nothing open: of two claims of a mesh one is better, *)
(* on whatever device and in whatever order they are compared (keepers.rs: *)
(* every node computes the same answer with no message exchanged).         *)
THEOREM RankingIsTotal ==
  ASSUME NEW S, PeerTable(S)
  PROVE  /\ \A c, d \in S : c # d => (RanksAbove(c, d) <=> ~RanksAbove(d, c))
         /\ \A c, d, e \in S : RanksAbove(c, d) /\ RanksAbove(d, e) => RanksAbove(c, e)
<1>1. ASSUME NEW c \in S, NEW d \in S, c # d
      PROVE  RanksAbove(c, d) <=> ~RanksAbove(d, c)
  <2>1. c \in Claim /\ d \in Claim /\ c.uuid # d.uuid
    BY <1>1 DEF PeerTable
  <2> QED BY <2>1, RanksOneWay, RanksApart
<1>2. ASSUME NEW c \in S, NEW d \in S, NEW e \in S, RanksAbove(c, d), RanksAbove(d, e)
      PROVE  RanksAbove(c, e)
  <2>1. c \in Claim /\ d \in Claim /\ e \in Claim
    BY DEF PeerTable
  <2> QED BY <1>2, <2>1, RanksThrough
<1> QED BY <1>1, <1>2

-----------------------------------------------------------------------------
(* How many stand above a claim. *)
LEMMA AboveIsFinite ==
  ASSUME NEW S, PeerTable(S), NEW c
  PROVE  IsFiniteSet(Above(S, c)) /\ Cardinality(Above(S, c)) \in Nat
<1>1. Above(S, c) \in SUBSET S
  BY DEF Above
<1> QED BY <1>1, FS_Subset, FS_CardinalityType DEF PeerTable

LEMMA LowerHasMoreAbove ==
  ASSUME NEW S, PeerTable(S), NEW c \in S, NEW d \in S,
         c.eligible, RanksAbove(c, d)
  PROVE  Cardinality(Above(S, c)) < Cardinality(Above(S, d))
<1>1. c \in Claim /\ d \in Claim
  BY DEF PeerTable
<1>2. ~RanksAbove(c, c)
  BY <1>1, RanksOneWay
<1>3. Above(S, c) \cup {c} \in SUBSET Above(S, d)
  <2> SUFFICES ASSUME NEW e \in Above(S, c)
               PROVE  e \in Above(S, d)
    BY DEF Above
  <2>1. e \in S /\ e \in Claim /\ e.eligible /\ RanksAbove(e, c)
    BY DEF Above, PeerTable
  <2>2. RanksAbove(e, d)
    BY <1>1, <2>1, RanksThrough
  <2> QED BY <2>1, <2>2 DEF Above
<1>4. c \notin Above(S, c)
  BY <1>2 DEF Above
<1>5. Cardinality(Above(S, c) \cup {c}) = Cardinality(Above(S, c)) + 1
  BY <1>4, AboveIsFinite, FS_AddElement
<1>6. Cardinality(Above(S, c) \cup {c}) <= Cardinality(Above(S, d))
  BY <1>3, AboveIsFinite, FS_Subset
<1> QED BY <1>5, <1>6, AboveIsFinite

LEMMA ChosenAreApart ==
  ASSUME NEW S, PeerTable(S), NEW c \in Chosen(S), NEW d \in Chosen(S), c # d
  PROVE  Cardinality(Above(S, c)) # Cardinality(Above(S, d))
<1>1. c \in S /\ d \in S /\ c.eligible /\ d.eligible
  BY DEF Chosen
<1>2. RanksAbove(c, d) \/ RanksAbove(d, c)
  BY <1>1, RankingIsTotal
<1>3. /\ Cardinality(Above(S, c)) \in Nat
      /\ Cardinality(Above(S, d)) \in Nat
  BY AboveIsFinite
<1> QED BY <1>1, <1>2, <1>3, LowerHasMoreAbove

(* A mesh never runs more keepers than it means to, however large it is.   *)
THEOREM KeepersAreFew ==
  ASSUME NEW S, PeerTable(S)
  PROVE  IsFiniteSet(Chosen(S)) /\ Cardinality(Chosen(S)) <= MaxKeepers
<1> DEFINE rank == [c \in Chosen(S) |-> Cardinality(Above(S, c))]
           Places == 0 .. MaxKeepers - 1
<1>1. rank \in [Chosen(S) -> Places]
  <2> SUFFICES ASSUME NEW c \in Chosen(S)
               PROVE  Cardinality(Above(S, c)) \in Places
    OBVIOUS
  <2>1. Cardinality(Above(S, c)) < MaxKeepers
    BY DEF Chosen
  <2> QED BY <2>1, AboveIsFinite, KeepersAssumption
<1>2. \A c, d \in Chosen(S) : rank[c] = rank[d] => c = d
  BY ChosenAreApart
<1>3. rank \in Injection(Chosen(S), Places)
  BY <1>1, <1>2 DEF Injection, IsInjective
<1>4. IsFiniteSet(Places) /\ Cardinality(Places) = MaxKeepers
  BY KeepersAssumption, FS_Interval
<1> HIDE DEF rank, Places
<1> QED BY <1>3, <1>4, FS_Injection

-----------------------------------------------------------------------------
(* A device that joins takes at most one keeper's place: nobody becomes a  *)
(* keeper but the newcomer, and of those that were at most one is not any  *)
(* more, so the others' copies stay where they are.                        *)
THEOREM JoinMovesOne ==
  ASSUME NEW S, NEW x, PeerTable(S), PeerTable(S \cup {x})
  PROVE  /\ Chosen(S \cup {x}) \subseteq Chosen(S) \cup {x}
         /\ \A c, d \in Chosen(S) \ Chosen(S \cup {x}) : c = d
<1> DEFINE T == S \cup {x}
<1>1. ASSUME NEW c
      PROVE  /\ Above(S, c) \in SUBSET Above(T, c)
             /\ Above(T, c) \in SUBSET (Above(S, c) \cup {x})
  BY DEF Above
<1>2. ASSUME NEW c
      PROVE  /\ Cardinality(Above(S, c)) \in Nat
             /\ Cardinality(Above(T, c)) \in Nat
             /\ Cardinality(Above(S, c)) <= Cardinality(Above(T, c))
             /\ Cardinality(Above(T, c)) <= Cardinality(Above(S, c)) + 1
  <2>1. /\ IsFiniteSet(Above(S, c)) /\ Cardinality(Above(S, c)) \in Nat
        /\ IsFiniteSet(Above(T, c)) /\ Cardinality(Above(T, c)) \in Nat
    BY AboveIsFinite
  <2>2. Cardinality(Above(S, c)) <= Cardinality(Above(T, c))
    BY <1>1, <2>1, FS_Subset
  <2>3. /\ IsFiniteSet(Above(S, c) \cup {x})
        /\ Cardinality(Above(S, c) \cup {x}) <= Cardinality(Above(S, c)) + 1
    <3>1. Cardinality(Above(S, c) \cup {x}) =
          IF x \in Above(S, c) THEN Cardinality(Above(S, c)) ELSE Cardinality(Above(S, c)) + 1
      BY <2>1, FS_AddElement, Zenon
    <3>2. IsFiniteSet(Above(S, c) \cup {x})
      BY <2>1, FS_AddElement, Zenon
    <3> QED BY <2>1, <3>1, <3>2
  <2>4. Cardinality(Above(T, c)) <= Cardinality(Above(S, c) \cup {x})
    BY <1>1, <2>3, FS_Subset
  <2>5. Cardinality(Above(S, c) \cup {x}) \in Nat
    BY <2>3, FS_CardinalityType
  <2> QED BY <2>1, <2>2, <2>3, <2>4, <2>5
<1>3. Chosen(T) \subseteq Chosen(S) \cup {x}
  <2> SUFFICES ASSUME NEW c \in Chosen(T), c # x
               PROVE  c \in Chosen(S)
    OBVIOUS
  <2>1. c \in S /\ c.eligible /\ Cardinality(Above(T, c)) < MaxKeepers
    BY DEF Chosen
  <2>2. /\ Cardinality(Above(S, c)) \in Nat
        /\ Cardinality(Above(T, c)) \in Nat
        /\ Cardinality(Above(S, c)) <= Cardinality(Above(T, c))
    BY <1>2, Zenon
  <2>3. Cardinality(Above(S, c)) < MaxKeepers
    BY <2>1, <2>2, KeepersAssumption
  <2> QED BY <2>1, <2>3 DEF Chosen
<1>4. ASSUME NEW c \in Chosen(S) \ Chosen(T)
      PROVE  Cardinality(Above(S, c)) = MaxKeepers - 1
  <2>1. /\ c \in S /\ c.eligible
        /\ Cardinality(Above(S, c)) < MaxKeepers
        /\ ~(Cardinality(Above(T, c)) < MaxKeepers)
    BY <1>4 DEF Chosen
  <2> QED BY <1>2, <2>1, KeepersAssumption
<1>5. \A c, d \in Chosen(S) \ Chosen(T) : c = d
  BY <1>4, ChosenAreApart
<1> QED BY <1>3, <1>5

-----------------------------------------------------------------------------
(* The table as a device has it, in whatever order.                        *)

(* One claim comes before another where it ranks above it, or neither does *)
(* and it lies before it.                                                  *)
LiesAbove(claims, i, j) ==
  \/ RanksAbove(claims[i], claims[j])
  \/ ~RanksAbove(claims[j], claims[i]) /\ i < j

LEMMA TableHasOrder ==
  ASSUME NEW claims \in Seq(Claim)
  PROVE  /\ \A i \in DOMAIN claims : ~LiesAbove(claims, i, i)
         /\ \A i, j \in DOMAIN claims : i # j => LiesAbove(claims, i, j) \/ LiesAbove(claims, j, i)
         /\ \A i, j, k \in DOMAIN claims :
              LiesAbove(claims, i, j) /\ LiesAbove(claims, j, k) => LiesAbove(claims, i, k)
<1>1. \A i \in DOMAIN claims : i \in Int /\ claims[i] \in Claim
  OBVIOUS
<1>2. ASSUME NEW i \in DOMAIN claims PROVE ~LiesAbove(claims, i, i)
  BY <1>1 DEF LiesAbove, RanksAbove, Claim
<1>3. ASSUME NEW i \in DOMAIN claims, NEW j \in DOMAIN claims, i # j
      PROVE  LiesAbove(claims, i, j) \/ LiesAbove(claims, j, i)
  BY <1>1, <1>3 DEF LiesAbove
<1>4. ASSUME NEW i \in DOMAIN claims, NEW j \in DOMAIN claims, NEW k \in DOMAIN claims,
             LiesAbove(claims, i, j), LiesAbove(claims, j, k)
      PROVE  LiesAbove(claims, i, k)
  <2> DEFINE c == claims[i]
             d == claims[j]
             e == claims[k]
  <2>1. c \in Claim /\ d \in Claim /\ e \in Claim /\ i \in Int /\ j \in Int /\ k \in Int
    BY <1>1
  <2>2. /\ RanksAbove(c, d) \/ (~RanksAbove(d, c) /\ i < j)
        /\ RanksAbove(d, e) \/ (~RanksAbove(e, d) /\ j < k)
    BY <1>4 DEF LiesAbove
  <2>3. SUFFICES RanksAbove(c, e) \/ (~RanksAbove(e, c) /\ i < k)
    BY DEF LiesAbove
  <2> HIDE DEF c, d, e
  <2>4. /\ RanksAbove(c, d) => ~RanksAbove(d, c) /\ (RanksAbove(c, e) \/ RanksAbove(e, d))
        /\ RanksAbove(d, e) => ~RanksAbove(e, d) /\ (RanksAbove(d, c) \/ RanksAbove(c, e))
        /\ RanksAbove(e, c) => RanksAbove(e, d) \/ RanksAbove(d, c)
    BY <2>1, RanksOneWay, RanksBetween
  <2> QED BY <2>1, <2>2, <2>4
<1> QED BY <1>2, <1>3, <1>4

(* To sort a table is to permute it. *)
LEMMA SortingPermutes ==
  ASSUME NEW claims \in Seq(Claim)
  PROVE  LET n == Len(claims)
             q == SortedClaims(claims)
         IN  \E order \in [1..n -> 1..n] :
               /\ q = [k \in 1..n |-> claims[order[k]]]
               /\ \A i \in 1..n : \E k \in 1..n : order[k] = i
               /\ \A k, l \in 1..n : LiesAbove(claims, order[k], order[l]) <=> k < l
<1> DEFINE n == Len(claims)
           D == DOMAIN claims
           above(i, j) == \/ RanksAbove(claims[i], claims[j])
                          \/ ~RanksAbove(claims[j], claims[i]) /\ i < j
           order == InOrder(D, above)
           R == {ij \in D \X D : LiesAbove(claims, ij[1], ij[2])}
<1>1. n \in Nat /\ D = 1..n
  OBVIOUS
<1>2. IsFiniteSet(D) /\ Cardinality(D) = n
  BY <1>1, FS_Interval
<1>3. \A i, j \in D : <<i, j>> \in R <=> LiesAbove(claims, i, j)
  OBVIOUS
<1>4. \A i \in D : Before(D, R, i) = {j \in D : above(j, i)}
  BY DEF Before, LiesAbove
<1> HIDE DEF R
<1>5. StrictOrder(D, R)
  BY <1>3, TableHasOrder DEF StrictOrder
<1>6. \A k \in 1..n : \E i \in D : Cardinality(Before(D, R, i)) = k - 1
  BY <1>2, <1>5, PlacesAreTaken
<1>7. ASSUME NEW k \in 1..n
      PROVE  order[k] \in D /\ Cardinality(Before(D, R, order[k])) = k - 1
  <2>1. \E i \in D : Cardinality({j \in D : above(j, i)}) = k - 1
    BY <1>4, <1>6
  <2>2. order[k] = CHOOSE i \in D : Cardinality({j \in D : above(j, i)}) = k - 1
    BY <1>2 DEF InOrder
  <2>3. order[k] \in D /\ Cardinality({j \in D : above(j, order[k])}) = k - 1
    BY <2>1, <2>2, Zenon
  <2> QED BY <1>4, <2>3
<1>8. order \in [1..n -> 1..n]
  BY <1>1, <1>2, <1>7 DEF InOrder
<1>9. SortedClaims(claims) = [k \in 1..n |-> claims[order[k]]]
  BY <1>1 DEF SortedClaims
<1> HIDE DEF order
<1>10. /\ \A i \in D : \E k \in 1..n : order[k] = i
       /\ \A k, l \in 1..n : <<order[k], order[l]>> \in R <=> k < l
  BY <1>2, <1>5, <1>7, ListIsOrder
<1> QED BY <1>1, <1>3, <1>8, <1>9, <1>10

(* Sorting a table keeps its claims and nothing else. *)
LEMMA SortedType ==
  ASSUME NEW claims \in Seq(Claim)
  PROVE  /\ SortedClaims(claims) \in Seq(Claim) /\ Len(SortedClaims(claims)) = Len(claims)
         /\ Range(SortedClaims(claims)) = Range(claims)
<1> DEFINE n == Len(claims)
           q == SortedClaims(claims)
<1>1. PICK order \in [1..n -> 1..n] :
           /\ q = [k \in 1..n |-> claims[order[k]]]
           /\ \A i \in 1..n : \E k \in 1..n : order[k] = i
  BY SortingPermutes
<1>2. n \in Nat /\ DOMAIN claims = 1..n /\ \A i \in 1..n : claims[i] \in Claim
  OBVIOUS
<1> HIDE DEF n, q
<1>3. q \in [1..n -> Claim]
  BY <1>1, <1>2
<1>4. q \in Seq(Claim) /\ Len(q) = n
  BY <1>2, <1>3
<1>5. Range(q) = Range(claims)
  <2>1. ASSUME NEW c \in Range(q) PROVE c \in Range(claims)
    BY <1>1, <1>2 DEF Range
  <2>2. ASSUME NEW c \in Range(claims) PROVE c \in Range(q)
    <3>1. PICK i \in 1..n : c = claims[i]
      BY <1>2 DEF Range
    <3>2. PICK k \in 1..n : order[k] = i
      BY <1>1
    <3> QED BY <1>1, <3>1, <3>2 DEF Range
  <2> QED BY <2>1, <2>2
<1> QED BY <1>4, <1>5 DEF n, q

(* Each peer is in the table once. *)
Apart(claims) == \A i, j \in DOMAIN claims : claims[i].uuid = claims[j].uuid => i = j

LEMMA TableOfPeers ==
  ASSUME NEW claims \in Seq(Claim), Apart(claims)
  PROVE  PeerTable(Range(claims))
<1> DEFINE n == Len(claims)
<1>1. n \in Nat /\ DOMAIN claims = 1..n /\ claims \in [1..n -> Claim]
  OBVIOUS
<1> HIDE DEF n
<1>2. claims \in Surjection(1..n, Range(claims))
  BY <1>1 DEF Surjection, Range
<1>3. IsFiniteSet(Range(claims))
  BY <1>1, <1>2, FS_Surjection, FS_Interval
<1>4. Range(claims) \subseteq Claim
  BY <1>1 DEF Range
<1>5. ASSUME NEW c \in Range(claims), NEW d \in Range(claims), c.uuid = d.uuid
      PROVE  c = d
  BY <1>5 DEF Range, Apart
<1> QED BY <1>3, <1>4, <1>5 DEF PeerTable

(* Where each peer is in the table once, it is sorted by rank alone. *)
LEMMA SortedByRank ==
  ASSUME NEW claims \in Seq(Claim), Apart(claims)
  PROVE  LET n == Len(claims)
             q == SortedClaims(claims)
         IN  \A k, l \in 1..n : RanksAbove(q[k], q[l]) <=> k < l
<1> DEFINE n == Len(claims)
           q == SortedClaims(claims)
<1>1. PICK order \in [1..n -> 1..n] :
           /\ q = [k \in 1..n |-> claims[order[k]]]
           /\ \A k, l \in 1..n : LiesAbove(claims, order[k], order[l]) <=> k < l
  BY SortingPermutes
<1>2. n \in Nat /\ DOMAIN claims = 1..n /\ \A i \in 1..n : claims[i] \in Claim
  OBVIOUS
<1> HIDE DEF n, q
<1>3. ASSUME NEW i \in 1..n, NEW j \in 1..n
      PROVE  LiesAbove(claims, i, j) <=> RanksAbove(claims[i], claims[j])
  <2>1. CASE i = j
    <3>1. ~RanksAbove(claims[i], claims[i])
      BY <1>2, RanksOneWay
    <3> QED BY <2>1, <3>1 DEF LiesAbove
  <2>2. CASE i # j
    <3>1. claims[i].uuid # claims[j].uuid
      BY <1>2, <2>2 DEF Apart
    <3>2. RanksAbove(claims[i], claims[j]) \/ RanksAbove(claims[j], claims[i])
      BY <1>2, <3>1, RanksApart
    <3> QED BY <3>2 DEF LiesAbove
  <2> QED BY <2>1, <2>2
<1>4. ASSUME NEW k \in 1..n, NEW l \in 1..n
      PROVE  RanksAbove(q[k], q[l]) <=> k < l
  <2>1. order[k] \in 1..n /\ order[l] \in 1..n
    OBVIOUS
  <2>2. q[k] = claims[order[k]] /\ q[l] = claims[order[l]]
    BY <1>1
  <2>3. LiesAbove(claims, order[k], order[l]) <=> k < l
    BY <1>1
  <2>4. LiesAbove(claims, order[k], order[l]) <=> RanksAbove(claims[order[k]], claims[order[l]])
    BY <1>3, <2>1
  <2> QED BY <2>2, <2>3, <2>4
<1> QED BY <1>4 DEF n, q

(* A set of positions with each one all those before it is a run from the  *)
(* first.                                                                  *)
LEMMA RunFromFirst ==
  ASSUME NEW n \in Nat, NEW E, E \subseteq 1..n,
         \A k \in E : \A l \in 1..n : l < k => l \in E
  PROVE  Cardinality(E) \in 0..n /\ E = 1..Cardinality(E)
<1>1. CASE E = 1..n
  <2>1. Cardinality(1..n) = n
    BY FS_Interval
  <2> QED BY <1>1, <2>1
<1>2. CASE E # 1..n
  <2> DEFINE Out == (1..n) \ E
  <2>1. Out \subseteq Nat /\ Out # {}
    <3>1. \E k \in 1..n : k \notin E
      BY <1>2, Zenon
    <3> QED BY <3>1
  <2>2. PICK m \in Out : \A l \in Out : m <= l
    BY <2>1, LeastNumber
  <2>3. E = 1..(m - 1)
    <3>1. ASSUME NEW k \in E PROVE k \in 1..(m - 1)
      BY <2>2
    <3>2. ASSUME NEW k \in 1..(m - 1) PROVE k \in E
      BY <2>2
    <3> QED BY <3>1, <3>2
  <2>4. m \in 1..n /\ m - 1 \in 0..n
    BY <2>2
  <2>5. Cardinality(1..(m - 1)) = m - 1
    BY <2>4, FS_Interval
  <2> QED BY <2>3, <2>4, <2>5
<1> QED BY <1>1, <1>2

(* As many places of the sorted table are eligible as of the table. *)
LEMMA SortingKeepsEligible ==
  ASSUME NEW claims \in Seq(Claim)
  PROVE  LET q == SortedClaims(claims)
         IN  Cardinality({k \in 1..Len(claims) : q[k].eligible})
               = Cardinality({i \in DOMAIN claims : claims[i].eligible})
<1> DEFINE n == Len(claims)
           q == SortedClaims(claims)
           E == {k \in 1..n : q[k].eligible}
           F == {i \in DOMAIN claims : claims[i].eligible}
<1>1. PICK order \in [1..n -> 1..n] :
           /\ q = [k \in 1..n |-> claims[order[k]]]
           /\ \A i \in 1..n : \E k \in 1..n : order[k] = i
           /\ \A k, l \in 1..n : LiesAbove(claims, order[k], order[l]) <=> k < l
  BY SortingPermutes
<1>2. n \in Nat /\ DOMAIN claims = 1..n
  OBVIOUS
<1> DEFINE g == [k \in E |-> order[k]]
<1> HIDE DEF n, q
<1>3. ASSUME NEW k \in 1..n, NEW l \in 1..n, order[k] = order[l]
      PROVE  k = l
  <2>1. (k < l <=> k < k) /\ (l < k <=> k < k)
    BY <1>1, <1>3
  <2> QED BY <1>2, <2>1
<1>4. \A k \in 1..n : order[k] \in 1..n /\ (k \in E <=> order[k] \in F)
  BY <1>1, <1>2
<1>5. g \in [E -> F]
  BY <1>4
<1>6. ASSUME NEW i \in F PROVE \E k \in E : g[k] = i
  <2>1. PICK k \in 1..n : order[k] = i
    BY <1>1, <1>2
  <2> QED BY <1>4, <2>1
<1>7. \A k, l \in E : g[k] = g[l] => k = l
  BY <1>3
<1>8. IsFiniteSet(E)
  <2>1. E \in SUBSET (1..n) /\ IsFiniteSet(1..n)
    BY <1>2, FS_Interval
  <2> QED BY <2>1, FS_Subset
<1> HIDE DEF E, F, g
<1>9. g \in Surjection(E, F) /\ g \in Injection(E, F)
  BY <1>5, <1>6, <1>7 DEF Surjection, Injection, IsInjective
<1> QED BY <1>8, <1>9, FS_Surjection DEF E, F, n, q

(* The places of the keepers are the first, as many as KeeperCount says.   *)
LEMMA ChosenAreFirst ==
  ASSUME NEW claims \in Seq(Claim), Apart(claims)
  PROVE  LET q == SortedClaims(claims)
         IN  /\ KeeperCount(claims) \in 0..Len(claims)
             /\ \A k \in 1..Len(claims) :
                  q[k] \in Chosen(Range(claims)) <=> k <= KeeperCount(claims)
<1> DEFINE n == Len(claims)
           q == SortedClaims(claims)
           S == Range(claims)
           E == {k \in 1..n : q[k].eligible}
<1>1. q \in Seq(Claim) /\ Len(q) = n /\ Range(q) = S /\ n \in Nat
  BY SortedType
<1>2. \A k, l \in 1..n : RanksAbove(q[k], q[l]) <=> k < l
  BY SortedByRank
<1>3. Cardinality(E) = Cardinality({i \in DOMAIN claims : claims[i].eligible})
  BY SortingKeepsEligible
<1> HIDE DEF n, q, S
<1>4. /\ DOMAIN q = 1..n /\ \A k \in 1..n : q[k] \in Claim /\ q[k] \in S
      /\ \A s \in S : \E k \in 1..n : s = q[k]
  BY <1>1 DEF Range
<1>5. ASSUME NEW k \in 1..n, NEW l \in 1..n, q[k].eligible, l < k
      PROVE  q[l].eligible
  <2>1. RanksAbove(q[l], q[k])
    BY <1>2, <1>5
  <2> QED BY <1>5, <2>1 DEF RanksAbove
<1>6. Cardinality(E) \in 0..n /\ E = 1..Cardinality(E)
  <2>1. E \subseteq 1..n /\ \A k \in E : \A l \in 1..n : l < k => l \in E
    BY <1>5
  <2> QED BY <1>1, <2>1, RunFromFirst
<1>7. ASSUME NEW k \in 1..n, q[k].eligible
      PROVE  Cardinality(Above(S, q[k])) = k - 1
  <2> DEFINE A == Above(S, q[k])
             g == [j \in 1..(k - 1) |-> q[j]]
  <2>1. \A j \in 1..(k - 1) : j \in 1..n /\ j < k
    BY <1>1
  <2>2. g \in [1..(k - 1) -> A]
    BY <1>2, <1>4, <1>5, <1>7, <2>1 DEF Above
  <2>3. ASSUME NEW d \in A PROVE \E j \in 1..(k - 1) : g[j] = d
    <3>1. d \in S /\ RanksAbove(d, q[k])
      BY DEF Above
    <3>2. PICK j \in 1..n : d = q[j]
      BY <1>4, <3>1
    <3>3. j < k
      BY <1>2, <3>1, <3>2
    <3> QED BY <1>1, <3>2, <3>3
  <2>4. \A i, j \in 1..(k - 1) : g[i] = g[j] => i = j
    <3> SUFFICES ASSUME NEW i \in 1..(k - 1), NEW j \in 1..(k - 1), q[i] = q[j] PROVE i = j
      OBVIOUS
    <3>1. (RanksAbove(q[i], q[j]) <=> i < j) /\ (RanksAbove(q[j], q[i]) <=> j < i)
      BY <1>2, <2>1
    <3>2. ~RanksAbove(q[i], q[i])
      BY <1>4, <2>1, RanksOneWay
    <3> QED BY <2>1, <3>1, <3>2
  <2>5. IsFiniteSet(1..(k - 1)) /\ Cardinality(1..(k - 1)) = k - 1
    BY <1>1, FS_Interval
  <2> HIDE DEF A, g
  <2>6. g \in Surjection(1..(k - 1), A) /\ g \in Injection(1..(k - 1), A)
    BY <2>2, <2>3, <2>4 DEF Surjection, Injection, IsInjective
  <2> QED BY <2>5, <2>6, FS_Surjection DEF A
<1>8. KeeperCount(claims) = IF Cardinality(E) < MaxKeepers THEN Cardinality(E) ELSE MaxKeepers
  BY <1>3, Zenon DEF KeeperCount
<1>9. ASSUME NEW k \in 1..n
      PROVE  q[k] \in Chosen(S) <=> k <= KeeperCount(claims)
  <2>1. q[k].eligible <=> k <= Cardinality(E)
    BY <1>1, <1>6
  <2>2. q[k] \in Chosen(S) <=> q[k].eligible /\ Cardinality(Above(S, q[k])) < MaxKeepers
    BY <1>4 DEF Chosen
  <2>3. q[k] \in Chosen(S) <=> k <= Cardinality(E) /\ k - 1 < MaxKeepers
    BY <1>7, <2>1, <2>2
  <2> QED BY <1>1, <1>6, <1>8, <2>3, KeepersAssumption
<1>10. KeeperCount(claims) \in 0..n
  BY <1>1, <1>6, <1>8, KeepersAssumption
<1> QED BY <1>9, <1>10 DEF n, q, S

(* So every device chooses the same keepers, in whatever order its table   *)
(* lies (keepers.rs: select needs no message), and who asks about itself   *)
(* hears whether it is among them.                                         *)
LEMMA SelectIsChosen ==
  ASSUME NEW claims \in Seq(Claim), Apart(claims)
  PROVE  /\ {SelectKeepers(claims)[i] : i \in 1..KeeperCount(claims)} = Chosen(Range(claims))
         /\ \A c \in Range(claims) : IsKeeper(claims, c.uuid) <=> c \in Chosen(Range(claims))
<1> DEFINE n == Len(claims)
           q == SortedClaims(claims)
           S == Range(claims)
           count == KeeperCount(claims)
           chosen == SelectKeepers(claims)
<1>1. q \in Seq(Claim) /\ Len(q) = n /\ Range(q) = S /\ n \in Nat
  BY SortedType
<1>2. count \in 0..n /\ \A k \in 1..n : q[k] \in Chosen(S) <=> k <= count
  BY ChosenAreFirst
<1>3. chosen = SubSeq(q, 1, count)
  BY DEF SelectKeepers
<1>4. PeerTable(S)
  BY TableOfPeers
<1> HIDE DEF n, q, S, count, chosen
<1>5. DOMAIN chosen = 1..count /\ \A i \in 1..count : chosen[i] = q[i] /\ i \in 1..n
  BY <1>1, <1>2, <1>3
<1>6. /\ \A k \in 1..n : q[k] \in S
      /\ \A s \in S : \E k \in 1..n : s = q[k]
  BY <1>1 DEF Range
<1>7. {chosen[i] : i \in 1..count} = Chosen(S)
  <2>1. ASSUME NEW i \in 1..count PROVE chosen[i] \in Chosen(S)
    BY <1>2, <1>5
  <2>2. ASSUME NEW c \in Chosen(S) PROVE \E i \in 1..count : chosen[i] = c
    <3>1. PICK k \in 1..n : c = q[k]
      BY <1>6 DEF Chosen
    <3>2. k \in 1..count
      BY <1>2, <3>1
    <3> QED BY <1>5, <3>1, <3>2
  <2> QED BY <2>1, <2>2
<1>8. ASSUME NEW c \in S
      PROVE  (\E i \in DOMAIN chosen : chosen[i].uuid = c.uuid) <=> c \in Chosen(S)
  <2>1. ASSUME NEW i \in DOMAIN chosen, chosen[i].uuid = c.uuid PROVE c \in Chosen(S)
    <3>1. chosen[i] \in Chosen(S) /\ chosen[i] \in S
      BY <1>2, <1>5, <1>6
    <3> QED BY <1>4, <2>1, <3>1 DEF PeerTable
  <2>2. ASSUME c \in Chosen(S) PROVE \E i \in DOMAIN chosen : chosen[i].uuid = c.uuid
    BY <1>5, <1>7, <2>2
  <2> QED BY <2>1, <2>2
<1> QED BY <1>7, <1>8 DEF IsKeeper, n, q, S, count, chosen

(* Alike: as many names in the table as claims. *)
LEMMA CountedApart ==
  ASSUME NEW claims \in Seq(Claim),
         Cardinality({c.uuid : c \in Range(claims)}) = Len(claims)
  PROVE  Apart(claims)
<1> DEFINE n == Len(claims)
           U == {c.uuid : c \in Range(claims)}
           g == [i \in 1..n |-> claims[i].uuid]
<1>1. n \in Nat /\ DOMAIN claims = 1..n
  OBVIOUS
<1>2. g \in [1..n -> U] /\ \A u \in U : \E i \in 1..n : g[i] = u
  BY <1>1 DEF Range
<1>3. IsFiniteSet(1..n) /\ Cardinality(1..n) = n
  <2> HIDE DEF n
  <2> QED BY <1>1, FS_Interval
<1>4. Cardinality(U) = n
  OBVIOUS
<1>5. \A i \in 1..n : g[i] = claims[i].uuid
  OBVIOUS
<1> HIDE DEF n, U, g
<1>6. g \in Surjection(1..n, U)
  BY <1>2 DEF Surjection
<1>7. g \in Injection(1..n, U)
  BY <1>3, <1>4, <1>6, FS_Surjection
<1> QED BY <1>1, <1>5, <1>7 DEF Injection, IsInjective, Apart

(* A peer that leaves makes a keeper of at most one of those that stay. *)
LEMMA LeavingMovesOne ==
  ASSUME NEW S, PeerTable(S), NEW c \in S
  PROVE  Cardinality(Chosen(S \ {c}) \ Chosen(S)) <= 1
<1> DEFINE T == S \ {c}
           M == Chosen(T) \ Chosen(S)
<1> SUFFICES Cardinality(M) <= 1
  OBVIOUS
<1>1. PeerTable(T)
  BY FS_RemoveElement DEF PeerTable
<1>2. T \cup {c} = S
  OBVIOUS
<1> HIDE DEF T
<1>3. \A d, e \in M : d = e
  <2>1. PeerTable(T \cup {c})
    BY <1>2
  <2>2. \A d, e \in Chosen(T) \ Chosen(T \cup {c}) : d = e
    BY <1>1, <2>1, JoinMovesOne
  <2> QED BY <1>2, <2>2
<1>4. CASE M = {}
  BY <1>4, FS_EmptySet
<1>5. CASE M # {}
  <2>1. PICK d \in M : TRUE
    BY <1>5
  <2>2. M = {d}
    BY <1>3, <2>1
  <2>3. Cardinality({d}) = 1
    BY FS_Singleton
  <2> HIDE DEF M
  <2> QED BY <2>2, <2>3
<1> QED BY <1>4, <1>5

-----------------------------------------------------------------------------
(* Where an LED sits in its zone: quotients.                               *)

LEMMA ProductGrows ==
  ASSUME NEW c \in Nat, NEW x \in Int, NEW y \in Int, x <= y
  PROVE  c * x <= c * y
OBVIOUS

LEMMA Quotient ==
  ASSUME NEW c \in Nat, c > 0, NEW a \in Int
  PROVE  /\ a \div c \in Int
         /\ c * (a \div c) <= a
         /\ a < c * ((a \div c) + 1)
<1>1. a \div c \in Int /\ a % c \in 0..(c - 1)
  OBVIOUS
<1>2. a = (c * (a \div c)) + (a % c)
  OBVIOUS
<1>3. c * ((a \div c) + 1) = (c * (a \div c)) + c
  BY <1>1
<1> QED BY <1>1, <1>2, <1>3

LEMMA QuotientAtLeast ==
  ASSUME NEW c \in Nat, c > 0, NEW a \in Int, NEW q \in Int, c * q <= a
  PROVE  q <= a \div c
<1> DEFINE d == a \div c
<1>1. d \in Int /\ a < c * (d + 1)
  BY Quotient
<1> HIDE DEF d
<1> SUFFICES ASSUME d < q PROVE FALSE
  BY <1>1 DEF d
<1>2. c * (d + 1) <= c * q
  BY <1>1, ProductGrows
<1> QED BY <1>1, <1>2

LEMMA QuotientBelow ==
  ASSUME NEW c \in Nat, c > 0, NEW a \in Int, NEW q \in Int, a < c * q
  PROVE  a \div c < q
<1> DEFINE d == a \div c
<1>1. d \in Int /\ c * d <= a
  BY Quotient
<1> HIDE DEF d
<1> SUFFICES ASSUME q <= d PROVE FALSE
  BY <1>1 DEF d
<1>2. c * q <= c * d
  BY <1>1, ProductGrows
<1> QED BY <1>1, <1>2

LEMMA QuotientGrows ==
  ASSUME NEW c \in Nat, c > 0, NEW a \in Int, NEW b \in Int, a <= b
  PROVE  a \div c <= b \div c
<1>1. a \div c \in Int /\ c * (a \div c) <= a
  BY Quotient
<1>2. c * (a \div c) <= b
  BY <1>1
<1> QED BY <1>1, <1>2, QuotientAtLeast

LEMMA ClampFits ==
  ASSUME NEW a \in Int
  PROVE  /\ Clamp(a) \in 0..One
         /\ a < One => Clamp(a) < One
         /\ a \in 0..One => Clamp(a) = a
         /\ \A b \in Int : a <= b => Clamp(a) <= Clamp(b)
BY GeometryAssumption DEF Clamp, Smaller, Larger

(* What is normalised is in the unit, keeps the order, and is at the end   *)
(* of it only where nothing lies beyond.                                   *)
LEMMA NormalisedFits ==
  ASSUME NEW lo \in Int, NEW hi \in Int, lo <= hi, NEW a \in Int
  PROVE  /\ Normalised(a, lo, hi) \in 0..One
         /\ \A b \in Int : a < b /\ b <= hi =>
              /\ Normalised(a, lo, hi) <= Normalised(b, lo, hi)
              /\ Normalised(a, lo, hi) < One
<1>1. CASE hi = lo
  BY <1>1, GeometryAssumption DEF Normalised
<1>2. CASE lo < hi
  <2> DEFINE c == hi - lo
             q(x) == ((x - lo) * One) \div c
  <2>1. c \in Nat /\ c > 0 /\ One \in Nat
    BY <1>2, GeometryAssumption
  <2>2. \A x \in Int : Normalised(x, lo, hi) = Clamp(q(x))
    BY <1>2 DEF Normalised, Div
  <2>3. \A x \in Int : (x - lo) * One \in Int
    BY <2>1
  <2> HIDE DEF c
  <2>4. \A x \in Int : q(x) \in Int
    BY <2>1, <2>3, Quotient
  <2>5. ASSUME NEW b \in Int, a < b, b <= hi
        PROVE  q(a) <= q(b) /\ q(a) < One
    <3>1. (a - lo) * One <= (b - lo) * One
      <4>1. One * (a - lo) <= One * (b - lo)
        BY <2>1, <2>5, ProductGrows
      <4> QED BY <2>1, <4>1
    <3>2. (a - lo) * One < c * One
      <4>1. One * (a - lo + 1) <= One * c
        BY <2>1, <2>5, ProductGrows DEF c
      <4>2. One * (a - lo + 1) = ((a - lo) * One) + One
        BY <2>1
      <4>3. One > 0 /\ One * c = c * One
        BY <2>1, GeometryAssumption
      <4> QED BY <2>1, <2>3, <4>1, <4>2, <4>3
    <3>3. q(a) <= q(b)
      BY <2>1, <2>3, <3>1, QuotientGrows
    <3>4. q(a) < One
      BY <2>1, <2>3, <3>2, QuotientBelow
    <3> QED BY <3>3, <3>4
  <2> HIDE DEF q
  <2> QED BY <2>2, <2>4, <2>5, ClampFits
<1> QED BY <1>1, <1>2

(* The same of the LEDs of a strip, which are told apart as long as there  *)
(* are no more of them than there are numbers.                             *)
LEMMA FractionFits ==
  ASSUME NEW k \in Nat, NEW count \in Nat
  PROVE  /\ Fraction(k, count) \in 0..One
         /\ \A l \in Nat : k < l /\ l < count =>
              /\ Fraction(k, count) <= Fraction(l, count)
              /\ Fraction(k, count) < One
              /\ count <= One + 1 => Fraction(k, count) # Fraction(l, count)
         /\ count > 1 /\ k = count - 1 => Fraction(k, count) = One
<1>0. One \in Nat /\ One > 0
  BY GeometryAssumption
<1>1. CASE count <= 1
  BY <1>0, <1>1 DEF Fraction
<1>2. CASE count > 1
  <2> DEFINE c == count - 1
             q(x) == (x * One) \div c
  <2>1. c \in Nat /\ c > 0
    BY <1>2
  <2>2. \A x \in Nat : Fraction(x, count) = Clamp(q(x))
    BY <1>2 DEF Fraction
  <2>3. \A x \in Nat : x * One \in Nat
    BY <1>0
  <2> HIDE DEF c
  <2>4. \A x \in Nat : q(x) \in Int
    BY <2>1, <2>3, Quotient
  <2>5. ASSUME NEW l \in Nat, k < l, l < count
        PROVE  /\ q(k) <= q(l) /\ q(k) < One
               /\ count <= One + 1 => q(k) \in 0..One /\ q(l) \in 0..One /\ q(k) # q(l)
    <3>1. (k * One) + One <= l * One
      <4>1. One * (k + 1) <= One * l
        BY <1>0, <2>5, ProductGrows
      <4>2. One * (k + 1) = (k * One) + One /\ One * l = l * One
        BY <1>0
      <4> QED BY <4>1, <4>2
    <3>2. l * One <= c * One
      <4>1. One * l <= One * c
        BY <1>0, <2>1, <2>5, ProductGrows DEF c
      <4>2. One * l = l * One /\ One * c = c * One
        BY <1>0, <2>1
      <4> QED BY <4>1, <4>2
    <3>3. k * One \in Nat /\ l * One \in Nat /\ k * One < c * One
      BY <1>0, <2>1, <2>3, <3>1, <3>2
    <3>4. q(k) <= q(l)
      BY <1>0, <2>1, <3>1, <3>3, QuotientGrows
    <3>5. q(k) < One
      BY <1>0, <2>1, <3>3, QuotientBelow
    <3>6. ASSUME count <= One + 1 PROVE q(k) + 1 <= q(l)
      <4>1. q(k) \in Int /\ c * q(k) <= k * One /\ c <= One
        BY <1>0, <2>1, <2>3, <3>6, Quotient DEF c
      <4> HIDE DEF q
      <4>2. c * (q(k) + 1) = (c * q(k)) + c
        BY <2>1, <4>1
      <4>3. c * q(k) \in Int
        BY <2>1, <4>1
      <4>4. c * (q(k) + 1) <= l * One
        BY <1>0, <2>1, <3>1, <3>3, <4>1, <4>2, <4>3
      <4>5. q(k) + 1 <= (l * One) \div c
        BY <2>1, <3>3, <4>1, <4>4, QuotientAtLeast
      <4> QED BY <4>5 DEF q
    <3>7. q(l) <= One
      <4>1. c * One < c * (One + 1)
        <5>1. c * (One + 1) = (c * One) + c /\ c * One \in Int
          BY <1>0, <2>1
        <5> QED BY <2>1, <5>1
      <4>2. l * One < c * (One + 1) /\ c * One \in Int /\ c * (One + 1) \in Int
        BY <1>0, <2>1, <3>2, <3>3, <4>1
      <4>3. q(l) < One + 1
        BY <1>0, <2>1, <3>3, <4>2, QuotientBelow
      <4> QED BY <1>0, <2>4, <4>3
    <3>8. q(k) >= 0
      <4>1. c * 0 <= k * One
        BY <2>1, <3>3
      <4> QED BY <2>1, <3>3, <4>1, QuotientAtLeast
    <3>9. q(k) \in Int /\ q(l) \in Int
      BY <2>4
    <3> HIDE DEF q
    <3> QED BY <1>0, <3>4, <3>5, <3>6, <3>7, <3>8, <3>9
  <2>6. ASSUME k = count - 1 PROVE q(k) = One
    <3>1. k * One = c * One /\ c * One \in Int
      BY <1>0, <2>1, <2>6 DEF c
    <3>2. (c * One) \div c >= One
      BY <1>0, <2>1, <3>1, QuotientAtLeast
    <3>3. c * One < c * (One + 1)
      <4>1. c * (One + 1) = (c * One) + c
        BY <1>0, <2>1
      <4> QED BY <1>0, <2>1, <3>1, <4>1
    <3>4. (c * One) \div c < One + 1
      BY <1>0, <2>1, <3>1, <3>3, QuotientBelow
    <3>5. (c * One) \div c \in Int
      BY <2>1, <3>1, Quotient
    <3> QED BY <1>0, <3>1, <3>2, <3>4, <3>5
  <2> HIDE DEF q
  <2>7. \A l \in Nat : k < l /\ l < count =>
           /\ Clamp(q(k)) <= Clamp(q(l))
           /\ Clamp(q(k)) < One
           /\ count <= One + 1 => Clamp(q(k)) # Clamp(q(l))
    BY <2>4, <2>5, ClampFits
  <2>8. k = count - 1 => Clamp(q(k)) = One
    BY <1>0, <2>4, <2>6, ClampFits
  <2> QED BY <1>2, <2>2, <2>4, <2>7, <2>8, ClampFits
<1> QED BY <1>1, <1>2

(* A grid puts two of the LEDs that fit in different cells. *)
LEMMA CellsApart ==
  ASSUME NEW w \in 0..(One + 1), NEW h \in 0..(One + 1),
         NEW k \in Nat, NEW l \in Nat, k < l, l < w * h
  PROVE  GridCell(w, h, k) # GridCell(w, h, l)
<1>0. One \in Nat /\ One > 0
  BY GeometryAssumption
<1>1. w \in Nat /\ h \in Nat /\ w > 0 /\ h > 0
  <2>1. w \in Nat /\ h \in Nat
    BY <1>0
  <2>2. w # 0 /\ h # 0
    BY <2>1
  <2> QED BY <2>1, <2>2
<1>2. ASSUME NEW x \in Nat, x < w * h
      PROVE  /\ x % w \in 0..(w - 1) /\ x \div w \in 0..(h - 1)
             /\ x = (w * (x \div w)) + (x % w)
             /\ GridCell(w, h, x) = <<Fraction(x % w, w), Fraction(x \div w, h)>>
  <2>1. x % w \in 0..(w - 1) /\ x = (w * (x \div w)) + (x % w)
    BY <1>1
  <2>2. x \div w < h /\ x \div w \in Int
    BY <1>1, <1>2, QuotientBelow, Quotient
  <2>3. x \div w >= 0
    BY <1>1, QuotientAtLeast
  <2>4. Larger(w, 1) = w /\ Larger(h, 1) = h
    BY <1>1 DEF Larger
  <2>5. Smaller(x \div w, h - 1) = x \div w
    BY <1>1, <2>2 DEF Smaller
  <2> QED BY <1>1, <2>1, <2>2, <2>3, <2>4, <2>5 DEF GridCell
<1>3. w * h \in Nat /\ k < w * h
  BY <1>1
<1>4. \A m \in Nat : \A x \in 0..(m - 1) : \A y \in 0..(m - 1) :
         m <= One + 1 /\ x # y => Fraction(x, m) # Fraction(y, m)
  <2> SUFFICES ASSUME NEW m \in Nat, NEW x \in 0..(m - 1), NEW y \in 0..(m - 1),
                      m <= One + 1, x < y
               PROVE  Fraction(x, m) # Fraction(y, m)
    BY <1>0
  <2>1. x \in Nat /\ y \in Nat /\ y < m
    OBVIOUS
  <2> QED BY <2>1, FractionFits
<1>5. k % w # l % w \/ k \div w # l \div w
  <2>1. k = (w * (k \div w)) + (k % w)
    BY <1>2, <1>3
  <2>2. l = (w * (l \div w)) + (l % w)
    BY <1>2
  <2>3. k # l
    OBVIOUS
  <2> QED BY <2>1, <2>2, <2>3, Zenon
<1>6. GridCell(w, h, k) = <<Fraction(k % w, w), Fraction(k \div w, h)>>
  BY <1>2, <1>3
<1>7. GridCell(w, h, l) = <<Fraction(l % w, w), Fraction(l \div w, h)>>
  BY <1>2
<1>8. w <= One + 1 /\ h <= One + 1
  BY <1>0
<1>9. /\ k % w \in 0..(w - 1) /\ l % w \in 0..(w - 1)
      /\ k \div w \in 0..(h - 1) /\ l \div w \in 0..(h - 1)
  BY <1>2, <1>3
<1>10. Fraction(k % w, w) # Fraction(l % w, w) \/ Fraction(k \div w, h) # Fraction(l \div w, h)
  BY <1>1, <1>4, <1>5, <1>8, <1>9
<1> QED BY <1>6, <1>7, <1>10

-----------------------------------------------------------------------------
(* Where an LED sits in its zone: along a vector, from a point, around.    *)

Triple == [1..3 -> Int]

LEMMA MulFits ==
  ASSUME NEW a \in Int, NEW b \in Int, NEW v \in Int, a <= b
  PROVE  /\ Mul(a, v) \in Int
         /\ v >= 0 => Mul(a, v) <= Mul(b, v)
         /\ v <= 0 => Mul(b, v) <= Mul(a, v)
<1>0. One \in Nat /\ One > 0 /\ a * v \in Int /\ b * v \in Int
  BY GeometryAssumption
<1>1. Mul(a, v) \in Int
  BY <1>0, Quotient DEF Mul
<1>2. ASSUME v >= 0 PROVE Mul(a, v) <= Mul(b, v)
  <2>1. v * a <= v * b
    BY <1>2, ProductGrows
  <2>2. a * v <= b * v
    BY <2>1
  <2> QED BY <1>0, <2>2, QuotientGrows DEF Mul
<1>3. ASSUME v <= 0 PROVE Mul(b, v) <= Mul(a, v)
  <2>1. (-v) * a <= (-v) * b
    BY <1>3, ProductGrows
  <2>2. b * v <= a * v
    BY <2>1
  <2> QED BY <1>0, <2>2, QuotientGrows DEF Mul
<1> QED BY <1>1, <1>2, <1>3

LEMMA DotFits ==
  ASSUME NEW p \in Triple, NEW q \in Triple, NEW v \in Triple, \A k \in 1..3 : p[k] <= q[k]
  PROVE  /\ Dot(p, v) \in Int
         /\ (\A k \in 1..3 : v[k] >= 0) => Dot(p, v) <= Dot(q, v)
         /\ (\A k \in 1..3 : v[k] <= 0) => Dot(q, v) <= Dot(p, v)
<1> DEFINE a(k) == Mul(p[k], v[k])
           b(k) == Mul(q[k], v[k])
<1>1. ASSUME NEW k \in 1..3
      PROVE  /\ a(k) \in Int /\ b(k) \in Int
             /\ v[k] >= 0 => a(k) <= b(k)
             /\ v[k] <= 0 => b(k) <= a(k)
  <2>1. p[k] \in Int /\ q[k] \in Int /\ v[k] \in Int /\ p[k] <= q[k] /\ q[k] <= q[k]
    BY DEF Triple
  <2> QED BY <2>1, MulFits
<1>2. Dot(p, v) = a(1) + a(2) + a(3) /\ Dot(q, v) = b(1) + b(2) + b(3)
  BY DEF Dot
<1> HIDE DEF a, b
<1>3. 1 \in 1..3 /\ 2 \in 1..3 /\ 3 \in 1..3
  OBVIOUS
<1>4. a(1) \in Int /\ a(2) \in Int /\ a(3) \in Int /\ b(1) \in Int /\ b(2) \in Int /\ b(3) \in Int
  BY <1>1
<1>5. ASSUME \A k \in 1..3 : v[k] >= 0 PROVE Dot(p, v) <= Dot(q, v)
  <2>1. a(1) <= b(1) /\ a(2) <= b(2) /\ a(3) <= b(3)
    BY <1>1, <1>5
  <2> QED BY <1>2, <1>4, <2>1
<1>6. ASSUME \A k \in 1..3 : v[k] <= 0 PROVE Dot(q, v) <= Dot(p, v)
  <2>1. b(1) <= a(1) /\ b(2) <= a(2) /\ b(3) <= a(3)
    BY <1>1, <1>6
  <2> QED BY <1>2, <1>4, <2>1
<1> QED BY <1>2, <1>4, <1>5, <1>6

LEMMA SquareGrows ==
  ASSUME NEW a \in Nat, NEW b \in Nat, a <= b
  PROVE  a * a <= b * b
<1>1. a * a <= a * b
  BY ProductGrows
<1>2. b * a <= b * b
  BY ProductGrows
<1>3. a * b = b * a /\ a * a \in Int /\ a * b \in Int /\ b * b \in Int
  OBVIOUS
<1> QED BY <1>1, <1>2, <1>3

(* There is a root of every number, cut off to a whole one.                *)
LEMMA RootExists ==
  ASSUME NEW sq \in Nat, NEW s \in Nat, sq <= s * s
  PROVE  \E r \in 0..s : r * r <= sq /\ sq < (r + 1) * (r + 1)
<1> DEFINE N == {r \in Nat : sq < (r + 1) * (r + 1)}
<1>1. s \in N
  <2>1. (s + 1) * (s + 1) = (s * s) + (2 * s) + 1 /\ s * s \in Int
    OBVIOUS
  <2> QED BY <2>1
<1>2. PICK n \in N : \A m \in N : n <= m
  <2>1. N \subseteq Nat /\ N # {}
    BY <1>1
  <2> HIDE DEF N
  <2> QED BY <2>1, LeastNumber
<1>3. n \in Nat /\ n <= s /\ sq < (n + 1) * (n + 1)
  BY <1>1, <1>2
<1>4. n * n <= sq
  <2>1. CASE n = 0
    BY <2>1
  <2>2. CASE n > 0
    <3>1. n - 1 \in Nat /\ n - 1 \notin N /\ (n - 1) + 1 = n
      BY <1>2, <1>3, <2>2
    <3>2. ~ (sq < n * n) /\ n * n \in Int
      BY <1>3, <3>1
    <3> QED BY <3>2
  <2> QED BY <1>3, <2>1, <2>2
<1> QED BY <1>3, <1>4

Squares(x, y, z) == x * x + y * y + z * z

LEMMA LengthIs ==
  ASSUME NEW x \in Int, NEW y \in Int, NEW z \in Int
  PROVE  /\ Length(x, y, z) \in Nat /\ Squares(x, y, z) \in Nat
         /\ Length(x, y, z) * Length(x, y, z) <= Squares(x, y, z)
         /\ Squares(x, y, z) < (Length(x, y, z) + 1) * (Length(x, y, z) + 1)
<1> DEFINE a == Abs(x)
           b == Abs(y)
           c == Abs(z)
           sq == Squares(x, y, z)
           s == a + b + c
<1>1. ASSUME NEW n \in Int
      PROVE  /\ Abs(n) \in Nat /\ n * n = Abs(n) * Abs(n) /\ n * n \in Nat
  <2>1. CASE n >= 0
    BY <2>1 DEF Abs
  <2>2. CASE n < 0
    <3>1. Abs(n) = -n /\ -n \in Nat
      BY <2>2 DEF Abs
    <3>2. (-n) * (-n) = n * n /\ (-n) * (-n) \in Nat
      BY <3>1
    <3> QED BY <3>1, <3>2
  <2> QED BY <2>1, <2>2
<1>2. a \in Nat /\ b \in Nat /\ c \in Nat /\ s \in Nat /\ sq \in Nat
  BY <1>1 DEF Squares
<1>3. sq = (a * a) + (b * b) + (c * c)
  BY <1>1 DEF Squares
<1> HIDE DEF a, b, c
<1>4. sq <= s * s
  <2>1. s * s = (a * a) + (b * b) + (c * c) + (2 * (a * b)) + (2 * (a * c)) + (2 * (b * c))
    BY <1>2
  <2>2. a * a \in Nat /\ b * b \in Nat /\ c * c \in Nat /\ a * b \in Nat /\ a * c \in Nat /\ b * c \in Nat
    BY <1>2
  <2> QED BY <1>3, <2>1, <2>2
<1>5. Length(x, y, z) = CHOOSE r \in 0..s : r * r <= sq /\ sq < (r + 1) * (r + 1)
  BY Zenon DEF Length, Squares, a, b, c
<1> HIDE DEF s, sq
<1>6. \E r \in 0..s : r * r <= sq /\ sq < (r + 1) * (r + 1)
  BY <1>2, <1>4, RootExists
<1> DEFINE l == Length(x, y, z)
<1>7. l \in 0..s /\ l * l <= sq /\ sq < (l + 1) * (l + 1)
  BY <1>5, <1>6, Zenon
<1> HIDE DEF l
<1> QED BY <1>2, <1>7 DEF l, sq

LEMMA LengthGrows ==
  ASSUME NEW x \in Int, NEW y \in Int, NEW z \in Int,
         NEW x2 \in Int, NEW y2 \in Int, NEW z2 \in Int,
         Squares(x, y, z) <= Squares(x2, y2, z2)
  PROVE  Length(x, y, z) <= Length(x2, y2, z2)
<1> DEFINE l == Length(x, y, z)
           m == Length(x2, y2, z2)
           sl == Squares(x, y, z)
           sm == Squares(x2, y2, z2)
<1>1. l \in Nat /\ sl \in Nat /\ l * l <= sl
  BY LengthIs
<1>2. m \in Nat /\ sm \in Nat /\ sm < (m + 1) * (m + 1) /\ sl <= sm
  BY LengthIs
<1> HIDE DEF l, m, sl, sm
<1> SUFFICES ASSUME m < l PROVE FALSE
  BY <1>1, <1>2 DEF l, m
<1>3. (m + 1) * (m + 1) <= l * l
  BY <1>1, <1>2, SquareGrows
<1>4. (m + 1) * (m + 1) \in Int /\ l * l \in Int
  BY <1>1, <1>2
<1> QED BY <1>1, <1>2, <1>3, <1>4

LEMMA SquareBelow ==
  ASSUME NEW a \in Int, NEW b \in Nat, Abs(a) <= b
  PROVE  a * a <= b * b
<1>1. CASE a >= 0
  BY <1>1, SquareGrows DEF Abs
<1>2. CASE a < 0
  <2>1. (-a) * (-a) <= b * b
    BY <1>2, SquareGrows DEF Abs
  <2> QED BY <2>1
<1> QED BY <1>1, <1>2

Within(p, bounds) == \A k \in 1..3 : bounds.min[k] <= p[k] /\ p[k] <= bounds.max[k]

LEMMA AlongFits ==
  ASSUME NEW bounds, bounds.min \in Triple, bounds.max \in Triple, NEW v \in Triple,
         NEW p \in Triple, NEW q \in Triple, Within(p, bounds), Within(q, bounds)
  PROVE  /\ AlongVector(v, p, bounds) \in 0..One
         /\ /\ (\A k \in 1..3 : v[k] >= 0) \/ (\A k \in 1..3 : v[k] <= 0)
            /\ Dot(p, v) < Dot(q, v)
            => /\ AlongVector(v, p, bounds) <= AlongVector(v, q, bounds)
               /\ AlongVector(v, p, bounds) < One
<1> DEFINE lo == Dot(bounds.min, v)
           hi == Dot(bounds.max, v)
           a == Dot(p, v)
           b == Dot(q, v)
           first == Smaller(lo, hi)
           last == Larger(lo, hi)
<1>1. lo \in Int /\ hi \in Int /\ a \in Int /\ b \in Int
  BY DotFits DEF Triple
<1>2. first \in Int /\ last \in Int /\ first <= last
  BY <1>1 DEF Smaller, Larger
<1>3. /\ AlongVector(v, p, bounds) = Normalised(a, first, last)
      /\ AlongVector(v, q, bounds) = Normalised(b, first, last)
  BY DEF AlongVector
<1>4. (\A k \in 1..3 : v[k] >= 0) => b <= hi
  BY DotFits DEF Within
<1>5. (\A k \in 1..3 : v[k] <= 0) => b <= lo
  BY DotFits DEF Within
<1>6. hi <= last /\ lo <= last
  BY <1>1 DEF Larger
<1> HIDE DEF lo, hi, a, b, first, last
<1>7. Normalised(a, first, last) \in 0..One
  BY <1>1, <1>2, NormalisedFits
<1>8. ASSUME (\A k \in 1..3 : v[k] >= 0) \/ (\A k \in 1..3 : v[k] <= 0), a < b
      PROVE  /\ Normalised(a, first, last) <= Normalised(b, first, last)
             /\ Normalised(a, first, last) < One
  <2>1. b <= last
    BY <1>1, <1>2, <1>4, <1>5, <1>6, <1>8
  <2> QED BY <1>1, <1>2, <1>8, <2>1, NormalisedFits
<1> QED BY <1>3, <1>7, <1>8 DEF a, b

LEMMA FromFits ==
  ASSUME NEW bounds, bounds.min \in Triple, bounds.max \in Triple, NEW c \in Triple,
         NEW p \in Triple, NEW q \in Triple, Within(p, bounds), Within(q, bounds)
  PROVE  /\ FromPoint(c, p, bounds) \in 0..One
         /\ Distance(p, c) < Distance(q, c)
            => /\ FromPoint(c, p, bounds) <= FromPoint(c, q, bounds)
               /\ FromPoint(c, p, bounds) < One
<1> DEFINE reach == [k \in 1..3 |-> Larger(Abs(bounds.max[k] - c[k]), Abs(bounds.min[k] - c[k]))]
           far == Length(reach[1], reach[2], reach[3])
           a == Distance(p, c)
           b == Distance(q, c)
<1>1. ASSUME NEW k \in 1..3
      PROVE  /\ reach[k] \in Nat /\ q[k] - c[k] \in Int /\ p[k] - c[k] \in Int
             /\ Abs(q[k] - c[k]) <= reach[k]
  <2>1. bounds.min[k] \in Int /\ bounds.max[k] \in Int /\ c[k] \in Int /\ q[k] \in Int /\ p[k] \in Int
    BY DEF Triple
  <2>2. bounds.min[k] <= q[k] /\ q[k] <= bounds.max[k]
    BY DEF Within
  <2>3. reach[k] = Larger(Abs(bounds.max[k] - c[k]), Abs(bounds.min[k] - c[k]))
    OBVIOUS
  <2> HIDE DEF reach
  <2> QED BY <2>1, <2>2, <2>3 DEF Larger, Abs
<1>2. /\ FromPoint(c, p, bounds) = Normalised(a, 0, far)
      /\ FromPoint(c, q, bounds) = Normalised(b, 0, far)
  BY DEF FromPoint
<1> HIDE DEF reach
<1>3. 1 \in 1..3 /\ 2 \in 1..3 /\ 3 \in 1..3
  OBVIOUS
<1>4. a \in Nat /\ b \in Nat /\ far \in Nat
  <2>1. /\ reach[1] \in Int /\ reach[2] \in Int /\ reach[3] \in Int
        /\ p[1] - c[1] \in Int /\ p[2] - c[2] \in Int /\ p[3] - c[3] \in Int
        /\ q[1] - c[1] \in Int /\ q[2] - c[2] \in Int /\ q[3] - c[3] \in Int
    BY <1>1
  <2> QED BY <2>1, LengthIs DEF Distance
<1>5. b <= far
  <2> DEFINE d(k) == q[k] - c[k]
  <2>1. \A k \in 1..3 : d(k) * d(k) <= reach[k] * reach[k] /\ d(k) * d(k) \in Int /\ reach[k] * reach[k] \in Int
    <3> SUFFICES ASSUME NEW k \in 1..3
                 PROVE  d(k) * d(k) <= reach[k] * reach[k] /\ d(k) * d(k) \in Int /\ reach[k] * reach[k] \in Int
      OBVIOUS
    <3>1. d(k) \in Int /\ reach[k] \in Nat /\ Abs(d(k)) <= reach[k]
      BY <1>1
    <3> HIDE DEF d
    <3> QED BY <3>1, SquareBelow
  <2>2. /\ d(1) \in Int /\ d(2) \in Int /\ d(3) \in Int
        /\ reach[1] \in Int /\ reach[2] \in Int /\ reach[3] \in Int
    BY <1>1
  <2>3. b = Length(d(1), d(2), d(3))
    BY DEF Distance
  <2> HIDE DEF d
  <2>4. Squares(d(1), d(2), d(3)) <= Squares(reach[1], reach[2], reach[3])
    <3> DEFINE x(k) == d(k) * d(k)
               y(k) == reach[k] * reach[k]
    <3>1. \A k \in 1..3 : x(k) <= y(k) /\ x(k) \in Int /\ y(k) \in Int
      BY <2>1
    <3>2. /\ Squares(d(1), d(2), d(3)) = x(1) + x(2) + x(3)
          /\ Squares(reach[1], reach[2], reach[3]) = y(1) + y(2) + y(3)
      BY DEF Squares
    <3> HIDE DEF x, y
    <3> QED BY <1>3, <3>1, <3>2
  <2>5. Length(d(1), d(2), d(3)) <= Length(reach[1], reach[2], reach[3])
    BY <2>2, <2>4, LengthGrows, Zenon
  <2> QED BY <2>3, <2>5
<1> HIDE DEF far, a, b
<1>6. Normalised(a, 0, far) \in 0..One
  <2>1. a \in Int /\ 0 \in Int /\ far \in Int /\ 0 <= far
    BY <1>4
  <2> QED BY <2>1, NormalisedFits, Zenon
<1>7. ASSUME a < b
      PROVE  Normalised(a, 0, far) <= Normalised(b, 0, far) /\ Normalised(a, 0, far) < One
  BY <1>4, <1>5, <1>7, NormalisedFits
<1> QED BY <1>2, <1>6, <1>7 DEF a, b

LEMMA TurnsFit ==
  ASSUME NEW a \in Int, NEW b \in Int
  PROVE  Turns(a, b) \in Int
<1> DEFINE s == Abs(a) + Abs(b)
<1>1. s \in Nat /\ One \in Nat /\ One > 0
  BY GeometryAssumption DEF Abs
<1>2. CASE s = 0
  <2>1. a = 0 /\ b = 0
    BY <1>2 DEF Abs
  <2>2. Turns(0, 0) = 0
    BY DEF Turns, Abs
  <2> QED BY <2>1, <2>2
<1>3. CASE s > 0
  <2> DEFINE c == 4 * s
  <2>1. c \in Nat /\ c > 0
    BY <1>1, <1>3
  <2>2. /\ b * One \in Int /\ (-a) * One \in Int /\ (-b) * One \in Int /\ a * One \in Int
        /\ 3 * One \in Int
    BY <1>1
  <2>3. Turns(a, b) \in {(b * One) \div c, One \div 4 + ((-a) * One) \div c,
                         One \div 2 + ((-b) * One) \div c, (3 * One) \div 4 + (a * One) \div c}
    BY <1>1, <1>3 DEF Turns
  <2> HIDE DEF c, s
  <2>4. \A x \in Int : x \div c \in Int
    BY <2>1, Quotient
  <2>5. One \div 4 \in Int /\ One \div 2 \in Int /\ (3 * One) \div 4 \in Int
    BY <1>1
  <2> QED BY <2>2, <2>3, <2>4, <2>5
<1> QED BY <1>1, <1>2, <1>3

LEMMA AroundFits ==
  ASSUME NEW bounds, bounds.min \in Triple, bounds.max \in Triple, NEW axis, NEW p \in Triple
  PROVE  AroundAxis(axis, p, bounds) \in 0..One
<1> DEFINE d == [k \in 1..3 |-> p[k] - Centre(bounds)[k]]
<1>0. One \in Nat /\ One > 0
  BY GeometryAssumption
<1>1. ASSUME NEW k \in 1..3 PROVE d[k] \in Int
  <2>1. bounds.min[k] + bounds.max[k] \in Int /\ One \div 2 \in Int /\ p[k] \in Int
    BY <1>0 DEF Triple
  <2>2. Mul(bounds.min[k] + bounds.max[k], One \div 2) \in Int
    BY <2>1, MulFits
  <2> QED BY <2>1, <2>2 DEF Centre
<1>2. d[1] \in Int /\ d[2] \in Int /\ d[3] \in Int
  BY <1>1
<1> HIDE DEF d
<1>3. \E t \in Int : AroundAxis(axis, p, bounds) = t % One
  <2>1. Turns(d[2], d[3]) \in Int /\ Turns(d[3], d[1]) \in Int /\ Turns(d[1], d[2]) \in Int
    BY <1>2, TurnsFit
  <2>2. \E t \in {Turns(d[2], d[3]), Turns(d[3], d[1]), Turns(d[1], d[2])} :
           AroundAxis(axis, p, bounds) = t % One
    BY Zenon DEF AroundAxis, d
  <2> QED BY <2>1, <2>2
<1>4. \A t \in Int : t % One \in 0..One
  BY <1>0
<1> QED BY <1>3, <1>4

-----------------------------------------------------------------------------
(* The box around some LEDs, and where it puts them.                       *)

LEMMA EndsExist ==
  ASSUME NEW n \in Nat \ {0}, NEW x, \A i \in 1..n : x[i] \in Int
  PROVE  /\ \E i \in 1..n : \A j \in 1..n : x[i] <= x[j]
         /\ \E i \in 1..n : \A j \in 1..n : x[i] >= x[j]
<1> DEFINE D == 1..n
           low(i) == {j \in D : x[j] <= x[i]}
           high(i) == {j \in D : x[j] >= x[i]}
           Lows == {low(i) : i \in D}
           Highs == {high(i) : i \in D}
<1>1. IsFiniteSet(D)
  BY FS_Interval
<1>2. 1 \in D
  OBVIOUS
<1>3. \A i \in D : x[i] \in Int
  OBVIOUS
<1> HIDE DEF D
<1>4. /\ Lows \subseteq SUBSET D /\ Lows # {}
      /\ Highs \subseteq SUBSET D /\ Highs # {}
  BY <1>2
<1>5. \E i \in D : \A j \in D : x[i] <= x[j]
  <2> HIDE DEF Lows
  <2>1. PICK s \in Lows : \A t \in Lows : t \subseteq s => t = s
    BY <1>1, <1>4, SmallestSubset
  <2>2. PICK i \in D : s = low(i)
    BY <2>1 DEF Lows
  <2>3. ASSUME NEW j \in D, x[j] < x[i] PROVE FALSE
    <3>1. low(j) \subseteq low(i) /\ i \in low(i) /\ i \notin low(j)
      BY <1>3, <2>3
    <3>2. low(j) \in Lows
      BY DEF Lows
    <3> QED BY <2>1, <2>2, <3>1, <3>2
  <2> QED BY <1>3, <2>3
<1>6. \E i \in D : \A j \in D : x[i] >= x[j]
  <2> HIDE DEF Highs
  <2>1. PICK s \in Highs : \A t \in Highs : t \subseteq s => t = s
    BY <1>1, <1>4, SmallestSubset
  <2>2. PICK i \in D : s = high(i)
    BY <2>1 DEF Highs
  <2>3. ASSUME NEW j \in D, x[j] > x[i] PROVE FALSE
    <3>1. high(j) \subseteq high(i) /\ i \in high(i) /\ i \notin high(j)
      BY <1>3, <2>3
    <3>2. high(j) \in Highs
      BY DEF Highs
    <3> QED BY <2>1, <2>2, <3>1, <3>2
  <2> QED BY <1>3, <2>3
<1> QED BY <1>5, <1>6 DEF D

(* LEDs that are somewhere. *)
Standing(leds) ==
  Len(leds) \in Nat /\ DOMAIN leds = 1..Len(leds) /\ \A i \in 1..Len(leds) : leds[i].world \in Triple

LEMMA BoxFits ==
  ASSUME NEW leds, Standing(leds), leds # <<>>, Len(leds) # 0
  PROVE  /\ BoundsOf(leds).min \in Triple /\ BoundsOf(leds).max \in Triple
         /\ BoundsOf(leds).count = Len(leds)
         /\ \A i \in 1..Len(leds) : Within(leds[i].world, BoundsOf(leds))
<1> DEFINE n == Len(leds)
           at(k) == {leds[i].world[k] : i \in DOMAIN leds}
           least(S) == CHOOSE a \in S : \A b \in S : a <= b
           most(S) == CHOOSE a \in S : \A b \in S : a >= b
<1>1. BoundsOf(leds) = [min |-> [k \in 1..3 |-> least(at(k))],
                        max |-> [k \in 1..3 |-> most(at(k))], count |-> n]
  BY DEF BoundsOf
<1>2. ASSUME NEW k \in 1..3
      PROVE  /\ least(at(k)) \in Int /\ most(at(k)) \in Int
             /\ \A i \in 1..n : least(at(k)) <= leds[i].world[k] /\ leds[i].world[k] <= most(at(k))
  <2> DEFINE x == [i \in 1..n |-> leds[i].world[k]]
             S == at(k)
  <2>1. n \in Nat \ {0} /\ DOMAIN leds = 1..n
    BY DEF Standing
  <2>2. \A i \in 1..n : x[i] \in Int /\ x[i] = leds[i].world[k]
    BY DEF Standing, Triple
  <2>3. S = {x[i] : i \in 1..n}
    BY <2>1, <2>2
  <2> HIDE DEF x, n, S
  <2>4. /\ \E i \in 1..n : \A j \in 1..n : x[i] <= x[j]
        /\ \E i \in 1..n : \A j \in 1..n : x[i] >= x[j]
    BY <2>1, <2>2, EndsExist
  <2>5. \E a \in S : \A b \in S : a <= b
    BY <2>3, <2>4
  <2>6. \E a \in S : \A b \in S : a >= b
    BY <2>3, <2>4
  <2>7. least(S) \in S /\ \A b \in S : least(S) <= b
    BY <2>5
  <2>8. most(S) \in S /\ \A b \in S : most(S) >= b
    BY <2>6
  <2> HIDE DEF least, most
  <2>9. \A b \in S : b \in Int
    BY <2>2, <2>3
  <2>10. \A i \in 1..n : leds[i].world[k] \in S
    BY <2>2, <2>3
  <2> QED BY <2>7, <2>8, <2>9, <2>10 DEF S
<1> HIDE DEF least, most, at
<1> DEFINE lows == [k \in 1..3 |-> least(at(k))]
           highs == [k \in 1..3 |-> most(at(k))]
<1>3. BoundsOf(leds).min = lows /\ BoundsOf(leds).max = highs /\ BoundsOf(leds).count = n
  BY <1>1
<1>4. lows \in Triple /\ highs \in Triple
  BY <1>2 DEF Triple
<1>5. \A i \in 1..n : \A k \in 1..3 : lows[k] <= leds[i].world[k] /\ leds[i].world[k] <= highs[k]
  BY <1>2
<1> HIDE DEF lows, highs
<1> QED BY <1>3, <1>4, <1>5 DEF Within

LEMMA PlacedFits ==
  ASSUME NEW leds, Standing(leds)
  PROVE  PlacedWithin(leds, BoundsOf(leds))
<1> DEFINE n == Len(leds)
           B == BoundsOf(leds)
           u(pr, i) == Projected(pr, leds[i].world, B, i - 1)
           far(pr, i) == Reach(pr, leds[i].world, i - 1)
<1>0. n \in Nat /\ One \in Nat /\ One > 0
  BY GeometryAssumption DEF Standing
<1> SUFFICES ASSUME NEW pr \in Projection
             PROVE  /\ \A i, j \in 1..n :
                         /\ u(pr, i).u \in 0..One
                         /\ Ordering(pr) /\ far(pr, i) < far(pr, j)
                              => u(pr, i).u <= u(pr, j).u /\ u(pr, i).u < One
                         /\ pr.type = "grid" /\ i # j /\ n <= pr.width * pr.height
                              => u(pr, i).uv # u(pr, j).uv
                    /\ pr.type = "strip" /\ n > 1 => u(pr, n).u = One
  BY DEF PlacedWithin
<1>1. /\ pr.type \in {"strip", "grid", "axis", "radial", "angle"}
      /\ pr.type = "grid" => pr.width \in 0..(One + 1) /\ pr.height \in 0..(One + 1)
      /\ pr.type = "axis" => pr.vector \in Triple
      /\ pr.type = "radial" => pr.point \in Triple
  BY ProjectionAssumption DEF Triple
<1>2. ASSUME n # 0
      PROVE  /\ B.min \in Triple /\ B.max \in Triple /\ B.count = n
             /\ \A i \in 1..n : leds[i].world \in Triple /\ Within(leds[i].world, B)
  <2>1. leds # <<>>
    BY <1>2
  <2> QED BY <1>2, <2>1, BoxFits DEF Standing
<1> HIDE DEF B
<1>3. ASSUME NEW i \in 1..n, NEW j \in 1..n
      PROVE  /\ u(pr, i).u \in 0..One
             /\ Ordering(pr) /\ far(pr, i) < far(pr, j)
                  => u(pr, i).u <= u(pr, j).u /\ u(pr, i).u < One
  <2> DEFINE p == leds[i].world
             q == leds[j].world
  <2>1. /\ B.min \in Triple /\ B.max \in Triple /\ B.count = n
        /\ p \in Triple /\ q \in Triple /\ Within(p, B) /\ Within(q, B)
    BY <1>0, <1>2
  <2>2. CASE pr.type = "axis"
    <3>1. u(pr, i).u = AlongVector(pr.vector, p, B) /\ u(pr, j).u = AlongVector(pr.vector, q, B)
      BY <2>2 DEF Projected
    <3>2. far(pr, i) = Dot(p, pr.vector) /\ far(pr, j) = Dot(q, pr.vector)
      BY <2>2 DEF Reach
    <3>3. Ordering(pr) => (\A k \in 1..3 : pr.vector[k] >= 0) \/ (\A k \in 1..3 : pr.vector[k] <= 0)
      BY <2>2 DEF Ordering
    <3>4. pr.vector \in Triple
      BY <1>1, <2>2
    <3> DEFINE v == pr.vector
    <3> HIDE DEF u, far, p, q, v
    <3>5. AlongVector(v, p, B) \in 0..One
      BY <2>1, <3>4, AlongFits DEF v
    <3>6. /\ (\A k \in 1..3 : v[k] >= 0) \/ (\A k \in 1..3 : v[k] <= 0)
          /\ Dot(p, v) < Dot(q, v)
          => AlongVector(v, p, B) <= AlongVector(v, q, B) /\ AlongVector(v, p, B) < One
      BY <2>1, <3>4, AlongFits DEF v
    <3> QED BY <3>1, <3>2, <3>3, <3>5, <3>6 DEF v
  <2>3. CASE pr.type = "radial"
    <3>1. u(pr, i).u = FromPoint(pr.point, p, B) /\ u(pr, j).u = FromPoint(pr.point, q, B)
      BY <2>3 DEF Projected
    <3>2. far(pr, i) = Distance(p, pr.point) /\ far(pr, j) = Distance(q, pr.point)
      BY <2>3 DEF Reach
    <3>3. pr.point \in Triple
      BY <1>1, <2>3
    <3> HIDE DEF u, far, p, q
    <3> QED BY <2>1, <3>1, <3>2, <3>3, FromFits
  <2>4. CASE pr.type = "angle"
    <3>1. u(pr, i).u = AroundAxis(pr.axis, p, B)
      BY <2>4 DEF Projected
    <3>2. ~Ordering(pr)
      BY <2>4 DEF Ordering
    <3> HIDE DEF u, far, p, q
    <3> QED BY <2>1, <3>1, <3>2, AroundFits
  <2>5. CASE pr.type \in {"strip", "grid"}
    <3>1. u(pr, i).u = Fraction(i - 1, n) /\ u(pr, j).u = Fraction(j - 1, n)
      BY <2>1, <2>5 DEF Projected
    <3>2. far(pr, i) = i - 1 /\ far(pr, j) = j - 1
      BY <2>5 DEF Reach
    <3>3. i - 1 \in Nat /\ j - 1 \in Nat /\ j - 1 < n
      BY <1>0
    <3> HIDE DEF u, far, n
    <3> QED BY <1>0, <3>1, <3>2, <3>3, FractionFits
  <2> QED BY <1>1, <2>2, <2>3, <2>4, <2>5
<1>4. ASSUME NEW i \in 1..n, NEW j \in 1..n, pr.type = "grid", i # j, n <= pr.width * pr.height
      PROVE  u(pr, i).uv # u(pr, j).uv
  <2> DEFINE w == pr.width
             h == pr.height
  <2>1. u(pr, i).uv = GridCell(w, h, i - 1) /\ u(pr, j).uv = GridCell(w, h, j - 1)
    BY <1>4 DEF Projected
  <2>2. w \in 0..(One + 1) /\ h \in 0..(One + 1)
    BY <1>1, <1>4
  <2>3. i - 1 \in Nat /\ j - 1 \in Nat /\ i - 1 # j - 1
    BY <1>0, <1>4
  <2>4. i - 1 < w * h /\ j - 1 < w * h
    <3>1. w * h \in Int /\ n <= w * h
      BY <1>0, <1>4, <2>2
    <3> HIDE DEF w, h, n
    <3> QED BY <1>0, <3>1
  <2> HIDE DEF w, h, u
  <2>5. GridCell(w, h, i - 1) # GridCell(w, h, j - 1)
    <3>1. CASE i - 1 < j - 1
      BY <2>2, <2>3, <2>4, <3>1, CellsApart
    <3>2. CASE j - 1 < i - 1
      BY <2>2, <2>3, <2>4, <3>2, CellsApart
    <3> QED BY <2>3, <3>1, <3>2
  <2> QED BY <2>1, <2>5
<1>5. ASSUME pr.type = "strip", n > 1 PROVE u(pr, n).u = One
  <2>1. B.count = n
    BY <1>2, <1>5
  <2>2. u(pr, n).u = Fraction(n - 1, n)
    BY <1>5, <2>1 DEF Projected
  <2>3. n - 1 \in Nat
    BY <1>0, <1>5
  <2> HIDE DEF u, n
  <2> QED BY <1>0, <1>5, <2>2, <2>3, FractionFits
<1> HIDE DEF u, far
<1> QED BY <1>3, <1>4, <1>5

(* The members of a zone stand where the LEDs of the device stand.         *)
LEMMA MembersStand ==
  ASSUME NEW zone, NEW dev, Standing(dev.leds)
  PROVE  Standing(MembersOf(zone, dev))
<1> DEFINE leds == dev.leds
           n == Len(leds)
           L == {leds[i] : i \in 1..n}
           Joined(q, l) == IF Selects(zone, dev, l) THEN Append(q, l) ELSE q
           Eq(g) == g = [k \in 0..n |->
                           IF k = 0 THEN <<>>
                           ELSE IF Selects(zone, dev, leds[k]) THEN Append(g[k - 1], leds[k])
                           ELSE g[k - 1]]
           among == CHOOSE g : Eq(g)
<1>1. MembersOf(zone, dev) = among[n]
  BY Zenon DEF MembersOf
<1>2. n \in Nat /\ \A l \in L : l.world \in Triple
  BY DEF Standing
<1>3. \A i \in 1..n : leds[i] \in L
  OBVIOUS
<1>4. <<>> \in Seq(L) /\ \A q \in Seq(L) : \A l \in L : Joined(q, l) \in Seq(L)
  OBVIOUS
<1> HIDE DEF n, L, leds
<1> DEFINE F == [a \in Seq(L) \X (1..n) |-> Joined(a[1], leds[a[2]])]
<1>5. F \in [Seq(L) \X (1..n) -> Seq(L)]
  BY <1>3, <1>4
<1>6. \A q \in Seq(L) : \A k \in 1..n : F[<<q, k>>] = Joined(q, leds[k])
  OBVIOUS
<1> HIDE DEF F
<1>7. PICK h \in [SUBSET (1..n) -> Seq(L)] : IsFoldLeft(h, n, <<>>, F)
  BY <1>2, <1>4, <1>5, FoldFromLeft
<1>8. h[{}] = <<>>
  BY <1>7, Zenon DEF IsFoldLeft
<1> DEFINE g == [k \in 0..n |-> h[1..k]]
<1>9. ASSUME NEW k \in 0..n, k # 0
      PROVE  g[k] = Joined(g[k - 1], leds[k])
  <2>0. n \in Nat /\ k \in Nat /\ 1 <= k /\ k <= n
    BY <1>2, <1>9
  <2>1. k \in 1..n /\ k - 1 \in 0..n
    BY <2>0
  <2>7. (1..k) \in SUBSET (1..n) /\ (1..k) # {}
    <3>1. (1..k) \subseteq 1..n /\ 1 \in 1..k
      BY <2>0
    <3> QED BY <3>1, Zenon
  <2>2. Max(1..k) = k
    <3>1. Max(1..k) \in 1..k /\ \A m \in 1..k : m <= Max(1..k)
      BY <2>0, <2>7, LargestNumber
    <3> QED BY <2>0, <3>1
  <2>3. (1..k) \ {k} = 1..(k - 1)
    BY <2>0
  <2>4. h[1..k] = F[<<h[(1..k) \ {Max(1..k)}], Max(1..k)>>]
    BY <1>7, <2>7, Zenon DEF IsFoldLeft
  <2>5. h[1..(k - 1)] \in Seq(L)
    <3>1. (1..(k - 1)) \in SUBSET (1..n)
      BY <2>0
    <3> QED BY <3>1
  <2>6. h[1..k] = Joined(h[1..(k - 1)], leds[k])
    BY <1>6, <2>1, <2>2, <2>3, <2>4, <2>5
  <2> HIDE DEF Joined
  <2> QED BY <2>1, <2>6
<1>10. Eq(g)
  <2>1. g[0] = <<>>
    <3>1. (1..0) = {} /\ 0 \in 0..n
      BY <1>2
    <3> QED BY <1>8, <3>1
  <2>2. g = [k \in 0..n |-> g[k]]
    OBVIOUS
  <2> HIDE DEF g
  <2>3. g = [k \in 0..n |-> IF k = 0 THEN <<>>
                            ELSE IF Selects(zone, dev, leds[k]) THEN Append(g[k - 1], leds[k])
                            ELSE g[k - 1]]
    BY <1>9, <2>1, <2>2
  <2> QED BY <2>3, Zenon
<1>11. Eq(among)
  <2> HIDE DEF Eq, g
  <2> QED BY <1>10, Zenon
<1> HIDE DEF among
<1>12. \A k \in 0..n : among[k] = IF k = 0 THEN <<>> ELSE Joined(among[k - 1], leds[k])
  BY <1>11, Zenon
<1>13. among[n] \in Seq(L)
  <2> DEFINE Bad == {k \in 0..n : among[k] \notin Seq(L)}
  <2> SUFFICES ASSUME Bad # {} PROVE FALSE
    BY <1>2
  <2>1. PICK k \in Bad : \A m \in Bad : k <= m
    <3>1. Bad \subseteq Nat
      BY <1>2
    <3> HIDE DEF Bad
    <3> QED BY <3>1, LeastNumber
  <2>2. k \in 0..n /\ k # 0
    BY <1>4, <1>12, <2>1
  <2>3. k - 1 \in 0..n /\ k \in 1..n
    BY <1>2, <2>2
  <2>4. among[k - 1] \in Seq(L)
    BY <2>1, <2>3
  <2>5. among[k] = Joined(among[k - 1], leds[k])
    BY <1>12, <2>2
  <2> HIDE DEF Joined
  <2>6. among[k] \in Seq(L)
    BY <1>3, <1>4, <2>3, <2>4, <2>5
  <2> QED BY <2>1, <2>6
<1> QED BY <1>1, <1>2, <1>13 DEF Standing

-----------------------------------------------------------------------------
(* The machine: what is made of a request that can be read.                *)

Kinds == {"none", "node", "sources", "channel", "gateway", "zone", "records", "keepers", "render"}

Bindings == [id : Uuid, ceiling : 0..(U8 - 1), pixels : (0..PixelMax) \X (0..PixelMax)]

InTime(b) == b.source.pushedAt \in Nat /\ b.source.kind.priority \in Nat

(* Of a machine that has a model here, what the model takes for granted.   *)
Fits(m) ==
  /\ "kind" \in DOMAIN m /\ m.kind \in Kinds
  /\ m.kind = "gateway" => m \in [kind : {"gateway"}, binding : Bindings]
  /\ m.kind = "keepers" => m \in [kind : {"keepers"}, claims : Seq(Claim)]
  /\ m.kind = "zone" => Standing(m.dev.leds)
  /\ m.kind = "render" => /\ "bound" \in DOMAIN m /\ m.bound \in Seq(Range(m.bound))
                          /\ \A i \in DOMAIN m.bound : InTime(m.bound[i])

LEMMA NumberIsNat ==
  ASSUME NEW j, NEW key, NEW default \in Nat
  PROVE  NumberOr(j, key, default) \in Nat
BY Zenon DEF NumberOr, Only, NumberAt

LEMMA LowBits ==
  ASSUME NEW n \in Nat, NEW u \in Nat \ {0}
  PROVE  n % u \in 0..(u - 1)
OBVIOUS

LEMMA BindingFits ==
  ASSUME NEW j, NEW m \in BuildBinding(j)
  PROVE  m \in [kind : {"gateway"}, binding : Bindings]
<1>1. PICK f \in [id : UuidAt(j, "id"), zone : UuidAt(j, "zone"),
                  ceiling : NumberAt(j, "priority_ceiling"),
                  protocol : WordAt(j, "protocol") \cap Protocols] :
           m = [kind |-> "gateway",
                binding |-> [id |-> f.id, ceiling |-> f.ceiling % U8,
                             pixels |-> <<NumberOr(j, "pixel_from", 0) % U16,
                                          NumberOr(j, "pixel_to", 0) % U16>>]]
  BY Zenon DEF BuildBinding
<1>2. f.id \in Uuid /\ f.ceiling \in Nat
  BY DEF UuidAt, NumberAt
<1>3. /\ f.ceiling % U8 \in 0..(U8 - 1)
      /\ NumberOr(j, "pixel_from", 0) % U16 \in 0..PixelMax
      /\ NumberOr(j, "pixel_to", 0) % U16 \in 0..PixelMax
  BY <1>2, NumberIsNat, LowBits, AdapterAssumption
<1> QED BY <1>1, <1>2, <1>3 DEF Bindings

LEMMA BuiltEach ==
  ASSUME NEW n \in Nat, NEW C, NEW built,
         DOMAIN built = 1..n, \A i \in 1..n : built[i] \subseteq C, NEW cs \in AllBuilt(built)
  PROVE  cs \in Seq(C)
<1>1. /\ \A i \in 1..n : built[i] # {}
      /\ cs = [i \in 1..n |-> Only(built[i], {})]
  BY DEF AllBuilt
<1>2. \A i \in 1..n : Only(built[i], {}) \in built[i]
  BY <1>1, Zenon DEF Only
<1>3. cs \in [1..n -> C]
  BY <1>1, <1>2
<1> QED BY <1>3

LEMMA ListIsSeq ==
  ASSUME NEW j, NEW key, NEW l, l = Only(ListAt(j, key), <<>>)
  PROVE  Len(l) \in Nat /\ DOMAIN l = 1..Len(l)
<1>1. CASE ListAt(j, key) = {}
  <2>1. l = <<>>
    BY <1>1 DEF Only
  <2> QED BY <2>1
<1>2. CASE ListAt(j, key) # {}
  <2>1. l \in ListAt(j, key)
    BY <1>2, Zenon DEF Only
  <2> QED BY <2>1 DEF ListAt
<1> QED BY <1>1, <1>2

LEMMA KeepersFit ==
  ASSUME NEW j, NEW m \in BuildKeepers(j)
  PROVE  m \in [kind : {"keepers"}, claims : Seq(Claim)]
<1> DEFINE peers == Only(ListAt(j, "peers"), <<>>)
           claim(p) == {[uuid |-> u, flash |-> NumberOr(p, "flash_kib", 0) % U32,
                         capacity |-> NumberOr(p, "capacity", 0) % U32,
                         eligible |-> Only(FlagAt(p, "eligible"), TRUE)] :
                        u \in UuidAt(p, "uuid")}
           built == [i \in DOMAIN peers |-> claim(peers[i])]
<1>1. PICK cs \in AllBuilt(built) : m = [kind |-> "keepers", claims |-> cs]
  BY Zenon DEF BuildKeepers
<1>2. Len(peers) \in Nat /\ DOMAIN peers = 1..Len(peers)
  <2> HIDE DEF peers
  <2> QED BY ListIsSeq DEF peers
<1>3. ASSUME NEW p PROVE claim(p) \subseteq Claim
  <2>1. \A u \in UuidAt(p, "uuid") : u \in Int
    BY AdapterAssumption DEF UuidAt
  <2>2. NumberOr(p, "flash_kib", 0) % U32 \in Nat /\ NumberOr(p, "capacity", 0) % U32 \in Nat
    <3>1. \A key : NumberOr(p, key, 0) \in Nat
      BY NumberIsNat
    <3>2. \A n \in Nat : n % U32 \in Nat
      BY LowBits, AdapterAssumption
    <3> QED BY <3>1, <3>2
  <2>3. Only(FlagAt(p, "eligible"), TRUE) \in BOOLEAN
    BY Zenon DEF Only, FlagAt
  <2> SUFFICES ASSUME NEW c \in claim(p) PROVE c \in Claim
    OBVIOUS
  <2>4. PICK u \in UuidAt(p, "uuid") :
             c = [uuid |-> u, flash |-> NumberOr(p, "flash_kib", 0) % U32,
                  capacity |-> NumberOr(p, "capacity", 0) % U32,
                  eligible |-> Only(FlagAt(p, "eligible"), TRUE)]
    BY Zenon
  <2> QED BY <2>1, <2>2, <2>3, <2>4 DEF Claim
<1>4. cs \in Seq(Claim)
  <2>1. DOMAIN built = 1..Len(peers) /\ \A i \in 1..Len(peers) : built[i] \subseteq Claim
    BY <1>2, <1>3
  <2> HIDE DEF built, peers
  <2> QED BY <1>2, <2>1, BuiltEach
<1> QED BY <1>1, <1>4

LEMMA TripleFits ==
  ASSUME NEW j, NEW key
  PROVE  TripleAt(j, key) \in Triple
<1>1. ASSUME NEW v PROVE Q16From(v) \in Int
  <2>1. \A a \in Int : ((a + U32 \div 2) % U32) - (U32 \div 2) \in Int
    BY AdapterAssumption
  <2> QED BY <2>1 DEF Q16From
<1> DEFINE l == Only(ListAt(j, key), <<>>)
<1>2. TripleAt(j, key) = [k \in 1..3 |-> IF k <= Len(l) THEN Q16From(l[k]) ELSE 0]
  BY Zenon DEF TripleAt
<1> HIDE DEF l
<1> QED BY <1>1, <1>2 DEF Triple

LEMMA ZoneFits ==
  ASSUME NEW j, NEW m \in BuildZoneState(j)
  PROVE  "kind" \in DOMAIN m /\ m.kind = "zone" /\ Standing(m.dev.leds)
<1> DEFINE zones == UNION {BuildZone(v) : v \in At(j, "zone")}
           devs == UNION {BuildDevice(v) : v \in At(j, "device")}
<1>1. PICK f \in [zone : zones, dev : devs] :
           m = [kind |-> "zone", zone |-> f.zone, dev |-> f.dev]
  BY Zenon DEF BuildZoneState
<1>2. f.dev \in devs
  <2> HIDE DEF zones, devs
  <2> QED BY <1>1
<1>3. PICK v \in At(j, "device") : f.dev \in BuildDevice(v)
  BY <1>2
<1>4. PICK d \in UuidAt(v, "device"),
           q \in WordAt(v, "quality") \cap {"synthetic", "rough", "mapped"},
           l \in ListAt(v, "leds") :
           f.dev = [device |-> d, quality |-> q,
                    leds |-> [i \in DOMAIN l |-> [index |-> NumberOr(l[i], "index", 0) % U16,
                                                   world |-> TripleAt(l[i], "world")]]]
  BY <1>3 DEF BuildDevice
<1> DEFINE leds == [i \in DOMAIN l |-> [index |-> NumberOr(l[i], "index", 0) % U16,
                                         world |-> TripleAt(l[i], "world")]]
<1>5. m.dev.leds = leds /\ "kind" \in DOMAIN m /\ m.kind = "zone"
  BY <1>1, <1>4
<1>6. Len(l) \in Nat /\ DOMAIN l = 1..Len(l)
  BY DEF ListAt
<1>7. DOMAIN leds = 1..Len(l) /\ \A i \in 1..Len(l) : leds[i].world \in Triple
  BY <1>6, TripleFits
<1>8. Len(leds) = Len(l)
  BY <1>6, <1>7
<1> HIDE DEF leds
<1> QED BY <1>5, <1>6, <1>7, <1>8 DEF Standing

Named(m, kind) == "kind" \in DOMAIN m /\ m.kind = kind

LEMMA OthersNamed ==
  ASSUME NEW j
  PROVE  /\ \A m \in BuildNode(j) : Named(m, "node")
         /\ \A m \in BuildSources(j) : Named(m, "sources")
         /\ \A m \in BuildChannel(j) : Named(m, "channel")
         /\ \A m \in BuildAuthority(j) : Named(m, "records")
         /\ \A m \in BuildRender(j) : Named(m, "render") /\ "bound" \in DOMAIN m /\ m.bound = <<>>
<1>1. \A m \in BuildNode(j) : Named(m, "node")
  BY DEF BuildNode, Named
<1>2. \A m \in BuildSources(j) : Named(m, "sources")
  BY DEF BuildSources, Named
<1>3. \A m \in BuildChannel(j) : Named(m, "channel")
  BY DEF BuildChannel, Named
<1>5. \A m \in BuildAuthority(j) : Named(m, "records")
  <2> DEFINE pairs(key) ==
               LET l == Only(ListAt(j, key), <<>>)
               IN  AllBuilt([i \in DOMAIN l |-> UuidAt(l[i], "id") \X (HexAt(l[i], "key") \cap Key)])
             Both == [controllers : pairs("controllers"), devices : pairs("devices")]
  <2>1. BuildAuthority(j) = {[kind |-> "records", fed |-> <<>>, made |-> f] : f \in Both}
    BY Zenon DEF BuildAuthority
  <2> HIDE DEF Both
  <2> QED BY <2>1 DEF Named
<1>6. \A m \in BuildRender(j) : Named(m, "render") /\ "bound" \in DOMAIN m /\ m.bound = <<>>
  BY DEF BuildRender, Named
<1> QED BY <1>1, <1>2, <1>3, <1>5, <1>6

LEMMA BuiltFits ==
  ASSUME NEW name, NEW j, NEW m \in BuildMachine(name, j)
  PROVE  Fits(m)
<1>1. CASE name = "gateway"
  <2>1. m \in BuildBinding(j)
    BY <1>1 DEF BuildMachine
  <2> QED BY <2>1, BindingFits DEF Fits, Kinds
<1>2. CASE name = "keepers"
  <2>1. m \in BuildKeepers(j)
    BY <1>2 DEF BuildMachine
  <2> QED BY <2>1, KeepersFit DEF Fits, Kinds
<1>5. CASE name = "render"
  <2>1. Named(m, "render") /\ "bound" \in DOMAIN m /\ m.bound = <<>>
    BY <1>5, OthersNamed DEF BuildMachine
  <2> QED BY <2>1 DEF Named, Fits, Kinds
<1>3. CASE name \in {"node", "sources", "channel", "records"}
  <2>1. Named(m, name)
    BY <1>3, OthersNamed DEF BuildMachine
  <2> QED BY <1>3, <2>1 DEF Named, Fits, Kinds
<1>6. CASE name = "zone"
  <2>1. m \in BuildZoneState(j)
    BY <1>6 DEF BuildMachine
  <2> QED BY <2>1, ZoneFits DEF Fits, Kinds
<1>4. CASE name \notin Kinds \ {"none"}
  BY <1>4 DEF BuildMachine, Kinds
<1> QED BY <1>1, <1>2, <1>3, <1>4, <1>5, <1>6 DEF Kinds

-----------------------------------------------------------------------------
(* What an event does.                                                     *)

(* An answer that does not show a frame. *)
Quiet(actions) == \A i \in DOMAIN actions : "painted" \notin DOMAIN actions[i]

(* The answer that does. *)
Showed ==
  /\ machine.kind = "render" /\ UNCHANGED <<machine, stackVars>>
  /\ \E at : Ok(<<[painted |-> Painted(at)]>>)

Answered == Showed \/ \E actions : Ok(actions) /\ Quiet(actions)

(* What an event does to the machine. *)
Kept == (Fails \/ Answered) /\ Fits(machine') /\ machine'.kind = machine.kind

LEMMA ShortIsQuiet ==
  /\ Quiet(<<>>)
  /\ \A a : "painted" \notin DOMAIN a => Quiet(<<a>>)
BY DEF Quiet

LEMMA FailsKeeps ==
  ASSUME Fits(machine), Fails
  PROVE  Kept
BY DEF Fails, Kept

LEMMA TellsKeeps ==
  ASSUME Fits(machine), NEW a, "painted" \notin DOMAIN a, Tells(<<a>>)
  PROVE  Kept
<1>1. Ok(<<a>>) /\ UNCHANGED machine
  BY DEF Tells
<1>2. Answered
  BY <1>1, ShortIsQuiet DEF Answered
<1> QED BY <1>1, <1>2 DEF Kept

LEMMA FeedKeeps ==
  ASSUME Fits(machine), machine.kind \notin {"gateway", "keepers", "zone", "render"},
         NEW built, FeedOrFail(built)
  PROVE  Kept
<1>1. CASE built = {}
  <2>1. Fails
    BY <1>1 DEF FeedOrFail
  <2> QED BY <2>1, FailsKeeps
<1>2. CASE built # {}
  <2>1. PICK call \in built : Feed(call)
    BY <1>2 DEF FeedOrFail
  <2>2. Ok(<<>>) /\ machine' = [machine EXCEPT !.fed = Append(@, call)]
    BY <2>1 DEF Feed
  <2>3. "kind" \in DOMAIN machine' /\ machine'.kind = machine.kind
    BY <2>2 DEF Fits
  <2>4. Answered
    BY <2>2, ShortIsQuiet DEF Answered
  <2> QED BY <2>3, <2>4 DEF Fits, Kept
<1> QED BY <1>1, <1>2

LEMMA CallsAnswer ==
  ASSUME NEW at
  PROVE  /\ \A s : Pushed(at, s) => Answered
         /\ \A id : Popped(at, id) => Answered
         /\ Advanced(at) => Answered
<1>1. Ok(<<>>) => Answered
  BY ShortIsQuiet DEF Answered
<1>2. ASSUME NEW id, Ok(<<[refused |-> id]>>) PROVE Answered
  <2>1. Quiet(<<[refused |-> id]>>)
    BY ShortIsQuiet
  <2> QED BY <1>2, <2>1 DEF Answered
<1>3. ASSUME NEW s, Pushed(at, s) PROVE Answered
  BY <1>1, <1>2, <1>3, Zenon DEF Pushed
<1>4. ASSUME NEW id, Popped(at, id) PROVE Answered
  BY <1>1, <1>2, <1>4, Zenon DEF Popped
<1>5. Advanced(at) => Answered
  BY <1>1, Zenon DEF Advanced
<1> QED BY <1>3, <1>4, <1>5

LEMMA ZoneKeeps ==
  ASSUME Fits(machine), NEW kind, ZoneEvent(kind)
  PROVE  Kept
<1>1. Fails \/ \E a : Tells(<<[selected |-> a]>>) \/ Tells(<<[excluded |-> a]>>)
  BY Zenon DEF ZoneEvent
<1> QED BY <1>1, FailsKeeps, TellsKeeps

LEMMA GatewayKeeps ==
  ASSUME Fits(machine), NEW at, NEW kind, NEW ev, GatewayEvent(at, kind, ev)
  PROVE  Kept
<1>1. \/ Fails
      \/ Tells(<<Judged(at, IngressFrom(ev))>>)
      \/ \E a : Tells(<<[accepted |-> a]>>) \/ Tells(<<[highest |-> a]>>)
  BY Zenon DEF GatewayEvent
<1>2. "painted" \notin DOMAIN Judged(at, IngressFrom(ev))
  BY DEF Judged
<1> QED BY <1>1, <1>2, FailsKeeps, TellsKeeps

LEMMA RankKeeps ==
  ASSUME Fits(machine), machine.kind = "keepers",
         NEW a, "painted" \notin DOMAIN a, Ranks(<<a>>)
  PROVE  Kept
<1>1. Ok(<<a>>) /\ machine' = [machine EXCEPT !.claims = SortedClaims(machine.claims)]
  BY DEF Ranks
<1>2. machine \in [kind : {"keepers"}, claims : Seq(Claim)]
  BY DEF Fits
<1>3. SortedClaims(machine.claims) \in Seq(Claim)
  BY <1>2, SortedType
<1>4. machine' \in [kind : {"keepers"}, claims : Seq(Claim)]
  BY <1>1, <1>2, <1>3
<1>5. Fits(machine') /\ machine'.kind = machine.kind
  BY <1>4 DEF Fits, Kinds
<1>6. Answered
  BY <1>1, ShortIsQuiet DEF Answered
<1> QED BY <1>5, <1>6 DEF Kept

LEMMA KeepersKeep ==
  ASSUME Fits(machine), machine.kind = "keepers", NEW kind, NEW ev, KeepersEvent(kind, ev)
  PROVE  Kept
<1>1. \/ Fails
      \/ \E c, q : Ranks(<<[keepers |-> c, quorum |-> q]>>)
      \/ \E a : Ranks(<<[keeper |-> a]>>)
  BY Zenon DEF KeepersEvent
<1>2. \A c, q : "painted" \notin DOMAIN [keepers |-> c, quorum |-> q]
  OBVIOUS
<1>3. \A a : "painted" \notin DOMAIN [keeper |-> a]
  OBVIOUS
<1> QED BY <1>1, <1>2, <1>3, FailsKeeps, RankKeeps

LEMMA SourcesKeep ==
  ASSUME Fits(machine), NEW at, NEW kind, NEW ev, SourcesEvent(at, kind, ev)
  PROVE  Kept
<1>1. Fails \/ (Answered /\ UNCHANGED machine)
  BY CallsAnswer, Zenon DEF SourcesEvent
<1> QED BY <1>1, FailsKeeps DEF Kept

LEMMA SourceInTime ==
  ASSUME NEW ev, NEW at, NEW s \in BuildSource(ev, at)
  PROVE  s.pushedAt = at /\ s.kind.priority \in Nat
<1>1. \A p \in NumberAt(ev, "priority") : p % U8 \in Nat
  BY LowBits, AdapterAssumption DEF NumberAt
<1> QED BY <1>1 DEF BuildSource

LEMMA BindKeeps ==
  ASSUME Fits(machine), machine.kind = "render", NEW b, Bind(b), InTime(b)
  PROVE  Fits(machine') /\ machine'.kind = machine.kind
<1> DEFINE bound == machine.bound
<1>1. /\ "bound" \in DOMAIN machine /\ bound \in Seq(Range(bound))
      /\ \A i \in DOMAIN bound : InTime(bound[i])
  BY DEF Fits
<1>2. machine' = [machine EXCEPT !.bound = Append(bound, b)]
  BY DEF Bind
<1>3. "kind" \in DOMAIN machine' /\ machine'.kind = machine.kind
  BY <1>2 DEF Fits
<1>4. "bound" \in DOMAIN machine' /\ machine'.bound = Append(bound, b)
  BY <1>1, <1>2
<1> HIDE DEF bound
<1>5. bound \in Seq(Range(bound) \cup {b}) /\ Append(bound, b) \in Seq(Range(bound) \cup {b})
  BY <1>1
<1>6. /\ DOMAIN Append(bound, b) = 1..(Len(bound) + 1) /\ Len(bound) \in Nat
      /\ \A i \in 1..(Len(bound) + 1) :
           Append(bound, b)[i] = IF i <= Len(bound) THEN bound[i] ELSE b
      /\ DOMAIN bound = 1..Len(bound)
  BY <1>1, <1>5
<1>7. \A i \in DOMAIN Append(bound, b) : InTime(Append(bound, b)[i])
  BY <1>1, <1>6
<1>8. Append(bound, b) \in Seq(Range(Append(bound, b)))
  BY <1>5, ListOfItsOwn
<1> QED BY <1>3, <1>4, <1>7, <1>8 DEF Fits, bound

LEMMA RenderKeeps ==
  ASSUME Fits(machine), machine.kind = "render", NEW at \in Nat, NEW kind, NEW ev,
         RenderEvent(at, kind, ev)
  PROVE  Kept
<1>1. \/ Fails
      \/ Tells(<<[painted |-> Painted(at)]>>)
      \/ Answered /\ UNCHANGED machine
      \/ \E b \in BoundOf(ev, at) : Pushed(at, b.source) /\ Bind(b)
  BY CallsAnswer, Zenon DEF RenderEvent
<1>2. CASE Tells(<<[painted |-> Painted(at)]>>)
  <2>1. Showed /\ UNCHANGED machine
    BY <1>2 DEF Tells, Showed
  <2> QED BY <2>1 DEF Kept, Answered
<1>3. CASE \E b \in BoundOf(ev, at) : Pushed(at, b.source) /\ Bind(b)
  <2>1. PICK b \in BoundOf(ev, at) : Pushed(at, b.source) /\ Bind(b)
    BY <1>3
  <2>2. b.source \in BuildSource(ev, at)
    BY DEF BoundOf
  <2>3. InTime(b)
    BY <2>2, SourceInTime DEF InTime
  <2> QED BY <2>1, <2>3, BindKeeps, CallsAnswer DEF Kept
<1>4. CASE Answered /\ UNCHANGED machine
  BY <1>4 DEF Kept
<1> QED BY <1>1, <1>2, <1>3, <1>4, FailsKeeps

LEMMA EventKeeps ==
  ASSUME Fits(machine), NEW body, Event(body)
  PROVE  Kept
<1> DEFINE at == NumberOr(body, "at_us", 0)
           ev == Only(At(body, "event"), [number |-> 0])
           kind == Only(WordAt(ev, "event"), "")
<1>1. CASE WordAt(ev, "event") = {} \/ machine.kind = "none"
  <2>1. Fails
    BY <1>1, Zenon DEF Event
  <2> QED BY <2>1, FailsKeeps
<1>2. CASE ~(WordAt(ev, "event") = {} \/ machine.kind = "none")
  <2>1. /\ machine.kind = "node" => NodeEvent(at, kind, ev)
        /\ machine.kind = "sources" => SourcesEvent(at, kind, ev)
        /\ machine.kind = "channel" => ChannelEvent(at, kind, ev)
        /\ machine.kind = "gateway" => GatewayEvent(at, kind, ev)
        /\ machine.kind = "zone" => ZoneEvent(kind)
        /\ machine.kind = "records" => RecordsEvent(kind, ev)
        /\ machine.kind = "render" => RenderEvent(at, kind, ev)
        /\ machine.kind = "keepers" => KeepersEvent(kind, ev)
    BY <1>2 DEF Event
  <2>0. at \in Nat
    BY NumberIsNat
  <2> HIDE DEF at, ev, kind
  <2>2. CASE machine.kind = "node"
    BY <2>1, <2>2, FeedKeeps DEF NodeEvent
  <2>3. CASE machine.kind = "channel"
    BY <2>1, <2>3, FeedKeeps DEF ChannelEvent
  <2>4. CASE machine.kind = "records"
    BY <2>1, <2>4, FeedKeeps DEF RecordsEvent
  <2>5. CASE machine.kind \notin {"node", "channel", "records"}
    BY <1>2, <2>0, <2>1, <2>5, SourcesKeep, GatewayKeeps, ZoneKeeps, RenderKeeps, KeepersKeep
       DEF Fits, Kinds
  <2> QED BY <2>2, <2>3, <2>4, <2>5
<1> QED BY <1>1, <1>2

(* Every line that is not passed over is answered, and a machine stays one *)
(* of its kind.                                                            *)
LEMMA RespondKeeps ==
  ASSUME Fits(machine), NEW r, Respond(r)
  PROVE  (Fails \/ Answered) /\ Fits(machine')
<1>1. \/ Fails
      \/ Ok(<<>>) /\ UNCHANGED machine
      \/ Reset(r.body)
      \/ Event(r.body)
  BY Zenon DEF Respond
<1>2. CASE Reset(r.body)
  <2>1. Fails \/ (machine' \in Made(r.body) /\ Ok(<<>>))
    BY <1>2 DEF Reset
  <2>2. ASSUME machine' \in Made(r.body) PROVE Fits(machine')
    <3>1. PICK f \in [machine : WordAt(r.body, "machine"), state : At(r.body, "state")] :
               machine' \in BuildMachine(f.machine, f.state)
      BY <2>2 DEF Made
    <3> QED BY <3>1, BuiltFits
  <2> QED BY <2>1, <2>2, FailsKeeps, ShortIsQuiet DEF Answered, Kept
<1>3. CASE Ok(<<>>) /\ UNCHANGED machine
  BY <1>3, ShortIsQuiet DEF Answered
<1> QED BY <1>1, <1>2, <1>3, FailsKeeps, EventKeeps DEF Kept

-----------------------------------------------------------------------------
(* The two ends of the pipes.                                              *)

(* Nobody is asked, or the request is on its way, or its answer is.        *)
PipesFit ==
  \/ asked = Nothing /\ stdin = <<>> /\ stdout = <<>>
  \/ asked \in vector /\ stdout = <<>> /\ stdin \in {<<asked>>, <<Comment, asked>>}
  \/ asked \in vector /\ stdin = <<>> /\ \E a : stdout = <<[to |-> asked, answer |-> a]>>

AdapterInv == vector \in Suite /\ Fits(machine) /\ PipesFit

LEMMA AdapterInvInit == AdapterInit => AdapterInv
<1> SUFFICES ASSUME AdapterInit PROVE AdapterInv
  OBVIOUS
<1>1. machine = [kind |-> "none"] /\ vector \in Suite /\ PipesFit
  BY DEF AdapterInit, PipesFit
<1>2. Fits(machine)
  BY <1>1 DEF Fits, Kinds
<1> QED BY <1>1, <1>2 DEF AdapterInv

(* What is asked is neither nothing nor a comment. *)
LEMMA RequestsApart ==
  ASSUME AdapterInv
  PROVE  \A r \in vector : r # Nothing /\ r # Comment
BY AdapterAssumption DEF AdapterInv

LEMMA ReplyIs ==
  ASSUME AdapterInv, Reply
  PROVE  /\ asked \in vector /\ stdin = <<asked>> /\ stdin' = <<>> /\ stdout = <<>>
         /\ Respond(asked) /\ UNCHANGED <<vector, asked>>
<1>1. stdin # <<>> /\ Head(stdin) # Comment
  BY DEF Reply
<1>2. asked \in vector /\ stdout = <<>> /\ stdin = <<asked>>
  BY <1>1 DEF AdapterInv, PipesFit
<1>3. Head(stdin) = asked /\ Tail(stdin) = <<>>
  BY <1>2
<1> QED BY <1>2, <1>3 DEF Reply

LEMMA OneThenOne ==
  ASSUME NEW c, NEW r
  PROVE  <<c>> \o <<r>> = <<c, r>>
<1> DEFINE q == <<c>> \o <<r>>
<1>1. <<c>> \in Seq({c, r}) /\ <<r>> \in Seq({c, r}) /\ Len(<<c>>) = 1 /\ Len(<<r>>) = 1
  OBVIOUS
<1>2. q \in Seq({c, r}) /\ Len(q) = 2 /\ q[1] = c /\ q[2] = r
  BY <1>1
<1> HIDE DEF q
<1>3. q = <<c, r>>
  BY <1>2
<1> QED BY <1>3 DEF q

LEMMA AdapterInvNext == AdapterInv /\ [AdapterNext]_vars => AdapterInv'
<1> SUFFICES ASSUME AdapterInv, [AdapterNext]_vars PROVE AdapterInv'
  OBVIOUS
<1>1. CASE Ask
  <2>1. asked = Nothing /\ stdin = <<>> /\ stdout = <<>>
    BY <1>1, RequestsApart DEF Ask, AdapterInv, PipesFit
  <2>2. PICK r \in vector, log \in {<<>>, <<Comment>>} :
             asked' = r /\ stdin' = stdin \o log \o <<r>>
    BY <1>1 DEF Ask
  <2>3. UNCHANGED <<machine, stdout, vector>>
    BY <1>1 DEF Ask
  <2>4. stdin' \in {<<r>>, <<Comment, r>>}
    <3>1. CASE log = <<>>
      <4>1. (<<>> \o <<>>) \o <<r>> = <<r>>
        OBVIOUS
      <4> QED BY <2>1, <2>2, <3>1, <4>1
    <3>2. CASE log = <<Comment>>
      <4>1. <<>> \o <<Comment>> = <<Comment>>
        OBVIOUS
      <4>2. <<Comment>> \o <<r>> = <<Comment, r>>
        BY OneThenOne
      <4> QED BY <2>1, <2>2, <3>2, <4>1, <4>2
    <3> QED BY <3>1, <3>2
  <2> QED BY <2>1, <2>2, <2>3, <2>4 DEF AdapterInv, PipesFit
<1>2. CASE Skip
  <2>1. asked \in vector /\ stdout = <<>> /\ stdin = <<Comment, asked>>
    BY <1>2, RequestsApart DEF Skip, AdapterInv, PipesFit
  <2>2. stdin' = <<asked>> /\ UNCHANGED <<machine, stdout, vector, asked>>
    BY <1>2, <2>1 DEF Skip
  <2> QED BY <2>1, <2>2 DEF AdapterInv, PipesFit
<1>3. CASE Reply
  <2>1. /\ asked \in vector /\ stdin = <<asked>> /\ stdin' = <<>> /\ stdout = <<>>
        /\ Respond(asked) /\ UNCHANGED <<vector, asked>>
    BY <1>3, ReplyIs
  <2>2. (Fails \/ Answered) /\ Fits(machine')
    BY <2>1, RespondKeeps DEF AdapterInv
  <2>3. \E a : Answer(a)
    BY <2>2 DEF Fails, Answered, Showed, Ok
  <2>4. PICK a : stdout' = Append(stdout, [to |-> Head(stdin), answer |-> a])
    BY <2>3 DEF Answer
  <2>5. stdout' = <<[to |-> asked, answer |-> a]>>
    BY <2>1, <2>4
  <2> QED BY <2>1, <2>2, <2>5 DEF AdapterInv, PipesFit
<1>4. CASE Take
  <2>1. stdin = <<>> /\ \E a : stdout = <<[to |-> asked, answer |-> a]>>
    BY <1>4 DEF Take, AdapterInv, PipesFit
  <2>2. stdout' = <<>> /\ asked' = Nothing /\ UNCHANGED <<machine, stdin, vector>>
    BY <1>4, <2>1 DEF Take
  <2> QED BY <2>1, <2>2 DEF AdapterInv, PipesFit
<1>5. CASE UNCHANGED vars
  BY <1>5 DEF vars, pipes, AdapterInv, PipesFit
<1> QED BY <1>1, <1>2, <1>3, <1>4, <1>5 DEF AdapterNext

LEMMA AdapterInvariance == AdapterSpec => []AdapterInv
<1> QED BY AdapterInvInit, AdapterInvNext, PTL DEF AdapterSpec

(* The part of EveryRequestAnswered that a state can break. *)
AnswersInStep == stdout # <<>> => Head(stdout).to = asked

(* The runner never reads an answer that is not to what it asked, however  *)
(* many lines of a log it writes in between (main.rs).                     *)
THEOREM AnswersAreInStep == AdapterSpec => []AnswersInStep
<1>1. AdapterInv => AnswersInStep
  <2> SUFFICES ASSUME AdapterInv, stdout # <<>> PROVE Head(stdout).to = asked
    BY DEF AnswersInStep
  <2>1. PICK a : stdout = <<[to |-> asked, answer |-> a]>>
    BY DEF AdapterInv, PipesFit
  <2> QED BY <2>1
<1> QED BY <1>1, AdapterInvariance, PTL

(* A step that is answered with an error leaves the machine and its stack  *)
(* as they were: of what it asks for nothing is done (main.rs, respond).   *)
THEOREM ErrorsKeep == AdapterSpec => ErrorsChangeNothing
<1>1. ASSUME AdapterInv, [AdapterNext]_vars,
             stdout' # <<>>, stdout = <<>>, "error" \in DOMAIN Head(stdout').answer
      PROVE  UNCHANGED <<machine, stackVars>>
  <2>1. Reply
    BY <1>1 DEF AdapterNext, Ask, Skip, Take, vars, pipes
  <2>2. Respond(asked)
    BY <1>1, <2>1, ReplyIs
  <2>3. Fails \/ Answered
    BY <1>1, <2>2, RespondKeeps DEF AdapterInv
  <2>4. ~Answered
    <3> SUFFICES ASSUME NEW actions, Ok(actions) PROVE FALSE
      BY DEF Answered, Showed
    <3>1. stdout' = Append(stdout, [to |-> Head(stdin), answer |-> [ok |-> actions]])
      BY DEF Ok, Answer
    <3>2. Head(stdout').answer = [ok |-> actions]
      BY <1>1, <3>1
    <3> QED BY <1>1, <3>2
  <2> QED BY <2>3, <2>4 DEF Fails
<1>2. AdapterInv /\ [AdapterNext]_vars =>
        [stdout' # <<>> /\ stdout = <<>> /\ "error" \in DOMAIN Head(stdout').answer
           => UNCHANGED <<machine, stackVars>>]_vars
  BY <1>1
<1> QED BY <1>2, AdapterInvariance, PTL DEF AdapterSpec, ErrorsChangeNothing

-----------------------------------------------------------------------------
(* Every device that lists each of its peers once chooses the keepers that *)
(* the mesh means, in whatever order they lie; it tells a peer that asks   *)
(* what the others would; and who leaves moves at most one (keepers.rs).   *)
THEOREM KeepersAreAgreed == AdapterSpec => []KeepersAgree
<1>1. ASSUME AdapterInv, machine.kind = "keepers" PROVE KeepersAgree
  <2> DEFINE claims == machine.claims
             S == Range(claims)
  <2>1. claims \in Seq(Claim)
    BY <1>1 DEF AdapterInv, Fits
  <2>2. S = {claims[i] : i \in DOMAIN claims}
    BY DEF Range
  <2> SUFFICES ASSUME Cardinality({c.uuid : c \in S}) = Len(claims)
               PROVE  /\ {SelectKeepers(claims)[i] : i \in 1..KeeperCount(claims)} = Chosen(S)
                      /\ \A c \in S : IsKeeper(claims, c.uuid) <=> c \in Chosen(S)
                      /\ \A c \in S : Cardinality((Chosen(S \ {c}) \ Chosen(S))) <= 1
    BY <2>2, Zenon DEF KeepersAgree
  <2> HIDE DEF claims
  <2>3. Apart(claims)
    BY <2>1, CountedApart
  <2> QED BY <2>1, <2>3, SelectIsChosen, TableOfPeers, LeavingMovesOne
<1>2. AdapterInv => KeepersAgree
  BY <1>1 DEF KeepersAgree
<1> QED BY <1>2, AdapterInvariance, PTL

-----------------------------------------------------------------------------
(* Where a zone puts the LEDs it selects.                                  *)

(* Whatever the LEDs of a device, the clauses of a zone and the numbers of *)
(* a projection (zones.rs), what it makes of each LED is in the unit, in   *)
(* the order in which the LEDs are reached and at the end of it only where *)
(* no LED is further; cells of a grid are not shared.                      *)
THEOREM LedsArePlaced == AdapterSpec => []PlacedInOrder
<1>1. AdapterInv => PlacedInOrder
  <2> SUFFICES ASSUME AdapterInv, machine.kind = "zone"
               PROVE  PlacedWithin(MembersOf(machine.zone, machine.dev),
                                   BoundsOf(MembersOf(machine.zone, machine.dev)))
    BY DEF PlacedInOrder
  <2>1. Standing(machine.dev.leds)
    BY DEF AdapterInv, Fits
  <2> QED BY <2>1, MembersStand, PlacedFits
<1> QED BY <1>1, AdapterInvariance, PTL

-----------------------------------------------------------------------------
(* What a gateway grants of a frame.                                       *)

LEMMA RunCount ==
  ASSUME NEW a \in Int, NEW b \in Int, a < b
  PROVE  Cardinality(a..(b - 1)) = b - a
<1>1. Cardinality(a..(b - 1)) = (b - 1) - a + 1
  BY FS_Interval
<1> QED BY <1>1

(* Whatever a frame of a console asks for, it gets of the pixels it        *)
(* addresses exactly those of its binding and the rest are counted; it     *)
(* ranks as it asked, and where that is above the ceiling of its binding,  *)
(* no higher than the ceiling, which it is told (gateway.rs).              *)
THEOREM GatewayIsKeptInside == AdapterSpec => []GatewayKeepsInside
<1>1. ASSUME AdapterInv, machine.kind = "gateway",
             NEW i \in [offset : 0..PixelMax, count : 0..PixelMax,
                        priority : (0..U8 - 1) \cup {NoPriority}]
      PROVE  LET b == machine.binding
                 a == AdmitIngress(b, i, 0)
                 wanted == {p \in i.offset..(i.offset + i.count - 1) : Covers(b, p)}
             IN  IF Refused(b, i) = "none"
                 THEN /\ wanted = a.pixels[1]..(a.pixels[2] - 1)
                      /\ a.clipped = i.count - Cardinality(wanted)
                      /\ a.priority <= b.ceiling /\ a.priority <= MaxGatewayPriority
                      /\ a.clamped <=> AskedPriority(i) > b.ceiling
                      /\ ~a.clamped => a.priority = AskedPriority(i)
                 ELSE BindingFault(b) = "none" => wanted = {}
  <2> DEFINE b == machine.binding
             a == AdmitIngress(b, i, 0)
             wanted == {p \in i.offset..(i.offset + i.count - 1) : Covers(b, p)}
  <2>1. b \in Bindings
    BY <1>1 DEF AdapterInv, Fits
  <2>2. /\ b.ceiling \in Nat /\ b.pixels[1] \in 0..PixelMax /\ b.pixels[2] \in 0..PixelMax
        /\ i.offset \in Nat /\ i.count \in Nat /\ PixelMax \in Nat
        /\ AskedPriority(i) \in Nat
    BY <2>1, AdapterAssumption DEF Bindings, AskedPriority
  <2>3. /\ a.pixels[1] = GrantedFrom(b, i) /\ a.pixels[2] = GrantedTo(b, i)
        /\ a.clipped = Clipped(b, i) /\ a.priority = GrantedPriority(b, i)
        /\ a.clamped = (GrantedPriority(b, i) < AskedPriority(i))
    BY DEF AdmitIngress
  <2> HIDE DEF a, b
  <2>4. /\ GrantedFrom(b, i) \in Nat /\ GrantedTo(b, i) \in Nat
        /\ wanted = GrantedFrom(b, i)..(GrantedTo(b, i) - 1)
    BY <2>2 DEF GrantedFrom, GrantedTo, Greater, Lesser, Covers
  <2> HIDE DEF wanted
  <2>5. CASE Refused(b, i) = "none"
    <3>1. GrantedFrom(b, i) < GrantedTo(b, i) /\ b.ceiling <= MaxGatewayPriority
      BY <2>2, <2>4, <2>5, AdapterAssumption DEF Refused, BindingFault
    <3>2. Cardinality(wanted) = GrantedTo(b, i) - GrantedFrom(b, i)
      BY <2>4, <3>1, RunCount
    <3>3. GrantedTo(b, i) - GrantedFrom(b, i) <= i.count
      BY <2>2 DEF GrantedFrom, GrantedTo, Greater, Lesser
    <3>4. Clipped(b, i) = i.count - Cardinality(wanted)
      BY <2>2, <2>4, <3>2, <3>3 DEF Clipped, Greater
    <3>5. /\ GrantedPriority(b, i) <= b.ceiling
          /\ GrantedPriority(b, i) <= MaxGatewayPriority
          /\ GrantedPriority(b, i) < AskedPriority(i) <=> AskedPriority(i) > b.ceiling
          /\ ~(GrantedPriority(b, i) < AskedPriority(i))
               => GrantedPriority(b, i) = AskedPriority(i)
      BY <2>2, <3>1, AdapterAssumption DEF GrantedPriority, Lesser
    <3>6. /\ a.priority <= b.ceiling /\ a.priority <= MaxGatewayPriority
          /\ a.clamped <=> AskedPriority(i) > b.ceiling
          /\ ~a.clamped => a.priority = AskedPriority(i)
      BY <2>3, <3>5
    <3> QED BY <2>3, <2>4, <2>5, <3>4, <3>6 DEF a, b, wanted
  <2>6. CASE Refused(b, i) # "none"
    <3>1. BindingFault(b) = "none" => GrantedFrom(b, i) >= GrantedTo(b, i)
      BY <2>6 DEF Refused
    <3>2. BindingFault(b) = "none" => wanted = {}
      BY <2>4, <3>1
    <3> QED BY <2>6, <3>2 DEF b, wanted
  <2> QED BY <2>5, <2>6
<1>2. AdapterInv => GatewayKeepsInside
  BY <1>1 DEF GatewayKeepsInside
<1> QED BY <1>2, AdapterInvariance, PTL

-----------------------------------------------------------------------------
(* The stack of a machine.                                                 *)

LEMMA BeginFadeIsList ==
  ASSUME NEW at, NEW S, IsFiniteSet(S)
  PROVE  IsList(BeginFade(at, S))
<1> DEFINE T == {s \in S : s.kind.fadeOut > 0}
           slow == Ranked(T)
           q == [i \in DOMAIN slow |-> [source |-> slow[i], since |-> at]]
           n == Cardinality(T)
<1>1. n \in Nat
  BY FS_Subset, FS_CardinalityType
<1>2. DOMAIN slow = 1..n
  BY DEF Ranked, InOrder
<1>3. BeginFade(at, S) = q
  BY DEF BeginFade
<1> HIDE DEF n, slow
<1>4. DOMAIN q = 1..n /\ q = [i \in 1..n |-> q[i]]
  BY <1>2
<1> HIDE DEF q
<1>5. q \in [1..n -> Range(q)]
  BY <1>4 DEF Range
<1>6. q \in Seq(Range(q))
  BY <1>1, <1>5
<1> QED BY <1>3, <1>6 DEF IsList

(* The fades that go on are some of those there were. *)
LEMMA StillFadingIsList ==
  ASSUME NEW at, NEW fades, IsList(fades)
  PROVE  IsList(StillFading(at, fades))
<1> DEFINE F == Range(fades)
           n == Len(fades)
           x(s) == Max(s)
           Eq(g) == g = [s \in SUBSET DOMAIN fades |->
                           IF s = {} THEN <<>> ELSE Continue(at, g[s \ {x(s)}], fades[x(s)])]
           iter == CHOOSE g : Eq(g)
<1>1. StillFading(at, fades) = iter[DOMAIN fades]
  BY Zenon DEF StillFading, FoldLeft, MapThenFoldSet
<1>2. n \in Nat /\ DOMAIN fades = 1..n /\ \A i \in 1..n : fades[i] \in F
  BY DEF IsList
<1>3. \A s \in SUBSET (1..n) : s # {} => x(s) \in s
  BY <1>2, LargestNumber
<1>4. ASSUME NEW kept \in Seq(F), NEW f \in F
      PROVE  Continue(at, kept, f) \in Seq(F)
  BY DEF Continue
<1>5. <<>> \in Seq(F)
  OBVIOUS
<1> HIDE DEF n, x, F
<1> DEFINE G == [a \in Seq(F) \X (1..n) |-> Continue(at, a[1], fades[a[2]])]
<1>6. G \in [Seq(F) \X (1..n) -> Seq(F)]
  BY <1>2, <1>4
<1>7. PICK h \in [SUBSET (1..n) -> Seq(F)] : IsFoldLeft(h, n, <<>>, G)
  <2> HIDE DEF G
  <2>1. n \in Nat
    BY <1>2
  <2> QED BY <1>5, <1>6, <2>1, FoldFromLeft
<1>8. ASSUME NEW s \in SUBSET (1..n), s # {}
      PROVE  h[s] = Continue(at, h[s \ {x(s)}], fades[x(s)])
  <2>1. x(s) \in 1..n /\ h[s \ {x(s)}] \in Seq(F)
    BY <1>3, <1>8
  <2>2. G[<<h[s \ {x(s)}], x(s)>>] = Continue(at, h[s \ {x(s)}], fades[x(s)])
    BY <2>1
  <2> HIDE DEF G
  <2>3. h[s] = G[<<h[s \ {x(s)}], x(s)>>]
    BY <1>7, <1>8, Zenon DEF IsFoldLeft, x
  <2> QED BY <2>2, <2>3, Zenon
<1>9. h[{}] = <<>>
  BY <1>7, Zenon DEF IsFoldLeft
<1>10. Eq(h)
  <2>1. h = [s \in SUBSET (1..n) |->
               IF s = {} THEN <<>> ELSE Continue(at, h[s \ {x(s)}], fades[x(s)])]
    BY <1>8, <1>9
  <2> QED BY <1>2, <2>1, Zenon
<1>11. Eq(iter)
  <2> HIDE DEF Eq
  <2> QED BY <1>10, Zenon
<1> HIDE DEF iter
<1>12. \A s \in SUBSET (1..n) : iter[s] = IF s = {} THEN <<>>
                                          ELSE Continue(at, iter[s \ {x(s)}], fades[x(s)])
  BY <1>2, <1>11, Zenon
<1>13. iter[1..n] \in Seq(F)
  <2> DEFINE Bad == {s \in SUBSET (1..n) : iter[s] \notin Seq(F)}
  <2> SUFFICES ASSUME Bad # {} PROVE FALSE
    OBVIOUS
  <2>1. IsFiniteSet(1..n)
    BY <1>2, FS_Interval
  <2>2. PICK s \in Bad : \A t \in Bad : t \subseteq s => t = s
    <3> DEFINE D == 1..n
    <3>1. Bad \subseteq SUBSET D /\ Bad # {}
      OBVIOUS
    <3> HIDE DEF Bad, D
    <3>2. IsFiniteSet(D)
      BY <2>1 DEF D
    <3> QED BY <3>1, <3>2, SmallestSubset
  <2>3. s # {}
    BY <1>5, <1>12, <2>2
  <2>4. x(s) \in s /\ s \in SUBSET (1..n)
    BY <1>3, <2>2, <2>3
  <2>5. iter[s \ {x(s)}] \in Seq(F)
    BY <2>2, <2>4
  <2>6. iter[s] = Continue(at, iter[s \ {x(s)}], fades[x(s)])
    BY <1>12, <2>3, <2>4
  <2>7. fades[x(s)] \in F
    BY <1>2, <2>4
  <2> QED BY <1>4, <2>2, <2>5, <2>6, <2>7
<1>14. StillFading(at, fades) \in Seq(F)
  BY <1>1, <1>2, <1>13
<1> QED BY <1>14, ListOfItsOwn DEF IsList

Stacked == IsFiniteSet(active) /\ IsList(fading)

(* A call keeps the stack a stack, and puts no source on it but the one it *)
(* is called with.                                                         *)
LEMMA CallsStack ==
  ASSUME Stacked, NEW at
  PROVE  /\ \A s : Pushed(at, s) => Stacked' /\ active' \subseteq active \cup {s}
         /\ \A id : Popped(at, id) => Stacked'
         /\ Advanced(at) => Stacked' /\ active' \subseteq active
<1>0. UNCHANGED stackVars => Stacked' /\ active' = active
  BY DEF stackVars, Stacked
<1>1. ASSUME NEW s, Pushed(at, s) PROVE Stacked' /\ active' \subseteq active \cup {s}
  <2>1. \/ UNCHANGED stackVars
        \/ active' = (active \ Of(s.id)) \cup {s} /\ UNCHANGED fading
    BY <1>1, Zenon DEF Pushed, Push
  <2>2. IsFiniteSet((active \ Of(s.id)) \cup {s})
    <3>1. IsFiniteSet(active \ Of(s.id))
      BY FS_Subset DEF Stacked
    <3> QED BY <3>1, FS_AddElement
  <2> QED BY <1>0, <2>1, <2>2 DEF Stacked
<1>2. ASSUME NEW id, Popped(at, id) PROVE Stacked'
  <2>1. \/ UNCHANGED stackVars
        \/ active' = active \ Of(id) /\ fading' = fading \o BeginFade(at, Of(id))
    BY <1>2, Zenon DEF Popped, Pop
  <2>2. IsFiniteSet(active \ Of(id)) /\ IsFiniteSet(Of(id))
    BY FS_Subset DEF Stacked, Of
  <2>3. IsList(fading \o BeginFade(at, Of(id)))
    BY <2>2, BeginFadeIsList, JoinedIsList DEF Stacked
  <2> QED BY <1>0, <2>1, <2>2, <2>3 DEF Stacked
<1>3. ASSUME Advanced(at) PROVE Stacked' /\ active' \subseteq active
  <2> DEFINE lapsed == {s \in active : HasExpired(s, at)}
  <2>1. active' = active \ lapsed /\ fading' = StillFading(at, fading \o BeginFade(at, lapsed))
    BY <1>3, Zenon DEF Advanced, Advance
  <2>2. IsFiniteSet(active \ lapsed) /\ IsFiniteSet(lapsed)
    BY FS_Subset DEF Stacked
  <2> HIDE DEF lapsed
  <2>3. IsList(fading \o BeginFade(at, lapsed))
    BY <2>2, BeginFadeIsList, JoinedIsList DEF Stacked
  <2> QED BY <2>1, <2>2, <2>3, StillFadingIsList DEF Stacked
<1> QED BY <1>1, <1>2, <1>3

-----------------------------------------------------------------------------
(* A frame.                                                                *)

(* What a frame paints, apart from the moment, whatever Painted orders. *)
PaintsStack(order) ==
  /\ \A s \in active :
       s.id \in admitted /\ s.kind.fadeIn = 0 =>
         \A i \in DOMAIN machine.bound :
           machine.bound[i].source = s /\ machine.bound[i].leds # <<>>
             => \E k \in DOMAIN order : order[k] = i
  /\ \A k \in DOMAIN order :
       machine.bound[order[k]].source.id
         \in admitted \cup {fading[f].source.id : f \in DOMAIN fading}

BoundBelow(bound, i, j) ==
  \/ bound[i].source.kind.priority < bound[j].source.kind.priority
  \/ /\ bound[i].source.kind.priority = bound[j].source.kind.priority
     /\ \/ bound[i].source.pushedAt < bound[j].source.pushedAt
        \/ bound[i].source.pushedAt = bound[j].source.pushedAt /\ i < j

BottomUp(bound, T) ==
  [k \in 1..Cardinality(T) |->
     CHOOSE i \in T : Cardinality({j \in T : BoundBelow(bound, j, i)}) = k - 1]

(* Of the entries that show, each is painted, and no others. *)
LEMMA ShownInOrder ==
  ASSUME NEW bound, IsList(bound), \A i \in DOMAIN bound : InTime(bound[i]),
         NEW T \in SUBSET DOMAIN bound
  PROVE  /\ Cardinality(T) \in Nat /\ DOMAIN BottomUp(bound, T) = 1..Cardinality(T)
         /\ \A k \in 1..Cardinality(T) : BottomUp(bound, T)[k] \in T
         /\ \A i \in T : \E k \in 1..Cardinality(T) : BottomUp(bound, T)[k] = i
<1> DEFINE below(i, j) == BoundBelow(bound, i, j)
           q == BottomUp(bound, T)
           n == Cardinality(T)
           R == {ij \in T \X T : below(ij[1], ij[2])}
<1>1. DOMAIN bound = 1..Len(bound) /\ Len(bound) \in Nat
  BY DEF IsList
<1>2. IsFiniteSet(T)
  <2>1. T \in SUBSET (1..Len(bound))
    BY <1>1
  <2>2. IsFiniteSet(1..Len(bound))
    BY <1>1, FS_Interval
  <2> QED BY <2>1, <2>2, FS_Subset
<1>3. \A i \in T : /\ i \in Int /\ bound[i].source.kind.priority \in Int
                   /\ bound[i].source.pushedAt \in Int
  BY <1>1 DEF InTime
<1>4. StrictOrder(T, R)
  BY <1>3 DEF StrictOrder, BoundBelow
<1>5. \A i \in T : Before(T, R, i) = {j \in T : below(j, i)}
  BY DEF Before
<1> HIDE DEF R
<1>6. n \in Nat /\ \A k \in 1..n : \E i \in T : Cardinality(Before(T, R, i)) = k - 1
  BY <1>2, <1>4, PlacesAreTaken
<1>7. ASSUME NEW k \in 1..n
      PROVE  q[k] \in T /\ Cardinality(Before(T, R, q[k])) = k - 1
  <2>1. \E i \in T : Cardinality({j \in T : below(j, i)}) = k - 1
    BY <1>5, <1>6
  <2>2. q[k] = CHOOSE i \in T : Cardinality({j \in T : below(j, i)}) = k - 1
    BY DEF BottomUp
  <2>3. q[k] \in T /\ Cardinality({j \in T : below(j, q[k])}) = k - 1
    BY <2>1, <2>2, Zenon
  <2> QED BY <1>5, <2>3
<1>8. DOMAIN q = 1..n
  BY DEF BottomUp
<1> HIDE DEF q
<1>9. \A i \in T : \E k \in 1..n : q[k] = i
  BY <1>2, <1>4, <1>7, ListIsOrder
<1> QED BY <1>6, <1>7, <1>8, <1>9 DEF q

(* The fades that show are fades. *)
LEMMA LeavingInOrder ==
  ASSUME NEW T, T \subseteq Int, IsFiniteSet(T)
  PROVE  LET q == InOrder(T, <)
         IN  Cardinality(T) \in Nat /\ DOMAIN q = 1..Cardinality(T) /\ \A k \in DOMAIN q : q[k] \in T
<1> DEFINE q == InOrder(T, <)
           n == Cardinality(T)
           R == {ij \in T \X T : ij[1] < ij[2]}
<1>1. StrictOrder(T, R)
  BY DEF StrictOrder
<1>2. \A i \in T : Before(T, R, i) = {j \in T : j < i}
  BY DEF Before
<1> HIDE DEF R
<1>3. n \in Nat /\ \A k \in 1..n : \E i \in T : Cardinality(Before(T, R, i)) = k - 1
  BY <1>1, PlacesAreTaken
<1>4. ASSUME NEW k \in 1..n PROVE q[k] \in T
  <2>1. \E i \in T : Cardinality({j \in T : j < i}) = k - 1
    BY <1>2, <1>3
  <2>2. q[k] = CHOOSE i \in T : Cardinality({j \in T : j < i}) = k - 1
    BY DEF InOrder
  <2> QED BY <2>1, <2>2, Zenon
<1>5. DOMAIN q = 1..n
  BY DEF InOrder
<1> QED BY <1>3, <1>4, <1>5

LEMMA PaintedIsStack ==
  ASSUME Fits(machine), machine.kind = "render", Stacked, NEW at
  PROVE  PaintsStack(Painted(at))
<1> DEFINE bound == machine.bound
           below(i, j) == \/ bound[i].source.kind.priority < bound[j].source.kind.priority
                          \/ /\ bound[i].source.kind.priority = bound[j].source.kind.priority
                             /\ \/ bound[i].source.pushedAt < bound[j].source.pushedAt
                                \/ bound[i].source.pushedAt = bound[j].source.pushedAt /\ i < j
           shows(i) == /\ bound[i].source.id \in admitted
                       /\ bound[i].source.kind.fadeIn = 0 \/ at > bound[i].source.pushedAt
                       /\ bound[i].leds # <<>>
           first(f) == {i \in DOMAIN bound : /\ bound[i].source.id = f.source.id
                                             /\ \A j \in 1..(i - 1) : bound[j].source.id # f.source.id}
           fades(k) == /\ at - fading[k].since < fading[k].source.kind.fadeOut
                       /\ \E i \in first(fading[k]) : bound[i].leds # <<>>
           T == {i \in DOMAIN bound : shows(i)}
           F == {k \in DOMAIN fading : fades(k)}
           q == InOrder(T, below)
           leaving == InOrder(F, <)
           last == [k \in DOMAIN leaving |-> CHOOSE i \in first(fading[leaving[k]]) : TRUE]
           m == Cardinality(T)
           n == Cardinality(F)
<1>1. Painted(at) = q \o last
  BY Zenon DEF Painted
<1>2. IsList(bound) /\ \A i \in DOMAIN bound : InTime(bound[i])
  BY DEF Fits, IsList
<1>3. /\ m \in Nat /\ DOMAIN q = 1..m
      /\ \A k \in 1..m : q[k] \in T
      /\ \A i \in T : \E k \in 1..m : q[k] = i
  <2>1. T \in SUBSET DOMAIN bound
    OBVIOUS
  <2>2. q = BottomUp(bound, T)
    BY DEF InOrder, BottomUp, BoundBelow
  <2> HIDE DEF T, bound, q
  <2> QED BY <1>2, <2>1, <2>2, ShownInOrder
<1>4. n \in Nat /\ DOMAIN leaving = 1..n /\ \A k \in 1..n : leaving[k] \in F
  <2>1. DOMAIN fading = 1..Len(fading) /\ Len(fading) \in Nat
    BY DEF Stacked, IsList
  <2>2. F \subseteq Int /\ IsFiniteSet(F)
    <3>1. F \in SUBSET (1..Len(fading))
      BY <2>1
    <3> HIDE DEF F
    <3>2. IsFiniteSet(1..Len(fading))
      BY <2>1, FS_Interval
    <3>3. IsFiniteSet(F)
      BY <3>1, <3>2, FS_Subset
    <3>4. F \subseteq Int
      BY <2>1, <3>1
    <3> QED BY <3>3, <3>4
  <2> HIDE DEF F
  <2> QED BY <2>2, LeavingInOrder
<1>5. DOMAIN last = 1..n
  BY <1>4
<1>6. ASSUME NEW k \in 1..n
      PROVE  /\ leaving[k] \in DOMAIN fading
             /\ bound[last[k]].source.id = fading[leaving[k]].source.id
  <2>1. leaving[k] \in DOMAIN fading /\ first(fading[leaving[k]]) # {}
    BY <1>4
  <2>2. last[k] = CHOOSE i \in first(fading[leaving[k]]) : TRUE
    BY <1>4
  <2>3. last[k] \in first(fading[leaving[k]])
    BY <2>1, <2>2, Zenon
  <2> QED BY <2>1, <2>3
<1> HIDE DEF q, last, leaving, bound, m, n
<1>7. /\ DOMAIN (q \o last) = 1..(m + n)
      /\ \A k \in 1..(m + n) : (q \o last)[k] = IF k <= m THEN q[k] ELSE last[k - m]
  <2>1. q \in Seq(Range(q)) /\ Len(q) = m
    <3>1. q = [k \in 1..m |-> q[k]]
      BY <1>3 DEF q, InOrder, m
    <3>2. q \in [1..m -> Range(q)]
      BY <1>3, <3>1 DEF Range
    <3> QED BY <1>3, <3>2
  <2>2. last \in Seq(Range(last)) /\ Len(last) = n
    <3>1. last = [k \in 1..n |-> last[k]]
      BY <1>5 DEF last
    <3>2. last \in [1..n -> Range(last)]
      BY <1>5, <3>1 DEF Range
    <3> QED BY <1>4, <1>5, <3>2
  <2>3. q \in Seq(Range(q) \cup Range(last)) /\ last \in Seq(Range(q) \cup Range(last))
    BY <2>1, <2>2
  <2> QED BY <1>3, <1>4, <2>1, <2>2, <2>3
<1>8. ASSUME NEW k \in 1..(m + n)
      PROVE  bound[(q \o last)[k]].source.id
               \in admitted \cup {fading[f].source.id : f \in DOMAIN fading}
  <2>1. CASE k <= m
    <3>1. k \in 1..m /\ (q \o last)[k] = q[k]
      BY <1>3, <1>4, <1>7, <2>1
    <3> QED BY <1>3, <3>1
  <2>2. CASE ~(k <= m)
    <3>1. k - m \in 1..n /\ (q \o last)[k] = last[k - m]
      BY <1>3, <1>4, <1>7, <2>2
    <3> QED BY <1>6, <3>1
  <2> QED BY <2>1, <2>2
<1>9. ASSUME NEW s \in active, s.id \in admitted, s.kind.fadeIn = 0,
             NEW i \in DOMAIN bound, bound[i].source = s, bound[i].leds # <<>>
      PROVE  \E k \in 1..(m + n) : (q \o last)[k] = i
  <2>1. i \in T
    BY <1>9
  <2>2. PICK k \in 1..m : q[k] = i
    BY <1>3, <2>1
  <2>3. k \in 1..(m + n) /\ (q \o last)[k] = q[k]
    BY <1>3, <1>4, <1>7
  <2> QED BY <2>2, <2>3
<1> QED BY <1>1, <1>7, <1>8, <1>9 DEF PaintsStack, bound
-----------------------------------------------------------------------------
(* The stack and the list of programs stay together.                       *)

(* Each source on the stack has a program bound to it. *)
BoundHeld ==
  machine.kind = "render" =>
    \A s \in active : \E i \in DOMAIN machine.bound : machine.bound[i].source = s

(* What an event may do to the stack. *)
StackStep ==
  \/ UNCHANGED stackVars /\ (machine.kind = "render" => UNCHANGED machine)
  \/ /\ machine.kind = "sources"
     /\ \E at : (\E s : Pushed(at, s)) \/ (\E id : Popped(at, id)) \/ Advanced(at)
  \/ machine.kind = "render" /\ UNCHANGED machine /\ \E at : Advanced(at)
  \/ machine.kind = "render" /\ \E at, b : Pushed(at, b.source) /\ Bind(b)

LEMMA FeedLeavesStack ==
  ASSUME NEW built, FeedOrFail(built)
  PROVE  UNCHANGED stackVars
BY Zenon DEF FeedOrFail, Feed, Fails

LEMMA EventStack ==
  ASSUME Fits(machine), NEW body, Event(body)
  PROVE  StackStep
<1> DEFINE at == NumberOr(body, "at_us", 0)
           ev == Only(At(body, "event"), [number |-> 0])
           kind == Only(WordAt(ev, "event"), "")
<1>0. /\ Fails => UNCHANGED stackVars /\ UNCHANGED machine
      /\ \A actions : Tells(actions) => UNCHANGED stackVars /\ UNCHANGED machine
      /\ \A actions : Ranks(actions) => UNCHANGED stackVars
  BY DEF Fails, Tells, Ranks
<1>1. CASE WordAt(ev, "event") = {} \/ machine.kind = "none"
  <2>1. Fails
    BY <1>1, Zenon DEF Event
  <2> QED BY <1>0, <2>1 DEF StackStep
<1>2. CASE ~(WordAt(ev, "event") = {} \/ machine.kind = "none")
  <2>1. /\ machine.kind = "node" => NodeEvent(at, kind, ev)
        /\ machine.kind = "sources" => SourcesEvent(at, kind, ev)
        /\ machine.kind = "channel" => ChannelEvent(at, kind, ev)
        /\ machine.kind = "gateway" => GatewayEvent(at, kind, ev)
        /\ machine.kind = "zone" => ZoneEvent(kind)
        /\ machine.kind = "records" => RecordsEvent(kind, ev)
        /\ machine.kind = "render" => RenderEvent(at, kind, ev)
        /\ machine.kind = "keepers" => KeepersEvent(kind, ev)
    BY <1>2 DEF Event
  <2> HIDE DEF at, ev, kind
  <2>2. CASE machine.kind = "sources"
    <3>1. Fails \/ (\E s : Pushed(at, s)) \/ (\E id : Popped(at, id)) \/ Advanced(at)
      BY <2>1, <2>2, Zenon DEF SourcesEvent
    <3> QED BY <1>0, <2>2, <3>1 DEF StackStep
  <2>3. CASE machine.kind = "render"
    <3>1. \/ Fails
          \/ Tells(<<[painted |-> Painted(at)]>>)
          \/ Advanced(at) /\ UNCHANGED machine
          \/ \E b : Pushed(at, b.source) /\ Bind(b)
      BY <2>1, <2>3, Zenon DEF RenderEvent
    <3> QED BY <1>0, <2>3, <3>1 DEF StackStep
  <2>4. CASE machine.kind \in {"node", "channel", "records"}
    <3>1. NodeEvent(at, kind, ev) \/ ChannelEvent(at, kind, ev) \/ RecordsEvent(kind, ev)
      BY <2>1, <2>4
    <3>2. UNCHANGED stackVars
      BY <3>1, FeedLeavesStack DEF NodeEvent, ChannelEvent, RecordsEvent
    <3> QED BY <2>4, <3>2 DEF StackStep
  <2>5. CASE machine.kind \in {"gateway", "zone", "keepers"}
    <3>1. GatewayEvent(at, kind, ev) \/ ZoneEvent(kind) \/ KeepersEvent(kind, ev)
      BY <2>1, <2>5
    <3>2. Fails \/ (\E actions : Tells(actions)) \/ \E actions : Ranks(actions)
      BY <3>1, Zenon DEF GatewayEvent, ZoneEvent, KeepersEvent
    <3> QED BY <1>0, <2>5, <3>2 DEF StackStep
  <2> QED BY <1>2, <2>2, <2>3, <2>4, <2>5 DEF Fits, Kinds
<1> QED BY <1>1, <1>2

LEMMA StackStepKeeps ==
  ASSUME Fits(machine), Stacked, BoundHeld, StackStep, machine'.kind = machine.kind
  PROVE  Stacked' /\ BoundHeld'
<1>1. CASE UNCHANGED stackVars /\ (machine.kind = "render" => UNCHANGED machine)
  <2>1. active' = active /\ fading' = fading
    BY <1>1 DEF stackVars
  <2> QED BY <1>1, <2>1 DEF Stacked, BoundHeld
<1>2. CASE /\ machine.kind = "sources"
           /\ \E at : (\E s : Pushed(at, s)) \/ (\E id : Popped(at, id)) \/ Advanced(at)
  <2>1. Stacked'
    BY <1>2, CallsStack
  <2> QED BY <1>2, <2>1 DEF BoundHeld
<1>3. CASE machine.kind = "render" /\ UNCHANGED machine /\ \E at : Advanced(at)
  <2>1. Stacked' /\ active' \subseteq active
    BY <1>3, CallsStack
  <2> QED BY <1>3, <2>1 DEF BoundHeld
<1>4. CASE machine.kind = "render" /\ \E at, b : Pushed(at, b.source) /\ Bind(b)
  <2>1. PICK at, b : Pushed(at, b.source) /\ Bind(b)
    BY <1>4
  <2>2. Stacked' /\ active' \subseteq active \cup {b.source}
    BY <2>1, CallsStack
  <2> DEFINE bound == machine.bound
  <2>3. "bound" \in DOMAIN machine /\ bound \in Seq(Range(bound))
    BY <1>4 DEF Fits
  <2>4. machine'.bound = Append(bound, b)
    BY <2>1, <2>3 DEF Bind
  <2> HIDE DEF bound
  <2>5. bound \in Seq(Range(bound) \cup {b})
    BY <2>3
  <2>6. /\ Len(bound) \in Nat /\ DOMAIN bound = 1..Len(bound)
        /\ DOMAIN Append(bound, b) = 1..(Len(bound) + 1)
        /\ Append(bound, b)[Len(bound) + 1] = b
        /\ \A i \in DOMAIN bound : Append(bound, b)[i] = bound[i]
    BY <2>5
  <2>7. \A s \in active' : \E i \in DOMAIN Append(bound, b) : Append(bound, b)[i].source = s
    <3> SUFFICES ASSUME NEW s \in active'
                 PROVE  \E i \in DOMAIN Append(bound, b) : Append(bound, b)[i].source = s
      OBVIOUS
    <3>1. CASE s = b.source
      <4>1. Len(bound) + 1 \in DOMAIN Append(bound, b)
        BY <2>6
      <4> QED BY <2>6, <3>1, <4>1
    <3>2. CASE s \in active
      <4>1. PICK i \in DOMAIN bound : bound[i].source = s
        BY <1>4, <3>2 DEF BoundHeld, bound
      <4>2. i \in DOMAIN Append(bound, b)
        BY <2>6
      <4> QED BY <2>6, <4>1, <4>2
    <3> QED BY <2>2, <3>1, <3>2
  <2> QED BY <2>2, <2>4, <2>7 DEF BoundHeld
<1> QED BY <1>1, <1>2, <1>3, <1>4 DEF StackStep

LEMMA RespondStack ==
  ASSUME Fits(machine), Stacked, BoundHeld, NEW r, Respond(r)
  PROVE  Stacked' /\ BoundHeld'
<1>0. UNCHANGED <<machine, stackVars>> => Stacked' /\ BoundHeld'
  BY DEF stackVars, Stacked, BoundHeld
<1>1. \/ UNCHANGED <<machine, stackVars>>
      \/ Cleared
      \/ Event(r.body)
  BY Zenon DEF Respond, Reset, Fails
<1>2. CASE Cleared
  <2>1. active' = {} /\ fading' = <<>>
    BY <1>2 DEF Cleared
  <2>2. IsFiniteSet({}) /\ IsList(<<>>)
    BY FS_EmptySet DEF IsList
  <2> QED BY <2>1, <2>2 DEF Stacked, BoundHeld
<1>3. CASE Event(r.body)
  <2>1. machine'.kind = machine.kind
    BY <1>3, EventKeeps DEF Kept
  <2> QED BY <1>3, <2>1, EventStack, StackStepKeeps
<1> QED BY <1>0, <1>1, <1>2, <1>3

(* A frame that is answered is one of the stack as it is. *)
FrameFits == \A order \in PaintedNow : machine.kind = "render" /\ PaintsStack(order)

PaintInv == AdapterInv /\ Stacked /\ BoundHeld /\ FrameFits

LEMMA PaintInvInit == AdapterInit => PaintInv
<1> SUFFICES ASSUME AdapterInit PROVE PaintInv
  OBVIOUS
<1>1. active = {} /\ fading = <<>> /\ stdout = <<>> /\ machine.kind = "none"
  BY DEF AdapterInit, EmptyStack
<1>2. IsFiniteSet({}) /\ IsList(<<>>)
  BY FS_EmptySet DEF IsList
<1> QED BY <1>1, <1>2, AdapterInvInit DEF PaintInv, Stacked, BoundHeld, FrameFits, PaintedNow

(* What is answered shows a frame, and leaves the machine; or it does not. *)
LEMMA AnswersFit ==
  ASSUME PaintInv, Reply
  PROVE  FrameFits'
<1>1. stdin = <<asked>> /\ stdout = <<>> /\ Respond(asked)
  BY ReplyIs DEF PaintInv
<1>2. Fails \/ Answered
  BY <1>1, RespondKeeps DEF PaintInv, AdapterInv
<1>3. ASSUME NEW a, Answer(a) PROVE stdout' = <<[to |-> asked, answer |-> a]>>
  BY <1>1, <1>3 DEF Answer
<1>4. CASE Fails
  <2>1. stdout' = <<[to |-> asked, answer |-> [error |-> TRUE]]>>
    BY <1>3, <1>4 DEF Fails
  <2>2. "ok" \notin DOMAIN Head(stdout').answer
    BY <2>1
  <2> QED BY <2>2 DEF FrameFits, PaintedNow
<1>5. ASSUME NEW actions, Ok(actions), Quiet(actions) PROVE FrameFits'
  <2>1. stdout' = <<[to |-> asked, answer |-> [ok |-> actions]]>>
    BY <1>3, <1>5 DEF Ok
  <2>2. Head(stdout').answer.ok = actions
    BY <2>1
  <2>3. {k \in DOMAIN actions : "painted" \in DOMAIN actions[k]} = {}
    BY <1>5 DEF Quiet
  <2>4. PaintedNow' = {}
    BY <2>2, <2>3 DEF PaintedNow
  <2> QED BY <2>4 DEF FrameFits
<1>6. CASE Showed
  <2>1. PICK at : Ok(<<[painted |-> Painted(at)]>>)
    BY <1>6 DEF Showed
  <2> DEFINE order == Painted(at)
             actions == <<[painted |-> order]>>
  <2>2. machine.kind = "render" /\ PaintsStack(order)
    BY <1>6, PaintedIsStack DEF Showed, PaintInv, AdapterInv
  <2> HIDE DEF order
  <2>3. stdout' = <<[to |-> asked, answer |-> [ok |-> actions]]>>
    BY <1>3, <2>1 DEF Ok, order
  <2>4. Head(stdout').answer.ok = actions
    BY <2>3
  <2>5. PaintedNow' \subseteq {order}
    BY <2>4 DEF PaintedNow
  <2>6. UNCHANGED <<machine, active, fading, admitted>>
    BY <1>6 DEF Showed, stackVars
  <2>7. ASSUME NEW o, PaintsStack(o) PROVE PaintsStack(o)'
    BY <2>6, <2>7 DEF PaintsStack
  <2>8. SUFFICES ASSUME NEW o \in PaintedNow' PROVE machine'.kind = "render" /\ PaintsStack(o)'
    BY DEF FrameFits
  <2> QED BY <2>2, <2>5, <2>6, <2>7
<1> QED BY <1>2, <1>4, <1>5, <1>6 DEF Answered

LEMMA PaintInvNext == PaintInv /\ [AdapterNext]_vars => PaintInv'
<1> SUFFICES ASSUME PaintInv, [AdapterNext]_vars PROVE PaintInv'
  OBVIOUS
<1>1. AdapterInv'
  BY AdapterInvNext DEF PaintInv
<1>2. CASE Reply
  <2>1. Respond(asked)
    BY <1>2, ReplyIs DEF PaintInv
  <2>2. Stacked' /\ BoundHeld'
    BY <2>1, RespondStack DEF PaintInv, AdapterInv
  <2> QED BY <1>1, <1>2, <2>2, AnswersFit DEF PaintInv
<1>3. CASE Ask \/ Skip \/ Take \/ UNCHANGED vars
  <2>1. UNCHANGED <<machine, active, fading, admitted>>
    BY <1>3 DEF Ask, Skip, Take, vars, stackVars
  <2>2. Stacked' /\ BoundHeld'
    BY <2>1 DEF PaintInv, Stacked, BoundHeld
  <2>3. stdout' = stdout \/ stdout' = <<>>
    BY <1>3, <1>1 DEF Ask, Skip, Take, vars, pipes, PaintInv, AdapterInv, PipesFit
  <2>4. PaintedNow' \subseteq PaintedNow
    BY <2>3 DEF PaintedNow
  <2>5. \A o : PaintsStack(o) => PaintsStack(o)'
    BY <2>1 DEF PaintsStack
  <2>6. FrameFits'
    BY <2>1, <2>4, <2>5 DEF PaintInv, FrameFits
  <2> QED BY <1>1, <2>2, <2>6 DEF PaintInv
<1> QED BY <1>2, <1>3 DEF AdapterNext

(* A frame is one of the stack as it is: each admitted source is painted   *)
(* with what was bound to it as it is now, whatever was bound, refused,    *)
(* replaced and lapsed before, and nothing else but what fades (main.rs,   *)
(* the render machine).                                                    *)
THEOREM FramesPaintTheStack == AdapterSpec => []FramePaintsStack
<1>1. PaintInv => FramePaintsStack
  BY DEF PaintInv, BoundHeld, FrameFits, PaintsStack, FramePaintsStack
<1> QED BY <1>1, PaintInvInit, PaintInvNext, PTL DEF AdapterSpec
=============================================================================
