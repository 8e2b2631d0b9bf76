----------------------------- MODULE StackProofs -----------------------------
(***************************************************************************)
(* Theorems about what a zone shows and where: about SourceStack, for      *)
(* every set of sources, budget and length of time; about GatewayStack,    *)
(* for every set of bindings and frames and every lease; and about Zones,  *)
(* for any device, any selectors and any wait.                             *)
(***************************************************************************)
EXTENDS GatewayStack, Zones, FoldTheorems

-----------------------------------------------------------------------------
(* What a set of sources takes.                                            *)

LEMMA CostIsNat ==
  ASSUME NEW s \in Source
  PROVE  s.kind.cost \in Nat
<1>1. s.kind \in Kind
  BY DEF Source
<1>2. s.kind \in [priority : Nat, cost : Nat, fadeIn : Nat, fadeOut : Nat]
  BY <1>1, StackAssumption
<1> QED BY <1>2

(* What a set of sources takes is what any of them takes and what the      *)
(* others do.                                                              *)
LEMMA SpentAdd ==
  ASSUME NEW D, IsFiniteSet(D), D \subseteq Source
  PROVE  /\ Spent(D) \in Nat
         /\ D = {} => Spent(D) = 0
         /\ \A x \in D : Spent(D) = x.kind.cost + Spent(D \ {x})
<1> DEFINE w == [s \in D |-> s.kind.cost]
<1>1. w \in [D -> Nat]
  BY CostIsNat
<1>2. Spent(D) = SumFunctionOnSet(w, D)
  BY DEF Spent, SumFunction
<1>3. ASSUME NEW x \in D
      PROVE  Spent(D \ {x}) = SumFunctionOnSet(w, D \ {x})
  <2> DEFINE E == D \ {x}
             v == [s \in E |-> s.kind.cost]
  <2>1. Spent(E) = SumFunctionOnSet(v, E)
    BY DEF Spent, SumFunction
  <2>2. v \in [E -> Nat] /\ IsFiniteSet(E) /\ E \subseteq D /\ \A s \in E : w[s] = v[s]
    BY CostIsNat, FS_Subset
  <2> HIDE DEF E, v, w
  <2>3. SumFunctionOnSet(w, E) = SumFunctionOnSet(v, E)
    BY <1>1, <2>2, SumSame
  <2> QED BY <2>1, <2>3 DEF E
<1>4. \A x \in D : w[x] = x.kind.cost
  OBVIOUS
<1> HIDE DEF w
<1> QED BY <1>1, <1>2, <1>3, <1>4, SumOfSome, SumAdd

LEMMA SpentOfNone == Spent({}) = 0
BY SpentAdd, FS_EmptySet

-----------------------------------------------------------------------------
(* The order of the stack.                                                 *)

(* What a stack holds: finitely many sources, with different ids.          *)
Stackable(S) ==
  /\ IsFiniteSet(S)
  /\ S \subseteq Source
  /\ \A s, o \in S : s.id = o.id => s = o

Above(S, s) == {o \in S : Outranks(o, s)}

LEMMA SourceHasOrder ==
  ASSUME NEW s \in Source
  PROVE  s.kind.priority \in Nat /\ s.pushedAt \in Nat /\ s.id \in Int
<1>1. s.kind \in Kind /\ s.pushedAt \in 0..TimeMax /\ s.id \in Id
  BY DEF Source
<1>2. s.kind \in [priority : Nat, cost : Nat, fadeIn : Nat, fadeOut : Nat]
  BY <1>1, StackAssumption
<1>3. s.kind.priority \in Nat
  BY <1>2
<1>4. 0..TimeMax \subseteq Nat /\ Id \subseteq Int
  BY StackAssumption
<1> QED BY <1>1, <1>3, <1>4

LEMMA OutranksIsOrder ==
  ASSUME NEW S, Stackable(S), NEW s \in S, NEW o \in S
  PROVE  /\ ~Outranks(s, s)
         /\ s # o => Outranks(s, o) \/ Outranks(o, s)
         /\ ~(Outranks(s, o) /\ Outranks(o, s))
         /\ \A r \in S : Outranks(r, s) /\ Outranks(s, o) => Outranks(r, o)
<1>1. \A r \in S : r.kind.priority \in Nat /\ r.pushedAt \in Nat /\ r.id \in Int
  BY SourceHasOrder DEF Stackable
<1>2. s # o => s.id # o.id
  BY DEF Stackable
<1> QED BY <1>1, <1>2 DEF Outranks

(* The list of the sources in their order has each of them once, each      *)
(* behind the ones that outrank it.                                        *)
LEMMA RankedIsOrder ==
  ASSUME NEW S, Stackable(S)
  PROVE  LET q == Ranked(S)
             n == Cardinality(S)
         IN  /\ n \in Nat /\ q \in [1..n -> S]
             /\ \A s \in S : \E i \in 1..n : q[i] = s
             /\ \A i, j \in 1..n : Outranks(q[j], q[i]) <=> j < i
<1> DEFINE q == Ranked(S)
           n == Cardinality(S)
           R == {so \in S \X S : Outranks(so[1], so[2])}
<1>1. IsFiniteSet(S) /\ StrictOrder(S, R)
  <2>1. \A s, o \in S : <<s, o>> \in R <=> Outranks(s, o)
    OBVIOUS
  <2> HIDE DEF R
  <2> QED BY <2>1, OutranksIsOrder DEF StrictOrder, Stackable
<1>2. ASSUME NEW s \in S
      PROVE  Before(S, R, s) = {o \in S : Outranks(o, s)}
  BY DEF Before
<1> HIDE DEF R
<1>3. n \in Nat /\ \A i \in 1..n : \E s \in S : Cardinality(Before(S, R, s)) = i - 1
  BY <1>1, PlacesAreTaken
<1>4. ASSUME NEW i \in 1..n
      PROVE  q[i] \in S /\ Cardinality(Before(S, R, q[i])) = i - 1
  <2>1. \E s \in S : Cardinality({o \in S : Outranks(o, s)}) = i - 1
    BY <1>2, <1>3
  <2>2. q[i] = CHOOSE s \in S : Cardinality({o \in S : Outranks(o, s)}) = i - 1
    BY DEF Ranked, InOrder
  <2>3. q[i] \in S /\ Cardinality({o \in S : Outranks(o, q[i])}) = i - 1
    BY <2>1, <2>2, Zenon
  <2> QED BY <1>2, <2>3
<1>5. q \in [1..n -> S]
  BY <1>4 DEF Ranked, InOrder
<1> HIDE DEF q
<1>6. /\ \A s \in S : \E i \in 1..n : q[i] = s
      /\ \A i, j \in 1..n : <<q[j], q[i]>> \in R <=> j < i
  BY <1>1, <1>4, ListIsOrder
<1>7. ASSUME NEW i \in 1..n, NEW j \in 1..n
      PROVE  <<q[j], q[i]>> \in R <=> Outranks(q[j], q[i])
  <2>1. q[i] \in S /\ q[j] \in S
    BY <1>5
  <2> QED BY <2>1 DEF R
<1> QED BY <1>3, <1>5, <1>6, <1>7 DEF q

-----------------------------------------------------------------------------
(* Admission, from the top of the stack down.                              *)

Accounts == [in : SUBSET Id, spent : Nat]

(* The accounts after each of the sources in turn.                         *)
Runs(r, S) ==
  /\ r \in [0..Cardinality(S) -> Accounts]
  /\ r[0] = [in |-> {}, spent |-> 0]
  /\ \A k \in 1..Cardinality(S) : r[k] = Consider(Room, r[k - 1], Ranked(S)[k])
  /\ Admit(Room, S) = r[Cardinality(S)].in

LEMMA ConsiderType ==
  ASSUME NEW acc \in Accounts, NEW s \in Source
  PROVE  Consider(Room, acc, s) \in Accounts
<1>1. s.id \in Id /\ s.kind.cost \in Nat
  BY CostIsNat DEF Source
<1> QED BY <1>1 DEF Consider, Accounts

LEMMA AdmissionRuns ==
  ASSUME NEW S, Stackable(S)
  PROVE  \E r : Runs(r, S)
<1> DEFINE q == Ranked(S)
           n == Cardinality(S)
           b == [in |-> {}, spent |-> 0]
           x(s) == Max(s)
           Eq(g) == g = [s \in SUBSET DOMAIN q |->
                           IF s = {} THEN b ELSE Consider(Room, g[s \ {x(s)}], q[x(s)])]
           iter == CHOOSE g : Eq(g)
<1>1. Admit(Room, S) = iter[DOMAIN q].in
  BY Zenon DEF Admit, FoldLeft, MapThenFoldSet
<1>2. /\ n \in Nat /\ DOMAIN q = 1..n
      /\ \A i \in 1..n : q[i] \in Source
  BY RankedIsOrder DEF Stackable
<1>3. \A s \in SUBSET (1..n) : s # {} => x(s) \in s /\ \A m \in s : m <= x(s)
  BY <1>2, LargestNumber
<1>4. b \in Accounts
  BY DEF Accounts
<1> HIDE DEF q, n, b, x
<1>5. \E g : Eq(g)
  <2> DEFINE F == [a \in Accounts \X (1..n) |-> Consider(Room, a[1], q[a[2]])]
  <2>1. F \in [Accounts \X (1..n) -> Accounts]
    BY <1>2, ConsiderType
  <2>2. PICK h \in [SUBSET (1..n) -> Accounts] : IsFoldLeft(h, n, b, F)
    <3> HIDE DEF F
    <3>1. n \in Nat
      BY <1>2
    <3> QED BY <1>4, <2>1, <3>1, FoldFromLeft
  <2>3. ASSUME NEW s \in SUBSET (1..n), s # {}
        PROVE  h[s] = Consider(Room, h[s \ {x(s)}], q[x(s)])
    <3>1. x(s) \in 1..n /\ h[s \ {x(s)}] \in Accounts
      BY <1>3, <2>3
    <3>2. F[<<h[s \ {x(s)}], x(s)>>] = Consider(Room, h[s \ {x(s)}], q[x(s)])
      BY <3>1
    <3> HIDE DEF F
    <3>3. h[s] = F[<<h[s \ {x(s)}], x(s)>>]
      BY <2>2, <2>3, Zenon DEF IsFoldLeft, x
    <3> QED BY <3>2, <3>3, Zenon
  <2>4. h[{}] = b
    BY <2>2, Zenon DEF IsFoldLeft
  <2>5. h = [s \in SUBSET (1..n) |-> IF s = {} THEN b ELSE Consider(Room, h[s \ {x(s)}], q[x(s)])]
    BY <2>3, <2>4
  <2>6. Eq(h)
    BY <1>2, <2>5, Zenon
  <2> QED BY <2>6, Zenon
<1>6. Eq(iter)
  <2> HIDE DEF Eq
  <2> QED BY <1>5, Zenon
<1> HIDE DEF iter
<1>7. \A s \in SUBSET (1..n) :
        iter[s] = IF s = {} THEN b ELSE Consider(Room, iter[s \ {x(s)}], q[x(s)])
  BY <1>2, <1>6, Zenon
<1> DEFINE r == [k \in 0..n |-> iter[1..k]]
<1>8. r[0] = b
  <2>1. 1..0 = {} /\ 0 \in 0..n
    BY <1>2
  <2> QED BY <1>7, <2>1
<1>9. ASSUME NEW k \in 1..n
      PROVE  r[k] = Consider(Room, r[k - 1], q[k])
  <2>1. 1..k \in SUBSET (1..n) /\ k \in 1..k /\ k \in 0..n /\ k - 1 \in 0..n
    BY <1>2
  <2>2. x(1..k) = k
    <3>1. x(1..k) \in 1..k /\ k <= x(1..k)
      BY <1>3, <2>1
    <3> QED BY <2>1, <3>1
  <2>3. (1..k) \ {k} = 1..(k - 1)
    BY <1>2
  <2>4. iter[1..k] = Consider(Room, iter[1..(k - 1)], q[k])
    BY <1>7, <2>1, <2>2, <2>3, Zenon
  <2> QED BY <2>1, <2>4
<1> HIDE DEF r
<1>10. \A k \in 0..n : r[k] \in Accounts
  <2> DEFINE Bad == {k \in 0..n : r[k] \notin Accounts}
  <2> SUFFICES ASSUME Bad # {} PROVE FALSE
    OBVIOUS
  <2>1. PICK k \in Bad : \A m \in Bad : k <= m
    <3>1. Bad \subseteq Nat
      BY <1>2
    <3> HIDE DEF Bad
    <3> QED BY <3>1, LeastNumber
  <2>2. k # 0
    BY <1>4, <1>8
  <2>3. k \in 1..n /\ k - 1 \in 0..n /\ k - 1 \notin Bad
    BY <1>2, <2>1, <2>2
  <2>4. r[k - 1] \in Accounts /\ q[k] \in Source
    BY <1>2, <2>3
  <2>5. r[k] \in Accounts
    BY <1>9, <2>3, <2>4, ConsiderType
  <2> QED BY <2>5
<1>11. r \in [0..n -> Accounts] /\ Admit(Room, S) = r[n].in
  <2>1. r \in [0..n -> Accounts]
    BY <1>10 DEF r
  <2>2. r[n] = iter[DOMAIN q]
    BY <1>2 DEF r
  <2> QED BY <1>1, <2>1, <2>2
<1> QED BY <1>8, <1>9, <1>11 DEF Runs, q, n, b

Admitted(S, in) == {o \in S : o.id \in in}

(* After k sources, what is admitted is among them, the account is right,  *)
(* and each was admitted if it fitted beside those before it.              *)
RunsWell(r, S, k) ==
  LET q == Ranked(S)
  IN  /\ r[k].in \subseteq {q[j].id : j \in 1..k}
      /\ Spent(Admitted(S, r[k].in)) = r[k].spent
      /\ Cardinality(Admitted(S, r[k].in)) = Cardinality(r[k].in)
      /\ IsFiniteSet(r[k].in)
      /\ \A j \in 1..k : q[j].id \in r[k].in <=> Fits(Admitted(S, r[j - 1].in), q[j])
      /\ \A j \in 0..k : \A i \in 1..j : q[i].id \in r[j].in <=> q[i].id \in r[k].in

LEMMA RunsWellStep ==
  ASSUME NEW S, Stackable(S), NEW r, Runs(r, S),
         NEW k \in 1..Cardinality(S), RunsWell(r, S, k - 1)
  PROVE  RunsWell(r, S, k)
<1> DEFINE q == Ranked(S)
           n == Cardinality(S)
           T == Admitted(S, r[k - 1].in)
           s == q[k]
<1>1. /\ n \in Nat /\ q \in [1..n -> S]
      /\ \A i, j \in 1..n : Outranks(q[j], q[i]) <=> j < i
  BY RankedIsOrder
<1>2. k \in Int /\ 1 <= k /\ k <= n /\ k \in 1..n /\ k \in 0..n /\ k - 1 \in 0..n
  BY <1>1
<1>3. /\ r[k] = Consider(Room, r[k - 1], s)
      /\ r[k - 1] \in Accounts /\ r[k] \in Accounts
  BY <1>2 DEF Runs
<1>4. s \in S /\ s \in Source
  BY <1>1, <1>2 DEF Stackable
<1>5. ASSUME NEW j \in 1..n, j # k
      PROVE  q[j].id # s.id /\ q[j] \in S
  <2>1. q[j] \in S /\ q[j] # s
    <3>1. j < k \/ k < j
      BY <1>2, <1>5
    <3> HIDE DEF q
    <3> QED BY <1>1, <1>2, <1>4, <3>1, OutranksIsOrder
  <2> HIDE DEF q
  <2> QED BY <1>4, <2>1 DEF Stackable
<1>6. /\ r[k - 1].in \subseteq {q[j].id : j \in 1..(k - 1)}
      /\ Spent(T) = r[k - 1].spent
      /\ Cardinality(T) = Cardinality(r[k - 1].in)
      /\ IsFiniteSet(r[k - 1].in)
      /\ \A j \in 1..(k - 1) :
           q[j].id \in r[k - 1].in <=> Fits(Admitted(S, r[j - 1].in), q[j])
      /\ \A j \in 0..(k - 1) : \A i \in 1..j :
           q[i].id \in r[j].in <=> q[i].id \in r[k - 1].in
  BY DEF RunsWell
<1>7. s.id \notin r[k - 1].in
  <2> SUFFICES ASSUME s.id \in r[k - 1].in PROVE FALSE
    OBVIOUS
  <2>1. PICK j \in 1..(k - 1) : s.id = q[j].id
    BY <1>6
  <2>2. j \in 1..n /\ j # k
    BY <1>1, <1>2
  <2> QED BY <1>5, <2>1, <2>2
<1>8. Fits(T, s) <=> /\ r[k - 1].spent + s.kind.cost <= Room.budget
                     /\ Cardinality(r[k - 1].in) < Room.max
  BY <1>6 DEF Fits, Room
<1>9. r[k] = IF Fits(T, s)
             THEN [in |-> r[k - 1].in \cup {s.id}, spent |-> r[k - 1].spent + s.kind.cost]
             ELSE r[k - 1]
  <2> HIDE DEF s, T
  <2> QED BY <1>3, <1>8, Zenon DEF Consider
<1>10. /\ r[k].in = IF Fits(T, s) THEN r[k - 1].in \cup {s.id} ELSE r[k - 1].in
       /\ r[k].spent = IF Fits(T, s) THEN r[k - 1].spent + s.kind.cost
                       ELSE r[k - 1].spent
  <2> HIDE DEF s, T
  <2> QED BY <1>9
<1>11. \A j \in 1..(k - 1) : j \in 1..n /\ j # k
  BY <1>1, <1>2
<1>12. 1..k = 1..(k - 1) \cup {k} /\ 0..k = 0..(k - 1) \cup {k}
  BY <1>2
<1> HIDE DEF n
<1>13. r[k].in \subseteq {q[j].id : j \in 1..k} /\ IsFiniteSet(r[k].in)
  <2>1. r[k - 1].in \subseteq {q[j].id : j \in 1..k} /\ s.id \in {q[j].id : j \in 1..k}
    BY <1>6, <1>12
  <2>2. IsFiniteSet(r[k - 1].in \cup {s.id})
    BY <1>6, FS_AddElement
  <2> HIDE DEF q, s, T
  <2> QED BY <1>6, <1>10, <2>1, <2>2
<1>14. \A j \in 1..(k - 1) : q[j].id \in r[k].in <=> q[j].id \in r[k - 1].in
  <2>1. \A j \in 1..(k - 1) : q[j].id # s.id
    BY <1>5, <1>11
  <2> HIDE DEF q, s, T
  <2> QED BY <1>10, <2>1
<1>15. s.id \in r[k].in <=> Fits(T, s)
  <2> HIDE DEF q, s, T
  <2> QED BY <1>7, <1>10
<1>16. /\ Spent(Admitted(S, r[k].in)) = r[k].spent
       /\ Cardinality(Admitted(S, r[k].in)) = Cardinality(r[k].in)
  <2>1. CASE ~Fits(T, s)
    <3>1. r[k] = r[k - 1]
      <4> HIDE DEF s, T
      <4> QED BY <1>9, <2>1
    <3> QED BY <1>6, <3>1
  <2>2. CASE Fits(T, s)
    <3> DEFINE U == Admitted(S, r[k].in)
    <3>1. T = U \ {s} /\ s \in U /\ U \subseteq Source /\ U \in SUBSET S
      <4>1. r[k].in = r[k - 1].in \cup {s.id}
        <5> HIDE DEF s, T
        <5> QED BY <1>10, <2>2
      <4> HIDE DEF s
      <4> QED BY <1>4, <1>7, <4>1 DEF Admitted, Stackable
    <3>2. IsFiniteSet(U) /\ IsFiniteSet(T)
      <4>1. IsFiniteSet(S) /\ T \in SUBSET S /\ U \in SUBSET S
        BY DEF Stackable, Admitted
      <4> HIDE DEF T, U
      <4> QED BY <4>1, FS_Subset
    <3> HIDE DEF T, U
    <3>3. Spent(U) = s.kind.cost + Spent(T)
      <4> HIDE DEF s
      <4> QED BY <3>1, <3>2, SpentAdd
    <3>4. r[k - 1].spent \in Nat /\ s.kind.cost \in Nat
      BY <1>3, <1>4, CostIsNat DEF Accounts
    <3>5. Spent(U) = r[k].spent
      <4> HIDE DEF s
      <4> QED BY <1>6, <1>10, <2>2, <3>3, <3>4
    <3>6. Cardinality(U) = Cardinality(T) + 1
      <4>1. U = T \cup {s} /\ s \notin T
        BY <3>1
      <4> HIDE DEF s
      <4> QED BY <3>2, <4>1, FS_AddElement
    <3>7. Cardinality(r[k].in) = Cardinality(r[k - 1].in) + 1
      <4>1. r[k].in = r[k - 1].in \cup {s.id}
        <5> HIDE DEF s
        <5> QED BY <1>10, <2>2
      <4> HIDE DEF s
      <4> QED BY <1>6, <1>7, <4>1, FS_AddElement
    <3> QED BY <1>6, <3>5, <3>6, <3>7 DEF U
  <2> QED BY <2>1, <2>2
<1>17. \A j \in 1..k : q[j].id \in r[k].in <=> Fits(Admitted(S, r[j - 1].in), q[j])
  <2> SUFFICES ASSUME NEW j \in 1..k
               PROVE  q[j].id \in r[k].in <=> Fits(Admitted(S, r[j - 1].in), q[j])
    OBVIOUS
  <2>1. CASE j = k
    BY <1>15, <2>1
  <2>2. CASE j \in 1..(k - 1)
    <3> HIDE DEF q
    <3> QED BY <1>6, <1>14, <2>2
  <2> QED BY <1>12, <2>1, <2>2
<1>18. \A j \in 0..k : \A i \in 1..j : q[i].id \in r[j].in <=> q[i].id \in r[k].in
  <2> SUFFICES ASSUME NEW j \in 0..k, NEW i \in 1..j
               PROVE  q[i].id \in r[j].in <=> q[i].id \in r[k].in
    OBVIOUS
  <2>1. CASE j \in 0..(k - 1)
    <3>1. i \in 1..(k - 1)
      BY <1>2, <2>1
    <3> HIDE DEF q
    <3> QED BY <1>6, <1>14, <2>1, <3>1
  <2> QED BY <1>12, <2>1
<1> QED BY <1>13, <1>16, <1>17, <1>18 DEF RunsWell

LEMMA RunsWellThroughout ==
  ASSUME NEW S, Stackable(S), NEW r, Runs(r, S)
  PROVE  \A k \in 0..Cardinality(S) : RunsWell(r, S, k)
<1> DEFINE n == Cardinality(S)
<1> DEFINE Bad == {k \in 0..n : ~RunsWell(r, S, k)}
<1>0. n \in Nat
  BY RankedIsOrder
<1> SUFFICES ASSUME Bad # {} PROVE FALSE
  OBVIOUS
<1>1. PICK k \in Bad : \A m \in Bad : k <= m
  <2>1. Bad \subseteq Nat
    BY <1>0
  <2> HIDE DEF Bad
  <2> QED BY <2>1, LeastNumber
<1>2. k # 0
  <2> SUFFICES RunsWell(r, S, 0)
    OBVIOUS
  <2>1. r[0].in = {} /\ r[0].spent = 0
    BY DEF Runs
  <2>2. Admitted(S, {}) = {}
    BY DEF Admitted
  <2>3. 1..0 = {} /\ 0..0 = {0}
    OBVIOUS
  <2> QED BY <2>1, <2>2, <2>3, SpentOfNone, FS_EmptySet DEF RunsWell
<1>3. k \in 1..n /\ k - 1 \in 0..n /\ k - 1 \notin Bad
  BY <1>0, <1>1, <1>2
<1>4. RunsWell(r, S, k)
  BY <1>3, RunsWellStep
<1> QED BY <1>4

(* Admission: of what is admitted a source sees those above it, and is in  *)
(* if it fits beside them.                                                 *)
LEMMA AdmitsWhatFits ==
  ASSUME NEW S, Stackable(S)
  PROVE  /\ Admit(Room, S) \subseteq Ids(S)
         /\ \A s \in S : s.id \in Admit(Room, S) <=> Fits(Above(Admitted(S, Admit(Room, S)), s), s)
<1> DEFINE q == Ranked(S)
           n == Cardinality(S)
<1>1. PICK r : Runs(r, S)
  BY AdmissionRuns
<1>2. /\ n \in Nat /\ q \in [1..n -> S]
      /\ \A s \in S : \E i \in 1..n : q[i] = s
      /\ \A i, j \in 1..n : Outranks(q[j], q[i]) <=> j < i
  BY RankedIsOrder
<1>3. n \in 0..n /\ RunsWell(r, S, n) /\ Admit(Room, S) = r[n].in
  <2>1. n \in 0..n
    BY <1>2
  <2> QED BY <1>1, <2>1, RunsWellThroughout DEF Runs
<1>4. Admit(Room, S) \subseteq Ids(S)
  <2>1. r[n].in \subseteq Ids(S)
    BY <1>2, <1>3 DEF RunsWell, Ids
  <2> QED BY <1>3, <2>1, Zenon
<1>5. ASSUME NEW s \in S
      PROVE  s.id \in Admit(Room, S) <=> Fits(Above(Admitted(S, Admit(Room, S)), s), s)
  <2>1. PICK i \in 1..n : q[i] = s
    BY <1>2
  <2>2. s.id \in Admit(Room, S) <=> Fits(Admitted(S, r[i - 1].in), s)
    BY <1>3, <2>1 DEF RunsWell
  <2>3. i - 1 \in 0..n
    BY <1>2
  <2>4. r[i - 1].in \subseteq {q[j].id : j \in 1..(i - 1)}
    BY <2>3, <1>1, RunsWellThroughout DEF RunsWell
  <2>5. \A j \in 1..(i - 1) : q[j].id \in r[i - 1].in <=> q[j].id \in Admit(Room, S)
    BY <1>3, <2>3 DEF RunsWell
  <2>6. ASSUME NEW o \in S
        PROVE  o.id \in r[i - 1].in <=> o.id \in Admit(Room, S) /\ Outranks(o, s)
    <3>1. PICK j \in 1..n : q[j] = o
      BY <1>2
    <3>2. Outranks(o, s) <=> j \in 1..(i - 1)
      BY <1>2, <2>1, <3>1
    <3>3. ASSUME o.id \in r[i - 1].in
          PROVE  j \in 1..(i - 1)
      <4>1. PICK m \in 1..(i - 1) : q[m].id = o.id
        BY <2>4, <3>3
      <4>2. m \in 1..n
        BY <1>2
      <4>3. q[m] = o
        BY <1>2, <4>1, <4>2 DEF Stackable
      <4>4. Outranks(q[m], s)
        BY <1>2, <2>1, <4>2
      <4> QED BY <3>2, <4>3, <4>4
    <3> HIDE DEF q, n
    <3> QED BY <2>5, <3>1, <3>2, <3>3
  <2>7. Admitted(S, r[i - 1].in) = Above(Admitted(S, Admit(Room, S)), s)
    BY <2>6 DEF Admitted, Above
  <2> QED BY <2>2, <2>7
<1> QED BY <1>4, <1>5

-----------------------------------------------------------------------------
(* Fades.                                                                  *)

Fade == [source : Source, since : Nat]

LEMMA LiveFadesStay ==
  ASSUME NEW fades \in Seq(Fade)
  PROVE  /\ StillFading(now, fades) \in Seq(Fade)
         /\ \A i \in DOMAIN StillFading(now, fades) : ~FadeDone(now, StillFading(now, fades)[i])
<1> DEFINE Live == {f \in Fade : ~FadeDone(now, f)}
           n == Len(fades)
           x(s) == Max(s)
           Eq(g) == g = [s \in SUBSET DOMAIN fades |->
                           IF s = {} THEN <<>> ELSE Continue(now, g[s \ {x(s)}], fades[x(s)])]
           iter == CHOOSE g : Eq(g)
<1>1. StillFading(now, fades) = iter[DOMAIN fades]
  BY Zenon DEF StillFading, FoldLeft, MapThenFoldSet
<1>2. n \in Nat /\ DOMAIN fades = 1..n /\ \A i \in 1..n : fades[i] \in Fade
  OBVIOUS
<1>3. \A s \in SUBSET (1..n) : s # {} => x(s) \in s
  BY <1>2, LargestNumber
<1>4. ASSUME NEW kept \in Seq(Live), NEW f \in Fade
      PROVE  Continue(now, kept, f) \in Seq(Live)
  BY DEF Continue
<1>5. <<>> \in Seq(Live)
  OBVIOUS
<1> HIDE DEF n, x, Live
<1>6. \E g : Eq(g)
  <2> DEFINE F == [a \in Seq(Live) \X (1..n) |-> Continue(now, a[1], fades[a[2]])]
  <2>1. F \in [Seq(Live) \X (1..n) -> Seq(Live)]
    BY <1>2, <1>4
  <2>2. PICK h \in [SUBSET (1..n) -> Seq(Live)] : IsFoldLeft(h, n, <<>>, F)
    <3> HIDE DEF F
    <3>1. n \in Nat
      BY <1>2
    <3> QED BY <1>5, <2>1, <3>1, FoldFromLeft
  <2>3. ASSUME NEW s \in SUBSET (1..n), s # {}
        PROVE  h[s] = Continue(now, h[s \ {x(s)}], fades[x(s)])
    <3>1. x(s) \in 1..n /\ h[s \ {x(s)}] \in Seq(Live)
      BY <1>3, <2>3
    <3>2. F[<<h[s \ {x(s)}], x(s)>>] = Continue(now, h[s \ {x(s)}], fades[x(s)])
      BY <3>1
    <3> HIDE DEF F
    <3>3. h[s] = F[<<h[s \ {x(s)}], x(s)>>]
      BY <2>2, <2>3, Zenon DEF IsFoldLeft, x
    <3> QED BY <3>2, <3>3, Zenon
  <2>4. h[{}] = <<>>
    BY <2>2, Zenon DEF IsFoldLeft
  <2>5. h = [s \in SUBSET (1..n) |->
               IF s = {} THEN <<>> ELSE Continue(now, h[s \ {x(s)}], fades[x(s)])]
    BY <2>3, <2>4
  <2>6. Eq(h)
    BY <1>2, <2>5, Zenon
  <2> QED BY <2>6, Zenon
<1>7. Eq(iter)
  <2> HIDE DEF Eq
  <2> QED BY <1>6, Zenon
<1> HIDE DEF iter
<1>8. \A s \in SUBSET (1..n) : iter[s] = IF s = {} THEN <<>>
                                         ELSE Continue(now, iter[s \ {x(s)}], fades[x(s)])
  BY <1>2, <1>7, Zenon
<1>9. iter[1..n] \in Seq(Live)
  <2> DEFINE Bad == {s \in SUBSET (1..n) : iter[s] \notin Seq(Live)}
  <2> SUFFICES ASSUME Bad # {} PROVE FALSE
    OBVIOUS
  <2>1. PICK s \in Bad : \A t \in Bad : t \subseteq s => t = s
    <3> DEFINE D == 1..n
    <3>1. Bad \subseteq SUBSET D /\ IsFiniteSet(D)
      BY <1>2, FS_Interval
    <3>2. Bad # {}
      OBVIOUS
    <3> HIDE DEF Bad, D
    <3> QED BY <3>1, <3>2, SmallestSubset
  <2>2. s # {}
    BY <1>5, <1>8
  <2>3. x(s) \in s /\ x(s) \in 1..n /\ s \ {x(s)} \notin Bad
    BY <1>3, <2>1, <2>2
  <2>4. iter[s \ {x(s)}] \in Seq(Live) /\ fades[x(s)] \in Fade
    BY <1>2, <2>3
  <2> QED BY <1>4, <1>8, <2>2, <2>4
<1>10. StillFading(now, fades) \in Seq(Live)
  BY <1>1, <1>2, <1>9
<1>11. \A i \in DOMAIN StillFading(now, fades) : StillFading(now, fades)[i] \in Live
  BY <1>10
<1>12. StillFading(now, fades) \in Seq(Fade)
  BY <1>10 DEF Live
<1> QED BY <1>11, <1>12 DEF Live

LEMMA PartIsStackable ==
  ASSUME NEW S, Stackable(S), NEW T \in SUBSET S
  PROVE  Stackable(T)
<1>1. IsFiniteSet(T)
  BY FS_Subset DEF Stackable
<1> QED BY <1>1 DEF Stackable

LEMMA BeginFadeType ==
  ASSUME NEW S, Stackable(S), now \in Nat
  PROVE  BeginFade(now, S) \in Seq(Fade)
<1> DEFINE slow == {s \in S : s.kind.fadeOut > 0}
           n == Cardinality(slow)
<1>1. Stackable(slow)
  BY PartIsStackable
<1>2. n \in Nat /\ Ranked(slow) \in [1..n -> slow] /\ slow \subseteq Source
  <2> HIDE DEF slow
  <2> QED BY <1>1, RankedIsOrder DEF Stackable
<1>3. BeginFade(now, S) = [i \in 1..n |-> [source |-> Ranked(slow)[i], since |-> now]]
  <2>1. DOMAIN Ranked(slow) = 1..n
    BY <1>2
  <2> QED BY <2>1, Zenon DEF BeginFade
<1> HIDE DEF slow, n
<1>4. \A i \in 1..n : [source |-> Ranked(slow)[i], since |-> now] \in Fade
  BY <1>2 DEF Fade
<1> QED BY <1>2, <1>3, <1>4

-----------------------------------------------------------------------------
(* Leases.                                                                 *)

(* Every source above the ambient floor has an end, and a frame has just   *)
(* removed whatever reached its own.                                       *)
Leased ==
  /\ now \in Nat
  /\ active \subseteq Source
  /\ \A s \in active : Ambient(s) \/ s.expires # Never
  /\ framed => \A s \in active : s.expires = Never \/ now < s.expires

LEMMA PushLeased ==
  ASSUME Leased, NEW s \in Source, Push(Room, now, s), framed' = FALSE, now' = now
  PROVE  Leased'
<1>1. active' \subseteq active \cup {s}
  BY DEF Push, Of
<1>2. Ambient(s) \/ s.expires # Never
  BY DEF Push, Acceptable
<1> QED BY <1>1, <1>2 DEF Leased, Ambient

LEMMA RenewLeased ==
  ASSUME Leased, NEW id \in Id, NEW t \in 0..TimeMax, Renew(id, t),
         framed' = FALSE, now' = now
  PROVE  Leased'
<1>1. \A s \in active' : \E o \in active :
        s = o \/ s = [o EXCEPT !.expires = t]
  BY DEF Renew
<1>2. t # Never
  BY StackAssumption
<1>3. ASSUME NEW o \in Source
      PROVE  /\ [o EXCEPT !.expires = t] \in Source
             /\ [o EXCEPT !.expires = t].expires = t
  BY DEF Source
<1>4. active' \subseteq Source
  BY <1>1, <1>3 DEF Leased
<1>5. \A s \in active' : Ambient(s) \/ s.expires # Never
  BY <1>1, <1>2, <1>3 DEF Leased
<1> QED BY <1>4, <1>5 DEF Leased, Ambient

LEMMA FrameLeased ==
  ASSUME Leased, Frame
  PROVE  Leased'
<1>1. active' = {s \in active : ~HasExpired(s, now)} /\ now' = now
  BY DEF Frame, Advance
<1>2. \A s \in active' : s.expires = Never \/ now < s.expires
  <2> SUFFICES ASSUME NEW s \in active, ~HasExpired(s, now), s.expires # Never
               PROVE  now < s.expires
    BY <1>1
  <2>1. s.expires \in 0..TimeMax
    BY DEF Leased, Source
  <2> QED BY <2>1, StackAssumption DEF Leased, HasExpired
<1> QED BY <1>1, <1>2 DEF Leased, Ambient

LEMMA LeasedInductive == Leased /\ [StackNext]_vars => Leased'
<1> SUFFICES ASSUME Leased, [StackNext]_vars
             PROVE  Leased'
  OBVIOUS
<1>1. ASSUME Call, NEW s \in Source, Push(Room, now, s)
      PROVE  Leased'
  BY <1>1, PushLeased DEF Call
<1>2. ASSUME Call, NEW id \in Id, Pop(Room, now, id)
      PROVE  Leased'
  BY <1>2 DEF Call, Pop, Leased, Ambient
<1>3. ASSUME Call, NEW id \in Id, NEW t \in 0..TimeMax, Renew(id, t)
      PROVE  Leased'
  BY <1>3, RenewLeased DEF Call
<1>4. CASE Frame
  BY <1>4, FrameLeased
<1>5. CASE Tick
  BY <1>5 DEF Tick, stackVars, Leased, Ambient
<1>6. CASE UNCHANGED vars
  BY <1>6 DEF vars, stackVars, Leased, Ambient
<1> QED BY <1>1, <1>2, <1>3, <1>4, <1>5, <1>6 DEF StackNext

(* Whatever is pushed and renewed, and whenever frames are painted, a      *)
(* frame later than every lease shows only ambient sources.                *)
THEOREM NothingIsStuck == StackSpec => []NothingSticks
<1>1. StackInit => Leased
  BY DEF StackInit, EmptyStack, Leased
<1>2. Leased => NothingSticks
  <2> SUFFICES ASSUME Leased, framed, now > TimeMax, NEW s \in active
               PROVE  Ambient(s)
    BY DEF NothingSticks
  <2>1. s.expires \in (0..TimeMax) \cup {Never}
    BY DEF Leased, Source
  <2>2. s.expires = Never
    BY <2>1, StackAssumption DEF Leased
  <2> QED BY <2>2 DEF Leased
<1> QED BY <1>1, <1>2, LeasedInductive, PTL DEF StackSpec

-----------------------------------------------------------------------------
(* What holds of the stack between any two calls.                          *)

(* Exactly what fits is admitted, and the rest of the stack rejected.      *)
WellAdmitted ==
  /\ admitted \subseteq Ids(active)
  /\ rejected = Ids(active) \ admitted
  /\ \A s \in active :
       s.id \in admitted <=> Fits(Above(Admitted(active, admitted), s), s)

WellTold ==
  \A id \in Id : told[id] = CASE id \in admitted -> "shown"
                              [] id \in rejected -> "left out"
                              [] OTHER -> "gone"

FadesEnd ==
  /\ fading \in Seq(Fade)
  /\ framed => \A i \in DOMAIN fading : ~FadeDone(now, fading[i])

StackInv == Leased /\ Stackable(active) /\ WellAdmitted /\ WellTold /\ FadesEnd

LEMMA AfterAdmission ==
  ASSUME WellAdmitted, WellTold, Stackable(active'), Readmit(Room, active')
  PROVE  WellAdmitted' /\ WellTold'
<1> DEFINE S == active'
           in == Admit(Room, S)
<1>1. /\ in \subseteq Ids(S)
      /\ \A s \in S : s.id \in in <=> Fits(Above(Admitted(S, in), s), s)
  BY AdmitsWhatFits
<1>2. admitted' = in /\ rejected' = Ids(S) \ in /\ told' = Reported(S, in)
  BY DEF Readmit
<1>3. WellAdmitted'
  BY <1>1, <1>2 DEF WellAdmitted
<1>4. WellTold'
  <2> SUFFICES ASSUME NEW id \in Id
               PROVE  told'[id] = CASE id \in admitted' -> "shown"
                                    [] id \in rejected' -> "left out"
                                    [] OTHER -> "gone"
    BY DEF WellTold
  <2>1. told'[id] = CASE id \in in \ admitted -> "shown"
                      [] id \in (Ids(S) \ in) \ rejected -> "left out"
                      [] id \in Ids(active) \ Ids(S) -> "gone"
                      [] OTHER -> told[id]
    BY <1>2 DEF Reported
  <2>2. told[id] = CASE id \in admitted -> "shown"
                     [] id \in rejected -> "left out"
                     [] OTHER -> "gone"
    BY DEF WellTold
  <2>3. admitted \subseteq Ids(active) /\ rejected = Ids(active) \ admitted
    BY DEF WellAdmitted
  <2> HIDE DEF S, in
  <2> QED BY <1>1, <1>2, <2>1, <2>2, <2>3
<1> QED BY <1>3, <1>4

LEMMA PushKeepsInv ==
  ASSUME StackInv, NEW s \in Source, Call, Push(Room, now, s)
  PROVE  StackInv'
<1>1. Leased'
  BY PushLeased DEF StackInv, Call
<1>2. active' = (active \ Of(s.id)) \cup {s} /\ Readmit(Room, active') /\ fading' = fading
  BY DEF Push
<1>3. Stackable(active')
  <2> DEFINE rest == active \ Of(s.id)
  <2>1. Stackable(rest)
    BY PartIsStackable DEF StackInv
  <2>2. \A o \in rest : o.id # s.id
    BY DEF Of
  <2> HIDE DEF rest
  <2>3. IsFiniteSet(rest \cup {s})
    BY <2>1, FS_AddElement DEF Stackable
  <2>4. Stackable(rest \cup {s})
    BY <2>1, <2>2, <2>3 DEF Stackable
  <2> QED BY <1>2, <2>4 DEF rest
<1>4. WellAdmitted' /\ WellTold'
  BY <1>2, <1>3, AfterAdmission DEF StackInv
<1>5. FadesEnd'
  BY <1>2 DEF StackInv, FadesEnd, Call
<1> QED BY <1>1, <1>3, <1>4, <1>5 DEF StackInv

LEMMA PopKeepsInv ==
  ASSUME StackInv, NEW id \in Id, Call, Pop(Room, now, id)
  PROVE  StackInv'
<1>1. active' = active \ Of(id) /\ Readmit(Room, active')
      /\ fading' = fading \o BeginFade(now, Of(id))
  BY DEF Pop
<1>2. Leased'
  BY <1>1 DEF StackInv, Call, Leased, Ambient
<1>3. Stackable(active')
  <2>1. Stackable(active \ Of(id))
    BY PartIsStackable DEF StackInv
  <2> QED BY <1>1, <2>1
<1>4. WellAdmitted' /\ WellTold'
  BY <1>1, <1>3, AfterAdmission DEF StackInv
<1>5. FadesEnd'
  <2>1. Stackable(Of(id)) /\ now \in Nat
    BY PartIsStackable DEF StackInv, Of, Leased
  <2>2. BeginFade(now, Of(id)) \in Seq(Fade)
    BY <2>1, BeginFadeType
  <2>3. fading \in Seq(Fade) /\ ~framed'
    BY DEF StackInv, FadesEnd, Call
  <2>4. fading' \in Seq(Fade)
    BY <1>1, <2>2, <2>3
  <2> QED BY <2>3, <2>4 DEF FadesEnd
<1> QED BY <1>2, <1>3, <1>4, <1>5 DEF StackInv

LEMMA FrameKeepsInv ==
  ASSUME StackInv, Frame
  PROVE  StackInv'
<1> DEFINE lapsed == {s \in active : HasExpired(s, now)}
           fades == fading \o BeginFade(now, lapsed)
<1>1. /\ active' = active \ lapsed /\ Readmit(Room, active') /\ now' = now
      /\ fading' = StillFading(now, fades)
  BY DEF Frame, Advance
<1>2. Leased'
  BY FrameLeased DEF StackInv
<1>3. Stackable(active')
  <2>1. Stackable(active \ lapsed)
    BY PartIsStackable DEF StackInv
  <2> QED BY <1>1, <2>1
<1>4. WellAdmitted' /\ WellTold'
  BY <1>1, <1>3, AfterAdmission DEF StackInv
<1>5. FadesEnd'
  <2>1. Stackable(lapsed) /\ now \in Nat /\ fading \in Seq(Fade)
    BY PartIsStackable DEF StackInv, Leased, FadesEnd
  <2>2. BeginFade(now, lapsed) \in Seq(Fade)
    <3> HIDE DEF lapsed
    <3> QED BY <2>1, BeginFadeType
  <2>3. fades \in Seq(Fade)
    <3> HIDE DEF lapsed
    <3> QED BY <2>1, <2>2
  <2> HIDE DEF fades
  <2>4. /\ StillFading(now, fades) \in Seq(Fade)
        /\ \A i \in DOMAIN StillFading(now, fades) : ~FadeDone(now, StillFading(now, fades)[i])
    BY <2>3, LiveFadesStay
  <2> QED BY <1>1, <2>4 DEF FadesEnd, FadeDone
<1> QED BY <1>2, <1>3, <1>4, <1>5 DEF StackInv

(* One source put in the place of another of its kind takes what it took.  *)
LEMMA SpentSwap ==
  ASSUME NEW D, IsFiniteSet(D), D \subseteq Source, NEW u \in D,
         NEW v \in Source, v.kind = u.kind, v \notin D \ {u}
  PROVE  LET E == (D \ {u}) \cup {v}
         IN  Spent(E) = Spent(D) /\ Cardinality(E) = Cardinality(D)
<1> DEFINE rest == D \ {u}
           E == rest \cup {v}
<1>1. IsFiniteSet(rest) /\ rest \subseteq Source /\ Cardinality(rest) = Cardinality(D) - 1
  BY FS_RemoveElement
<1>2. Cardinality(D) \in Nat
  BY FS_CardinalityType
<1>3. Spent(D) = u.kind.cost + Spent(rest)
  BY SpentAdd
<1> HIDE DEF rest
<1>4. IsFiniteSet(E) /\ Cardinality(E) = Cardinality(rest) + 1
  BY <1>1, FS_AddElement DEF rest
<1>5. E \ {v} = rest /\ v \in E /\ E \subseteq Source
  BY <1>1 DEF rest
<1> HIDE DEF E
<1>6. Spent(E) = v.kind.cost + Spent(rest)
  BY <1>4, <1>5, SpentAdd
<1>7. Spent(E) = Spent(D) /\ Cardinality(E) = Cardinality(D)
  BY <1>1, <1>2, <1>3, <1>4, <1>6
<1> QED BY <1>7 DEF E, rest

LEMMA RenewKeepsInv ==
  ASSUME StackInv, NEW id \in Id, NEW t \in 0..TimeMax, Call, Renew(id, t)
  PROVE  StackInv'
<1>1. Leased'
  BY RenewLeased DEF StackInv, Call
<1>2. PICK u \in active : u.id = id
  BY DEF Renew, Of
<1> DEFINE v == [u EXCEPT !.expires = t]
<1>3. /\ Stackable(active) /\ WellAdmitted /\ WellTold
      /\ UNCHANGED <<fading, admitted, rejected, told>>
  BY DEF StackInv, Renew
<1>4. v \in Source /\ v.id = u.id /\ v.kind = u.kind /\ v.pushedAt = u.pushedAt
  <2>1. u \in Source
    BY <1>3 DEF Stackable
  <2> QED BY <2>1 DEF Source
<1>5. active' = (active \ {u}) \cup {v}
  <2>1. \A s \in active : s.id = id <=> s = u
    BY <1>2, <1>3 DEF Stackable
  <2>2. active' = {IF s.id = id THEN [s EXCEPT !.expires = t] ELSE s : s \in active}
    BY DEF Renew
  <2>3. ASSUME NEW x
        PROVE  x \in active' <=> x \in (active \ {u}) \cup {v}
    BY <2>1, <2>2
  <2> QED BY <2>3
<1> HIDE DEF v
<1>6. \A s \in active \ {u} : s.id # v.id
  BY <1>3, <1>4 DEF Stackable
<1>7. Stackable(active')
  <2>1. Stackable(active \ {u})
    BY <1>3, PartIsStackable
  <2>2. IsFiniteSet((active \ {u}) \cup {v})
    BY <2>1, FS_AddElement DEF Stackable
  <2>3. Stackable((active \ {u}) \cup {v})
    BY <1>4, <1>6, <2>1, <2>2 DEF Stackable
  <2> QED BY <1>5, <2>3
<1>8. Ids(active') = Ids(active)
  BY <1>4, <1>5 DEF Ids
<1>9. ASSUME NEW s \in active, NEW z \in active', s = z \/ (s = u /\ z = v)
      PROVE  /\ z.id = s.id
             /\ Fits(Above(Admitted(active', admitted), z), z)
                  <=> Fits(Above(Admitted(active, admitted), s), s)
  <2> DEFINE A == Above(Admitted(active, admitted), s)
             B == Above(Admitted(active', admitted), z)
  <2>1. z.id = s.id /\ z.kind = s.kind /\ z.pushedAt = s.pushedAt
    BY <1>4, <1>9
  <2>2. \A o : Outranks(o, z) <=> Outranks(o, s)
    BY <2>1 DEF Outranks
  <2>3. Outranks(v, s) <=> Outranks(u, s)
    BY <1>4 DEF Outranks
  <2>4. IsFiniteSet(A) /\ A \subseteq Source
    <3>1. Stackable(A)
      BY <1>3, PartIsStackable DEF Above, Admitted
    <3> QED BY <3>1 DEF Stackable
  <2>5. B = IF u \in A THEN (A \ {u}) \cup {v} ELSE A
    BY <1>4, <1>5, <2>2, <2>3 DEF Above, Admitted
  <2>6. v \notin A \ {u}
    BY <1>6 DEF Above, Admitted
  <2> HIDE DEF A, B
  <2>7. Spent(B) = Spent(A) /\ Cardinality(B) = Cardinality(A)
    <3>1. CASE u \in A
      BY <1>4, <2>4, <2>5, <2>6, <3>1, SpentSwap
    <3> QED BY <2>5, <3>1
  <2>8. Fits(B, z) <=> Fits(A, s)
    BY <2>1, <2>7 DEF Fits
  <2> QED BY <2>1, <2>8 DEF A, B
<1>10. WellAdmitted'
  <2>1. ASSUME NEW z \in active'
        PROVE  z.id \in admitted <=> Fits(Above(Admitted(active', admitted), z), z)
    <3>1. PICK s \in active : s = z \/ (s = u /\ z = v)
      BY <1>5
    <3>2. s.id \in admitted <=> Fits(Above(Admitted(active, admitted), s), s)
      BY <1>3 DEF WellAdmitted
    <3> QED BY <1>9, <3>1, <3>2
  <2> QED BY <1>3, <1>8, <2>1 DEF WellAdmitted
<1>11. WellTold' /\ FadesEnd'
  BY <1>3 DEF StackInv, WellTold, FadesEnd, Call
<1> QED BY <1>1, <1>7, <1>10, <1>11 DEF StackInv

LEMMA StackInvInitially == StackInit => StackInv
<1> SUFFICES ASSUME StackInit PROVE StackInv
  OBVIOUS
<1>1. Leased
  BY DEF StackInit, EmptyStack, Leased
<1>2. Stackable(active)
  BY FS_EmptySet DEF StackInit, EmptyStack, Stackable
<1>3. WellAdmitted /\ WellTold
  BY DEF StackInit, EmptyStack, WellAdmitted, WellTold, Ids
<1>4. FadesEnd
  BY DEF StackInit, EmptyStack, FadesEnd
<1> QED BY <1>1, <1>2, <1>3, <1>4 DEF StackInv

LEMMA StackInvStep == StackInv /\ [StackNext]_vars => StackInv'
<1> SUFFICES ASSUME StackInv, [StackNext]_vars
             PROVE  StackInv'
  OBVIOUS
<1>1. ASSUME Call, NEW s \in Source, Push(Room, now, s)
      PROVE  StackInv'
  BY <1>1, PushKeepsInv
<1>2. ASSUME Call, NEW id \in Id, Pop(Room, now, id)
      PROVE  StackInv'
  BY <1>2, PopKeepsInv
<1>3. ASSUME Call, NEW id \in Id, NEW t \in 0..TimeMax, Renew(id, t)
      PROVE  StackInv'
  BY <1>3, RenewKeepsInv
<1>4. CASE Frame
  BY <1>4, FrameKeepsInv
<1>5. CASE Tick
  <2>1. Leased' /\ framed' = FALSE
    BY <1>5, LeasedInductive DEF StackInv, StackNext, Tick, stackVars
  <2>2. UNCHANGED <<active, fading, admitted, rejected, told>>
    BY <1>5 DEF Tick, stackVars
  <2> QED BY <2>1, <2>2 DEF StackInv, WellAdmitted, WellTold, FadesEnd
<1>6. CASE UNCHANGED vars
  <2>1. Leased'
    BY <1>6, LeasedInductive DEF StackInv
  <2>2. UNCHANGED <<active, fading, admitted, rejected, told, now, framed>>
    BY <1>6 DEF vars, stackVars
  <2> QED BY <2>1, <2>2 DEF StackInv, WellAdmitted, WellTold, FadesEnd, FadeDone
<1> QED BY <1>1, <1>2, <1>3, <1>4, <1>5, <1>6 DEF StackNext

LEMMA StackInvHolds == StackSpec => []StackInv
BY StackInvInitially, StackInvStep, PTL DEF StackSpec

(* However the stack is used, a source is left out exactly while what is   *)
(* admitted above it leaves it no room, for any budget and any sources.    *)
THEOREM NothingIsLeftOut == StackSpec => []NothingLeftOut
<1>1. StackInv => NothingLeftOut
  <2> SUFFICES ASSUME StackInv, NEW s \in active
               PROVE  s.id \in rejected <=>
                        ~Fits({o \in active : o.id \in admitted /\ Outranks(o, s)}, s)
    BY DEF NothingLeftOut
  <2>1. {o \in active : o.id \in admitted /\ Outranks(o, s)}
          = Above(Admitted(active, admitted), s)
    BY DEF Above, Admitted
  <2>2. s.id \in rejected <=> s.id \notin admitted
    BY DEF StackInv, WellAdmitted, Ids
  <2> QED BY <2>1, <2>2 DEF StackInv, WellAdmitted
<1> QED BY <1>1, StackInvHolds, PTL

(* Whatever is done to the stack, an app that only followed its changes    *)
(* knows what every source is doing.                                       *)
THEOREM AppsAreTold == StackSpec => []ToldTheTruth
<1>1. StackInv => ToldTheTruth
  <2> SUFFICES ASSUME StackInv PROVE ToldTheTruth
    OBVIOUS
  <2>1. \A s, o \in active : s.id = o.id => s = o
    BY DEF StackInv, Stackable
  <2>2. admitted \cap rejected = {} /\ admitted \cup rejected = Ids(active)
    BY DEF StackInv, WellAdmitted
  <2> QED BY <2>1, <2>2 DEF ToldTheTruth, StackInv, WellTold
<1> QED BY <1>1, StackInvHolds, PTL

(* What fades in a frame has not run its length.                           *)
LEMMA RunningFade ==
  ASSUME FadesEnd, Leased, framed, NEW i \in DOMAIN fading
  PROVE  /\ now < fading[i].since + fading[i].source.kind.fadeOut
         /\ now - fading[i].since < fading[i].source.kind.fadeOut
<1>1. fading[i] \in Fade /\ ~FadeDone(now, fading[i]) /\ now \in Nat
  BY DEF FadesEnd, Leased
<1>2. fading[i].since \in Nat /\ fading[i].source \in Source
  BY <1>1 DEF Fade
<1>3. fading[i].source.kind \in [priority : Nat, cost : Nat, fadeIn : Nat, fadeOut : Nat]
  BY <1>2, StackAssumption DEF Source
<1>4. fading[i].source.kind.fadeOut \in Nat
  BY <1>3
<1> QED BY <1>1, <1>2, <1>4 DEF FadeDone

(* No frame paints a source whose lease is over, or a fade that has run    *)
(* its length.                                                             *)
THEOREM NothingStays == StackSpec => []NothingOverstays
<1>1. StackInv => NothingOverstays
  <2> SUFFICES ASSUME StackInv, framed
               PROVE  /\ \A s \in active : s.expires = Never \/ now < s.expires
                      /\ \A i \in DOMAIN fading :
                           now < fading[i].since + fading[i].source.kind.fadeOut
    BY DEF NothingOverstays
  <2> QED BY RunningFade DEF StackInv, Leased
<1> QED BY <1>1, StackInvHolds, PTL

(* The renderer's own order never disagrees with the stack's: a frame that *)
(* shows the top of the stack paints over it only what is still within its *)
(* fade, and what was pushed at the same priority and moment.              *)
THEOREM OrdersAgree == StackSpec => []TopCovers
<1>1. StackInv => TopCovers
  <2> SUFFICES ASSUME StackInv, framed, NEW s \in active, Top(s), Shows(s),
                      NEW l \in Layers, l # [source |-> s, layer |-> 0]
               PROVE  \/ PaintedOver([source |-> s, layer |-> 0], l)
                      \/ /\ l.layer > 0
                         /\ now - fading[l.layer].since < l.source.kind.fadeOut
                      \/ /\ l.layer = 0
                         /\ l.source.kind.priority = s.kind.priority
                         /\ l.source.pushedAt = s.pushedAt
    BY DEF TopCovers
  <2>1. CASE \E o \in active : Shows(o) /\ l = [source |-> o, layer |-> 0]
    <3>1. PICK o \in active : Shows(o) /\ l = [source |-> o, layer |-> 0]
      BY <2>1
    <3>2. Outranks(s, o)
      BY <3>1 DEF Top, Shows
    <3>3. \A z \in {s, o} : /\ z.kind.priority \in Nat
                            /\ z.pushedAt \in Nat
      BY SourceHasOrder DEF StackInv, Leased
    <3>4. l.source = o /\ l.layer = 0
      BY <3>1
    <3>5. \/ s.kind.priority > o.kind.priority
          \/ s.kind.priority = o.kind.priority /\ s.pushedAt > o.pushedAt
          \/ s.kind.priority = o.kind.priority /\ s.pushedAt = o.pushedAt
      BY <3>2, <3>3 DEF Outranks
    <3> QED BY <3>4, <3>5 DEF PaintedOver
  <2>2. CASE \E i \in DOMAIN fading : l = [source |-> fading[i].source, layer |-> i]
    <3>1. PICK i \in DOMAIN fading : l = [source |-> fading[i].source, layer |-> i]
      BY <2>2
    <3>2. i \in Nat /\ i > 0
      BY DEF StackInv, FadesEnd
    <3>3. now - fading[i].since < fading[i].source.kind.fadeOut
      BY RunningFade DEF StackInv
    <3> QED BY <3>1, <3>2, <3>3
  <2> QED BY <2>1, <2>2 DEF Layers
<1> QED BY <1>1, StackInvHolds, PTL

-----------------------------------------------------------------------------
(* The stack beside a gateway.                                             *)

(* The lease of a console's source is the one it was pushed with, and it   *)
(* was pushed before the bindings last changed or keeps to one held now.   *)
Excused(s) ==
  \/ s.pushedAt <= changedAt
  \/ \E b \in bindings : b.id = s.id /\ s.kind.priority <= b.ceiling

Bounded ==
  /\ Leased
  /\ changedAt \in Nat /\ changedAt <= now
  /\ bindings \subseteq Binding
  /\ \A b \in bindings : Gate!BindingFault(b) = "none"
  /\ \A s \in active : s.id \in ConsoleId =>
       /\ s.pushedAt <= now
       /\ s.expires = s.pushedAt + DefaultLease
       /\ s.kind.priority <= MaxGatewayPriority
       /\ Excused(s)

LEMMA GrantIsBelowCeiling ==
  ASSUME NEW b \in Binding, NEW i \in Frames, Gate!BindingFault(b) = "none"
  PROVE  /\ Gate!GrantedPriority(b, i) <= b.ceiling
         /\ Gate!GrantedPriority(b, i) \in 0..MaxGatewayPriority
<1>1. b.ceiling \in Nat /\ MaxGatewayPriority \in Nat
  BY GatewayStackAssumption
<1>2. ~(b.ceiling > MaxGatewayPriority)
  BY DEF Gate!BindingFault
<1>3. Gate!AskedPriority(i) \in Nat
  BY GatewayStackAssumption, StackAssumption DEF Gate!AskedPriority, Gate!Ingress
<1> QED BY <1>1, <1>2, <1>3 DEF Gate!GrantedPriority, Gate!Lesser

LEMMA ConsolePushes ==
  ASSUME NEW b \in Binding, NEW i \in Frames, Gate!BindingFault(b) = "none",
         now \in Nat, now + DefaultLease <= TimeMax
  PROVE  /\ SourceOf(b, i) \in Source
         /\ SourceOf(b, i).id = b.id
         /\ SourceOf(b, i).pushedAt = now
         /\ SourceOf(b, i).expires = now + DefaultLease
         /\ SourceOf(b, i).kind.priority <= b.ceiling
         /\ SourceOf(b, i).kind.priority <= MaxGatewayPriority
<1>1. Gate!GrantedPriority(b, i) \in 0..MaxGatewayPriority
  BY GrantIsBelowCeiling
<1>2. /\ SourceOf(b, i).id = b.id
      /\ SourceOf(b, i).pushedAt = now
      /\ SourceOf(b, i).expires = now + DefaultLease
      /\ SourceOf(b, i).kind = ConsoleKind(Gate!GrantedPriority(b, i))
  BY DEF SourceOf, Gate!AdmitIngress
<1>3. ConsoleKind(Gate!GrantedPriority(b, i)) \in Kind
  BY <1>1, GatewayStackAssumption
<1>4. /\ ConsoleKind(Gate!GrantedPriority(b, i)).priority <= b.ceiling
      /\ ConsoleKind(Gate!GrantedPriority(b, i)).priority <= MaxGatewayPriority
  BY <1>1, GrantIsBelowCeiling, GatewayStackAssumption DEF ConsoleKind
<1>5. b.id \in Id
  BY GatewayStackAssumption
<1>6. now \in 0..TimeMax /\ now + DefaultLease \in 0..TimeMax
  BY StackAssumption, GatewayStackAssumption
<1>7. SourceOf(b, i) \in Source
  BY <1>3, <1>5, <1>6 DEF SourceOf, Gate!AdmitIngress, Source
<1> QED BY <1>2, <1>4, <1>7

LEMMA FrameIsLetIn ==
  ASSUME NEW b \in Binding, NEW i \in Frames, Gate!Refused(b, i) = "none"
  PROVE  Gate!BindingFault(b) = "none"
BY DEF Gate!Refused

(* What the gateway and the apps do is what the stack allows.              *)
LEMMA StepIsStackStep ==
  ASSUME Bounded, GatewayNext
  PROVE  [StackNext]_vars
<1>1. CASE Bind
  BY <1>1 DEF Bind
<1>2. CASE Unbind
  BY <1>2 DEF Unbind
<1>3. CASE ConsoleFrame
  <2>1. PICK b \in Binding, i \in Frames :
          /\ Call /\ now + DefaultLease <= TimeMax
          /\ Held(b) /\ Gate!Refused(b, i) = "none" /\ Push(Room, now, SourceOf(b, i))
    BY <1>3 DEF ConsoleFrame
  <2>2. now \in Nat
    BY DEF Bounded, Leased
  <2>3. SourceOf(b, i) \in Source /\ SourceOf(b, i).pushedAt = now
    BY <2>1, <2>2, FrameIsLetIn, ConsolePushes
  <2> QED BY <2>1, <2>3 DEF StackNext
<1>4. CASE AppPush
  BY <1>4 DEF AppPush, StackNext
<1>5. CASE AppPop
  BY <1>5 DEF AppPop, StackNext
<1>6. CASE AppRenew
  BY <1>6 DEF AppRenew, StackNext
<1>7. CASE (Frame \/ Tick) /\ UNCHANGED gatewayVars
  BY <1>7 DEF StackNext
<1> QED BY <1>1, <1>2, <1>3, <1>4, <1>5, <1>6, <1>7 DEF GatewayNext

(* Whatever a step does to the stack, a console's source that stays is as  *)
(* it was, if its step is not one of the console's own.                    *)
LEMMA OthersLeaveConsoles ==
  ASSUME Bounded,
         \/ AppPush
         \/ AppPop
         \/ AppRenew
         \/ Frame /\ UNCHANGED gatewayVars
         \/ Tick /\ UNCHANGED gatewayVars
  PROVE  /\ \A s \in active' : s.id \in ConsoleId => s \in active
         /\ UNCHANGED gatewayVars
         /\ now' \in {now, now + 1}
<1>1. CASE AppPush
  BY <1>1 DEF AppPush, Push, Of, Call
<1>2. CASE AppPop
  BY <1>2 DEF AppPop, Pop, Of, Call
<1>3. CASE AppRenew
  <2>1. PICK id \in Id \ ConsoleId, t \in 0..TimeMax : Renew(id, t)
    BY <1>3 DEF AppRenew
  <2>2. ASSUME NEW s \in active', s.id \in ConsoleId
        PROVE  s \in active
    <3>1. PICK o \in active :
            s = IF o.id = id THEN [o EXCEPT !.expires = t] ELSE o
      BY <2>1, <2>2 DEF Renew
    <3>2. o \in Source
      BY DEF Bounded, Leased
    <3>3. [o EXCEPT !.expires = t].id = o.id
      BY <3>2 DEF Source
    <3> QED BY <2>1, <2>2, <3>1, <3>3
  <2> QED BY <1>3, <2>2 DEF AppRenew, Call
<1>4. CASE Frame /\ UNCHANGED gatewayVars
  BY <1>4 DEF Frame, Advance
<1>5. CASE Tick /\ UNCHANGED gatewayVars
  BY <1>5 DEF Tick, stackVars
<1> QED BY <1>1, <1>2, <1>3, <1>4, <1>5

LEMMA BoundedInductive ==
  Bounded /\ [GatewayNext]_<<vars, gatewayVars>> => Bounded'
<1> SUFFICES ASSUME Bounded, [GatewayNext]_<<vars, gatewayVars>>
             PROVE  Bounded'
  OBVIOUS
<1> USE DEF gatewayVars
<1>1. CASE UNCHANGED <<vars, gatewayVars>>
  BY <1>1 DEF vars, stackVars, Bounded, Leased, Ambient, Excused
<1>2. CASE GatewayNext
  <2>1. Leased'
    BY <1>2, StepIsStackStep, LeasedInductive DEF Bounded
  <2>2. CASE Bind
    <3>1. PICK b \in Binding : /\ Gate!BindingFault(b) = "none"
                              /\ bindings' = Gate!GatewayBind(bindings, b)
      BY <2>2 DEF Bind
    <3>2. /\ bindings' \subseteq Binding
          /\ \A o \in bindings' : Gate!BindingFault(o) = "none"
      BY <3>1 DEF Bounded, Gate!GatewayBind
    <3>3. changedAt' = now /\ UNCHANGED <<now, active>>
      BY <2>2 DEF Bind, vars, stackVars
    <3> QED BY <2>1, <3>2, <3>3 DEF Bounded, Leased, Excused
  <2>3. CASE Unbind
    <3>1. bindings' \subseteq bindings
      BY <2>3 DEF Unbind, Gate!GatewayUnbind
    <3>2. changedAt' = now /\ UNCHANGED <<now, active>>
      BY <2>3 DEF Unbind, vars, stackVars
    <3> QED BY <2>1, <3>1, <3>2 DEF Bounded, Leased, Excused
  <2>4. CASE ConsoleFrame
    <3>1. PICK b \in Binding, i \in Frames :
            /\ Call /\ now + DefaultLease <= TimeMax
            /\ Held(b) /\ Gate!Refused(b, i) = "none" /\ Push(Room, now, SourceOf(b, i))
      BY <2>4 DEF ConsoleFrame
    <3>2. now \in Nat
      BY DEF Bounded, Leased
    <3>3. /\ SourceOf(b, i).id = b.id
          /\ SourceOf(b, i).pushedAt = now
          /\ SourceOf(b, i).expires = now + DefaultLease
          /\ SourceOf(b, i).kind.priority <= b.ceiling
          /\ SourceOf(b, i).kind.priority <= MaxGatewayPriority
      BY <3>1, <3>2, FrameIsLetIn, ConsolePushes
    <3>4. active' \subseteq active \cup {SourceOf(b, i)}
      BY <3>1 DEF Push, Of
    <3>5. b \in bindings
      BY <3>1 DEF Held
    <3>6. UNCHANGED <<now, bindings, changedAt>>
      BY <2>4 DEF ConsoleFrame, Call
    <3>7. \A s \in active' : s.id \in ConsoleId =>
            /\ s.pushedAt <= now /\ s.expires = s.pushedAt + DefaultLease
            /\ s.kind.priority <= MaxGatewayPriority /\ Excused(s)
      <4>1. SourceOf(b, i).pushedAt <= now
        BY <3>2, <3>3
      <4>2. Excused(SourceOf(b, i))
        BY <3>3, <3>5 DEF Excused
      <4> QED BY <3>3, <3>4, <4>1, <4>2 DEF Bounded
    <3> QED BY <2>1, <3>6, <3>7 DEF Bounded, Excused
  <2>5. CASE ~(Bind \/ Unbind \/ ConsoleFrame)
    <3>1. /\ \A s \in active' : s.id \in ConsoleId => s \in active
          /\ UNCHANGED <<bindings, changedAt>>
          /\ now' \in {now, now + 1}
      BY <1>2, <2>5, OthersLeaveConsoles DEF GatewayNext
    <3>2. now \in Nat /\ changedAt <= now'
      BY <3>1 DEF Bounded, Leased
    <3>3. \A s \in active' : s.id \in ConsoleId => s.pushedAt <= now'
      <4> SUFFICES ASSUME NEW s \in active, s.id \in ConsoleId
                   PROVE  s.pushedAt <= now'
        BY <3>1
      <4>1. s.pushedAt \in Int
        BY StackAssumption DEF Bounded, Leased, Source
      <4> QED BY <3>1, <3>2, <4>1 DEF Bounded
    <3> QED BY <2>1, <3>1, <3>2, <3>3 DEF Bounded, Excused
  <2> QED BY <2>2, <2>3, <2>4, <2>5
<1> QED BY <1>1, <1>2

LEMMA BoundedInitially == GatewayInit => Bounded
BY DEF GatewayInit, StackInit, EmptyStack, Bounded, Leased

(* A gateway and its consoles use the stack as apps do: whatever SourceStack *)
(* promises, it promises beside a gateway.                                 *)
THEOREM GatewayIsStack == GatewaySpec => StackSpec
<1>1. GatewayInit => StackInit
  BY DEF GatewayInit
<1>2. Bounded /\ [GatewayNext]_<<vars, gatewayVars>> => [StackNext]_vars
  BY StepIsStackStep
<1> QED BY <1>1, <1>2, BoundedInitially, BoundedInductive, PTL DEF GatewaySpec, StackSpec

(* A ceiling that is lowered, or a binding that is taken away, holds a     *)
(* lease later whatever was pushed before, for any lease and ceilings.     *)
THEOREM CeilingsTakeHold == GatewaySpec => []CeilingTakesHold
<1>1. Bounded => CeilingTakesHold
  <2> SUFFICES ASSUME Bounded, framed, now >= changedAt + DefaultLease,
                      NEW s \in active, s.id \in ConsoleId
               PROVE  \E b \in bindings : b.id = s.id /\ s.kind.priority <= b.ceiling
    BY DEF CeilingTakesHold
  <2>1. s.pushedAt \in 0..TimeMax /\ s.expires = s.pushedAt + DefaultLease
    BY DEF Bounded, Leased, Source
  <2>2. s.expires # Never
    BY <2>1, StackAssumption, GatewayStackAssumption
  <2>3. now < s.pushedAt + DefaultLease
    BY <2>1, <2>2 DEF Bounded, Leased
  <2>4. ~(s.pushedAt <= changedAt)
    BY <2>1, <2>3, GatewayStackAssumption DEF Bounded, Leased
  <2> QED BY <2>4 DEF Bounded, Excused
<1> QED BY <1>1, BoundedInitially, BoundedInductive, PTL DEF GatewaySpec

(* Whatever consoles send, an alert renders exactly if there is room for   *)
(* it beside the alerts above it: only alerts outrank an alert.            *)
THEOREM AlertsAreSeen == GatewaySpec => []ConsolesHideNoAlert
<1>1. StackInv /\ Bounded => ConsolesHideNoAlert
  <2> SUFFICES ASSUME StackInv, Bounded, NEW s \in active, Alert(s)
               PROVE  s.id \in admitted <=>
                        Fits({o \in active : /\ Alert(o) /\ o.id \in admitted
                                             /\ Outranks(o, s)}, s)
    BY DEF ConsolesHideNoAlert
  <2>1. ASSUME NEW o \in active, Outranks(o, s)
        PROVE  Alert(o)
    <3>1. o.kind.priority \in Nat /\ s.kind.priority \in Nat /\ MaxGatewayPriority \in Nat
      BY SourceHasOrder, GatewayStackAssumption DEF StackInv, Stackable
    <3>2. o.kind.priority >= s.kind.priority
      BY <2>1, <3>1 DEF Outranks
    <3>3. o.kind.priority > MaxGatewayPriority
      BY <3>1, <3>2 DEF Alert
    <3> QED BY <3>1, <3>3 DEF Alert, Bounded
  <2>2. {o \in active : Alert(o) /\ o.id \in admitted /\ Outranks(o, s)}
          = Above(Admitted(active, admitted), s)
    BY <2>1 DEF Above, Admitted
  <2> QED BY <2>2 DEF StackInv, WellAdmitted
<1> QED BY <1>1, GatewayIsStack, StackInvHolds, BoundedInitially, BoundedInductive,
           PTL DEF GatewaySpec

-----------------------------------------------------------------------------
(* The zones of a device.                                                  *)

LEMMA ResolveType ==
  ASSUME NEW s, NEW at, NEW q
  PROVE  Resolve(s, at, q) \subseteq Led
BY DEF Resolve

LEMMA CoveredType == Covered \in [ZoneId -> SUBSET Led]
BY ResolveType DEF Covered

(* The later deadline wins: what is pending is never due before it was,    *)
(* nor before the new cause has waited.                                    *)
LEMMA TouchWaits ==
  ASSUME due \in 0 .. Settle, NEW wait \in 0 .. Settle, Touch(wait)
  PROVE  /\ pending' = TRUE
         /\ due' \in 0 .. Settle
         /\ due' >= wait
         /\ pending => due' >= due
BY ZonesAssumption DEF Touch

(* A deadline that moves out does not come nearer in sum.                  *)
LEMMA SumGrows ==
  ASSUME NEW d \in Nat, NEW e \in Nat, NEW t \in Nat, NEW n \in Nat,
         e >= d, d + t >= n
  PROVE  e + t >= n
OBVIOUS

LEMMA TypeInit == ZonesInit => ZonesTypeOK
<1> SUFFICES ASSUME ZonesInit
             PROVE  ZonesTypeOK
  OBVIOUS
<1>1. members \in [ZoneId -> SUBSET Led]
  BY CoveredType DEF ZonesInit
<1>2. due \in 0 .. Settle /\ still \in 0 .. Settle /\ ~ (still < Settle)
  BY ZonesAssumption DEF ZonesInit
<1> QED BY <1>1, <1>2 DEF ZonesInit, ZonesTypeOK

LEMMA TypeNext == ZonesTypeOK /\ [ZonesNext]_zoneVars => ZonesTypeOK'
<1> SUFFICES ASSUME ZonesTypeOK, [ZonesNext]_zoneVars
             PROVE  ZonesTypeOK'
  OBVIOUS
<1>0. /\ Settle \in Nat \ {0}
      /\ 0 \in 0 .. Settle
      /\ Settle \in 0 .. Settle
  BY ZonesAssumption
<1>1. ASSUME NEW s \in Site, NEW q \in MapQuality, Touch(Settle), still' = 0,
             site' = s, quality' = q, UNCHANGED <<zone, members>>
      PROVE  ZonesTypeOK'
  <2>1. pending' = TRUE /\ due' \in 0 .. Settle /\ due' >= Settle
    BY <1>0, <1>1, TouchWaits DEF ZonesTypeOK
  <2>2. still' = 0 /\ due' \in 0 .. Settle /\ due' >= Settle
    BY <1>1, <2>1
  <2>3. still' \in 0 .. Settle /\ due' + still' >= Settle
    <3>1. Settle \in Nat /\ 0 \in Nat /\ Settle + 0 >= Settle
      BY <1>0
    <3>2. due' \in Nat
      BY <1>0, <2>2
    <3>3. due' + 0 >= Settle
      BY <2>2, <3>1, <3>2, SumGrows, Zenon
    <3> QED BY <1>0, <2>2, <3>3, Zenon
  <2> QED BY <1>1, <2>1, <2>3 DEF ZonesTypeOK
<1>2. ASSUME NEW z \in ZoneId, NEW s \in Selector, ZoneChanged(z, s)
      PROVE  ZonesTypeOK'
  <2>1. pending' = TRUE /\ due' \in 0 .. Settle /\ (pending => due' >= due)
    BY <1>0, <1>2, TouchWaits DEF ZonesTypeOK, ZoneChanged
  <2>2. still < Settle => due' + still >= Settle
    <3> SUFFICES ASSUME still < Settle
                 PROVE  due' + still >= Settle
      OBVIOUS
    <3>1. due' >= due /\ due + still >= Settle
      BY <2>1, Zenon DEF ZonesTypeOK
    <3>2. due \in Nat /\ due' \in Nat /\ still \in Nat /\ Settle \in Nat
      BY <1>0, <2>1 DEF ZonesTypeOK
    <3> QED BY <3>1, <3>2, SumGrows, Zenon
  <2>3. zone' \in [ZoneId -> Selector]
    BY <1>2 DEF ZonesTypeOK, ZoneChanged
  <2> QED BY <1>2, <2>1, <2>2, <2>3 DEF ZonesTypeOK, ZoneChanged
<1>3. CASE Settled
  <2>1. ~ (still < Settle)
    BY <1>0, <1>3 DEF Settled, IsDue, ZonesTypeOK
  <2>2. members' \in [ZoneId -> SUBSET Led]
    BY <1>3, CoveredType DEF Settled
  <2> QED BY <1>0, <1>3, <2>1, <2>2 DEF Settled, placeVars, ZonesTypeOK
<1>4. CASE Elapse
  <2>1. /\ due' \in 0 .. Settle
        /\ still' \in 0 .. Settle
        /\ still' < Settle => due' + still' >= Settle
    BY <1>0, <1>4 DEF Elapse, ZonesTypeOK
  <2>2. still' < Settle => pending'
    BY <1>0, <1>4 DEF Elapse, ZonesTypeOK
  <2> QED BY <1>4, <2>1, <2>2 DEF Elapse, placeVars, ZonesTypeOK
<1>5. CASE UNCHANGED zoneVars
  BY <1>5 DEF zoneVars, placeVars, settlingVars, ZonesTypeOK
<1>6. ASSUME NEW s \in Site, RootMoved(s)
      PROVE  ZonesTypeOK'
  <2>1. quality \in MapQuality
    BY DEF ZonesTypeOK
  <2> QED BY <1>1, <1>6, <2>1 DEF RootMoved
<1>7. ASSUME NEW q \in MapQuality, NEW s \in Site, MappingChanged(q, s)
      PROVE  ZonesTypeOK'
  BY <1>1, <1>7 DEF MappingChanged
<1> QED BY <1>2, <1>3, <1>4, <1>5, <1>6, <1>7 DEF ZonesNext

(* Types, and with them: what is pending waits until the device has lain   *)
(* still.                                                                  *)
THEOREM ZonesTypeCorrect == ZonesSpec => []ZonesTypeOK
<1> QED BY TypeInit, TypeNext, PTL DEF ZonesSpec

(* Membership is worked out again only once the device has lain still,     *)
(* whatever is edited meanwhile.                                           *)
THEOREM MembershipHolds == ZonesSpec => NoFlicker
<1>1. ZonesTypeOK /\ [ZonesNext]_zoneVars
        => [members' # members => still = Settle]_zoneVars
  <2> SUFFICES ASSUME ZonesTypeOK, ZonesNext, members' # members
               PROVE  still = Settle
    OBVIOUS
  <2>1. Settled
    BY DEF ZonesNext, RootMoved, MappingChanged, ZoneChanged, Elapse
  <2> QED BY <2>1, ZonesAssumption DEF Settled, IsDue, ZonesTypeOK
<1> QED BY <1>1, ZonesTypeCorrect, PTL DEF ZonesSpec, NoFlicker

(* No change is forgotten: a device with nothing pending covers what its   *)
(* zones say.                                                              *)
THEOREM MembershipFollows == ZonesSpec => []NothingForgotten
<1>1. ZonesInit => NothingForgotten
  BY DEF ZonesInit, NothingForgotten
<1>2. NothingForgotten /\ [ZonesNext]_zoneVars => NothingForgotten'
  <2> SUFFICES ASSUME NothingForgotten, [ZonesNext]_zoneVars, ~ pending'
               PROVE  members' = Covered'
    BY DEF NothingForgotten
  <2>1. CASE Settled
    BY <2>1 DEF Settled, Covered, placeVars
  <2>2. CASE Elapse \/ UNCHANGED zoneVars
    <3>1. ~ pending /\ UNCHANGED <<site, quality, zone, members>>
      BY <2>2 DEF Elapse, zoneVars, placeVars, settlingVars
    <3> QED BY <3>1 DEF NothingForgotten, Covered
  <2> QED BY <2>1, <2>2
          DEF ZonesNext, RootMoved, MappingChanged, ZoneChanged, Touch
<1> QED BY <1>1, <1>2, PTL DEF ZonesSpec

(* What the app is told of a dark zone is right.                           *)
THEOREM DarknessIsExplained == ZonesSpec => DarkIsExplained
<1> DEFINE Explained ==
      ~ pending /\ MappingChanged("mapped", site) =>
        \A z \in ZoneId : quality = "synthetic" /\ members[z] = {} =>
          (ExcludedForMapping(z) <=> Covered[z]' # {})
<1>1. NothingForgotten => Explained
  <2> SUFFICES ASSUME NothingForgotten, ~ pending, MappingChanged("mapped", site),
                      NEW z \in ZoneId, quality = "synthetic", members[z] = {}
               PROVE  ExcludedForMapping(z) <=> Covered[z]' # {}
    OBVIOUS
  <2>1. Covered[z] = {}
    BY DEF NothingForgotten
  <2>2. Covered[z]' = Resolve(zone[z], site, "mapped")
    BY DEF MappingChanged, Covered, Resolve
  <2> QED BY <2>1, <2>2 DEF ExcludedForMapping
<1>2. NothingForgotten /\ [ZonesNext]_zoneVars => [Explained]_zoneVars
  BY <1>1
<1> QED BY <1>2, MembershipFollows, PTL DEF ZonesSpec, DarkIsExplained
=============================================================================
