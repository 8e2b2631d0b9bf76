---------------------------- MODULE FoldTheorems ----------------------------
(***************************************************************************)
(* Facts about finite sets and lists that the proofs about stacks of       *)
(* sources, flash, datagrams and recordings share: what a fold over a set  *)
(* or a sequence is, where a total order puts each element, and what lists *)
(* are made of.                                                            *)
(***************************************************************************)
EXTENDS Integers, FiniteSets, Sequences, FiniteSetsExt, Functions, Folds,
        FiniteSetTheorems, WellFoundedInduction, TLAPS

-----------------------------------------------------------------------------
(* Folds: functions defined by taking the elements of a finite set one by  *)
(* one.  An induction is a search for a smallest counterexample.           *)

Less == {ss \in Nat \X Nat : ss[1] < ss[2]}

LEMMA LessIsWellFounded == IsWellFoundedOn(Less, Nat)
BY NatLessThanWellFounded, Zenon DEF OpToRel, Less

(* Every set of natural numbers that is not empty has a least element.     *)
LEMMA LeastNumber ==
  ASSUME NEW N, N \subseteq Nat, N # {}
  PROVE  \E n \in N : \A m \in N : n <= m
<1>1. PICK n \in N : \A m \in N : ~ (<<m, n>> \in Less)
  BY WFMin, LessIsWellFounded
<1>2. ASSUME NEW m \in N PROVE n <= m
  <2>1. n \in Nat /\ m \in Nat
    BY <1>1
  <2>2. ~ (m < n)
    BY <1>1, <2>1 DEF Less
  <2> QED BY <2>1, <2>2
<1> QED BY <1>1, <1>2

(* Induction: a set with 0, and with the number after each of its own.     *)
LEMMA EveryNumber ==
  ASSUME NEW P, 0 \in P, \A k \in Nat : k \in P => k + 1 \in P
  PROVE  \A k \in Nat : k \in P
<1> DEFINE None == {k \in Nat : k \notin P}
<1> SUFFICES ASSUME None # {} PROVE FALSE
  OBVIOUS
<1>1. PICK k \in None : \A j \in None : k <= j
  <2>1. None \subseteq Nat
    OBVIOUS
  <2> HIDE DEF None
  <2> QED BY <2>1, LeastNumber
<1>2. k \in Nat /\ k # 0 /\ k \notin P
  OBVIOUS
<1>3. k - 1 \in Nat /\ (k - 1) + 1 = k
  BY <1>2
<1>4. k - 1 \notin None
  <2> HIDE DEF None
  <2> QED BY <1>1, <1>2, <1>3
<1>5. k - 1 \in P
  BY <1>3, <1>4
<1> QED BY <1>2, <1>3, <1>5

(* The same up to a number. *)
LEMMA EveryNumberUpTo ==
  ASSUME NEW n \in Nat, NEW P, 0 \in P, \A k \in 0..n : k \in P /\ k + 1 <= n => k + 1 \in P
  PROVE  \A k \in 0..n : k \in P
<1> DEFINE Q == {k \in Nat : k <= n => k \in P}
<1>1. 0 \in Q
  OBVIOUS
<1>2. \A k \in Nat : k \in Q => k + 1 \in Q
  OBVIOUS
<1>3. \A k \in Nat : k \in Q
  <2> HIDE DEF Q
  <2> QED BY <1>1, <1>2, EveryNumber
<1> QED BY <1>3

(* The equation of a fold over the sets of the family E: from b, by F, the *)
(* last element taken being the one that c names.                          *)
IsFold(h, E, b, c, F) ==
  h = [s \in E |-> IF s = {} THEN b ELSE F[<<h[s \ {c[s]}], c[s]>>]]

UpTo(D, k) == {s \in SUBSET D : Cardinality(s) <= k}

LEMMA FoldStep ==
  ASSUME NEW D, IsFiniteSet(D), NEW b, NEW F, NEW c,
         \A s \in SUBSET D : s # {} => c[s] \in s,
         NEW k \in Nat, k # 0, NEW h, IsFold(h, UpTo(D, k - 1), b, c, F)
  PROVE  \E g : IsFold(g, UpTo(D, k), b, c, F)
<1> DEFINE g == [s \in UpTo(D, k) |-> IF s = {} THEN b ELSE F[<<h[s \ {c[s]}], c[s]>>]]
<1>1. ASSUME NEW s \in UpTo(D, k), s # {}
      PROVE  g[s \ {c[s]}] = h[s \ {c[s]}]
  <2> DEFINE t == s \ {c[s]}
  <2>1. s \in SUBSET D /\ c[s] \in s /\ IsFiniteSet(s)
    BY <1>1, FS_Subset DEF UpTo
  <2>2. Cardinality(t) = Cardinality(s) - 1 /\ Cardinality(s) \in Nat
    BY <2>1, FS_RemoveElement, FS_CardinalityType
  <2>3. Cardinality(s) <= k
    BY DEF UpTo
  <2>4. t \in SUBSET D
    BY <2>1
  <2>5. Cardinality(t) <= k - 1 /\ Cardinality(t) <= k
    BY <2>2, <2>3
  <2>6. t \in UpTo(D, k - 1) /\ t \in UpTo(D, k)
    BY <2>4, <2>5 DEF UpTo
  <2> HIDE DEF t
  <2>7. g[t] = IF t = {} THEN b ELSE F[<<h[t \ {c[t]}], c[t]>>]
    BY <2>6
  <2>8. h[t] = IF t = {} THEN b ELSE F[<<h[t \ {c[t]}], c[t]>>]
    BY <2>6, Zenon DEF IsFold
  <2>9. g[t] = h[t]
    BY <2>7, <2>8, Zenon
  <2> QED BY <2>9 DEF t
<1>2. g = [s \in UpTo(D, k) |-> IF s = {} THEN b ELSE F[<<g[s \ {c[s]}], c[s]>>]]
  BY <1>1, Zenon
<1> QED BY <1>2, Zenon DEF IsFold

(* A fold over a finite set exists.                                        *)
LEMMA FoldExists ==
  ASSUME NEW D, IsFiniteSet(D), NEW b, NEW F, NEW c,
         \A s \in SUBSET D : s # {} => c[s] \in s
  PROVE  \E h : IsFold(h, SUBSET D, b, c, F)
<1> DEFINE None == {k \in Nat : ~ \E h : IsFold(h, UpTo(D, k), b, c, F)}
<1>1. None = {}
  <2> SUFFICES ASSUME None # {} PROVE FALSE
    OBVIOUS
  <2>1. PICK k \in None : \A m \in None : k <= m
    BY LeastNumber
  <2>2. k # 0
    <3> SUFFICES ASSUME k = 0 PROVE FALSE
      OBVIOUS
    <3> DEFINE h == [s \in UpTo(D, 0) |-> b]
    <3>1. UpTo(D, 0) = {{}}
      <4>1. ASSUME NEW s \in SUBSET D
            PROVE  Cardinality(s) <= 0 <=> s = {}
        <5>1. IsFiniteSet(s) /\ Cardinality(s) \in Nat
          BY FS_Subset, FS_CardinalityType
        <5> QED BY <5>1, FS_EmptySet
      <4> QED BY <4>1 DEF UpTo
    <3>2. IsFold(h, UpTo(D, 0), b, c, F)
      BY <3>1 DEF IsFold
    <3> QED BY <3>2
  <2>3. k - 1 \in Nat /\ k - 1 \notin None
    BY <2>1, <2>2
  <2>4. PICK h : IsFold(h, UpTo(D, k - 1), b, c, F)
    BY <2>3
  <2>5. \E g : IsFold(g, UpTo(D, k), b, c, F)
    BY <2>2, <2>4, FoldStep
  <2> QED BY <2>1, <2>5
<1>2. UpTo(D, Cardinality(D)) = SUBSET D
  BY FS_Subset DEF UpTo
<1>3. Cardinality(D) \in Nat
  BY FS_CardinalityType
<1>4. Cardinality(D) \notin None
  BY <1>1
<1>5. \E h : IsFold(h, UpTo(D, Cardinality(D)), b, c, F)
  BY <1>3, <1>4
<1> QED BY <1>2, <1>5, Zenon

(* Among subsets of a finite set, some have none of the others inside.     *)
LEMMA SmallestSubset ==
  ASSUME NEW D, IsFiniteSet(D), NEW Bad, Bad \subseteq SUBSET D, Bad # {}
  PROVE  \E s \in Bad : \A t \in Bad : t \subseteq s => t = s
<1>0. ASSUME NEW s \in Bad
      PROVE  IsFiniteSet(s) /\ Cardinality(s) \in Nat
  <2>1. s \in SUBSET D
    OBVIOUS
  <2> QED BY <2>1, FS_Subset, FS_CardinalityType
<1> DEFINE Sizes == {Cardinality(s) : s \in Bad}
<1>1. Sizes \subseteq Nat /\ Sizes # {}
  BY <1>0
<1>2. PICK n \in Sizes : \A m \in Sizes : n <= m
  <2> HIDE DEF Sizes
  <2> QED BY <1>1, LeastNumber
<1>3. PICK s \in Bad : n = Cardinality(s)
  OBVIOUS
<1>4. ASSUME NEW t \in Bad, t \subseteq s
      PROVE  t = s
  <2>1. Cardinality(s) <= Cardinality(t)
    BY <1>2, <1>3
  <2>2. Cardinality(t) <= Cardinality(s) /\ (Cardinality(s) = Cardinality(t) => s = t)
    BY <1>0, <1>4, FS_Subset
  <2>3. Cardinality(s) \in Nat /\ Cardinality(t) \in Nat
    BY <1>0
  <2> QED BY <2>1, <2>2, <2>3
<1> QED BY <1>4

(* What a fold yields is of the type its steps preserve.                   *)
LEMMA FoldType ==
  ASSUME NEW D, IsFiniteSet(D), NEW A, NEW b \in A, NEW F \in [A \X D -> A], NEW c,
         \A s \in SUBSET D : s # {} => c[s] \in s,
         NEW E \in SUBSET D, NEW h, IsFold(h, SUBSET E, b, c, F)
  PROVE  \A s \in SUBSET E : h[s] \in A
<1> DEFINE Bad == {s \in SUBSET E : h[s] \notin A}
<1> SUFFICES ASSUME Bad # {} PROVE FALSE
  OBVIOUS
<1>0. IsFiniteSet(E)
  BY FS_Subset
<1>1. PICK s \in Bad : \A t \in Bad : t \subseteq s => t = s
  <2>1. Bad \subseteq SUBSET E
    OBVIOUS
  <2> HIDE DEF Bad
  <2> QED BY <1>0, <2>1, SmallestSubset
<1>2. h[s] = IF s = {} THEN b ELSE F[<<h[s \ {c[s]}], c[s]>>]
  BY Zenon DEF IsFold
<1>3. s # {}
  BY <1>2
<1>4. c[s] \in s /\ c[s] \in D
  BY <1>3
<1>5. s \ {c[s]} \notin Bad
  BY <1>1, <1>4
<1>6. h[s \ {c[s]}] \in A
  BY <1>5
<1> QED BY <1>2, <1>3, <1>4, <1>6

LEMMA LargestNumber ==
  ASSUME NEW n \in Nat, NEW N, N \subseteq 1..n, N # {}
  PROVE  Max(N) \in N /\ \A m \in N : m <= Max(N)
<1> DEFINE Gap == {n - m : m \in N}
<1>1. Gap \subseteq Nat /\ Gap # {}
  <2>1. \A m \in 1..n : n - m \in Nat
    OBVIOUS
  <2>2. Gap \subseteq Nat
    BY <2>1
  <2>3. PICK m \in N : TRUE
    OBVIOUS
  <2>4. n - m \in Gap
    OBVIOUS
  <2> QED BY <2>2, <2>4
<1>2. PICK g \in Gap : \A m \in Gap : g <= m
  <2> HIDE DEF Gap
  <2> QED BY <1>1, LeastNumber
<1>3. PICK x \in N : g = n - x
  OBVIOUS
<1>4. \A m \in N : x >= m
  <2> SUFFICES ASSUME NEW m \in N PROVE x >= m
    OBVIOUS
  <2>1. n - x <= n - m
    BY <1>2, <1>3
  <2>2. x \in Int /\ m \in Int
    OBVIOUS
  <2> QED BY <2>1, <2>2
<1>5. Max(N) = CHOOSE y \in N : \A m \in N : y >= m
  BY DEF Max
<1>6. Max(N) \in N /\ \A m \in N : Max(N) >= m
  BY <1>4, <1>5, Zenon
<1> QED BY <1>6

(* The equation of a fold over the places 1 to n, from left to right.      *)
IsFoldLeft(h, n, b, F) ==
  \A s \in SUBSET (1..n) :
    h[s] = IF s = {} THEN b ELSE F[<<h[s \ {Max(s)}], Max(s)>>]

LEMMA FoldFromLeft ==
  ASSUME NEW n \in Nat, NEW A, NEW b \in A, NEW F \in [A \X (1..n) -> A]
  PROVE  \E h \in [SUBSET (1..n) -> A] : IsFoldLeft(h, n, b, F)
<1> DEFINE c == [s \in SUBSET (1..n) |-> Max(s)]
<1>1. \A s \in SUBSET (1..n) : s # {} => c[s] \in s
  BY LargestNumber
<1>2. IsFiniteSet(1..n)
  BY FS_Interval
<1>3. \A s \in SUBSET (1..n) : c[s] = Max(s)
  OBVIOUS
<1> HIDE DEF c
<1>4. PICK h : IsFold(h, SUBSET (1..n), b, c, F)
  BY <1>1, <1>2, FoldExists
<1>5. \A s \in SUBSET (1..n) : h[s] \in A
  BY <1>1, <1>2, <1>4, FoldType
<1>6. \A s \in SUBSET (1..n) : h[s] = IF s = {} THEN b ELSE F[<<h[s \ {c[s]}], c[s]>>]
  BY <1>4, Zenon DEF IsFold
<1>7. h = [s \in SUBSET (1..n) |-> h[s]]
  BY <1>4, Zenon DEF IsFold
<1>8. h \in [SUBSET (1..n) -> A]
  BY <1>5, <1>7
<1>9. IsFoldLeft(h, n, b, F)
  BY <1>3, <1>6, Zenon DEF IsFoldLeft
<1> QED BY <1>8, <1>9

-----------------------------------------------------------------------------
(* Sums of the values of a function.                                       *)

Drawn(D) == [s \in SUBSET D |-> CHOOSE x \in s : TRUE]
Adding(D, w) == [a \in Nat \X D |-> w[a[2]] + a[1]]

LEMMA SumIsFold ==
  ASSUME NEW D, IsFiniteSet(D), NEW w \in [D -> Nat]
  PROVE  \E h : /\ IsFold(h, SUBSET D, 0, Drawn(D), Adding(D, w))
                /\ \A S \in SUBSET D : h[S] \in Nat /\ SumFunctionOnSet(w, S) = h[S]
<1>1. \A s \in SUBSET D : s # {} => Drawn(D)[s] \in s
  BY DEF Drawn
<1>2. Adding(D, w) \in [Nat \X D -> Nat]
  BY DEF Adding
<1>3. PICK h : IsFold(h, SUBSET D, 0, Drawn(D), Adding(D, w))
  BY <1>1, FoldExists
<1>4. \A s \in SUBSET D : h[s] \in Nat
  BY <1>1, <1>2, <1>3, FoldType
<1>5. ASSUME NEW S \in SUBSET D
      PROVE  SumFunctionOnSet(w, S) = h[S]
  <2> DEFINE x(s) == CHOOSE x \in s : TRUE
  <2> DEFINE Eq(g) == g = [s \in SUBSET S |-> IF s = {} THEN 0
                                              ELSE w[x(s)] + g[s \ {x(s)}]]
  <2> DEFINE iter == CHOOSE g : Eq(g)
  <2>1. SumFunctionOnSet(w, S) = iter[S]
    BY Zenon DEF SumFunctionOnSet, FoldFunctionOnSet, MapThenFoldSet
  <2>2. ASSUME NEW s \in SUBSET S
        PROVE  h[s] = IF s = {} THEN 0 ELSE w[x(s)] + h[s \ {x(s)}]
    <3>1. s \in SUBSET D
      OBVIOUS
    <3>2. h[s] = IF s = {} THEN 0 ELSE Adding(D, w)[<<h[s \ {Drawn(D)[s]}], Drawn(D)[s]>>]
      BY <1>3, <3>1, Zenon DEF IsFold
    <3>3. Drawn(D)[s] = x(s)
      BY <3>1 DEF Drawn
    <3>4. CASE s # {}
      <4>1. x(s) \in s
        BY <3>4
      <4>2. h[s \ {x(s)}] \in Nat /\ x(s) \in D
        BY <1>4, <4>1
      <4> HIDE DEF x
      <4>3. Adding(D, w)[<<h[s \ {x(s)}], x(s)>>] = w[x(s)] + h[s \ {x(s)}]
        BY <4>2 DEF Adding
      <4> QED BY <3>2, <3>3, <3>4, <4>3, Zenon
    <3> QED BY <3>2, <3>4
  <2>3. \E g : Eq(g)
    <3> DEFINE g == [s \in SUBSET S |-> h[s]]
    <3>1. ASSUME NEW s \in SUBSET S
          PROVE  h[s] = IF s = {} THEN 0 ELSE w[x(s)] + g[s \ {x(s)}]
      <4>1. s \ {x(s)} \in SUBSET S
        OBVIOUS
      <4> HIDE DEF x
      <4> QED BY <2>2, <4>1
    <3> HIDE DEF x
    <3>2. Eq(g)
      BY <3>1, Zenon
    <3> QED BY <3>2, Zenon
  <2>4. Eq(iter)
    <3> HIDE DEF Eq
    <3> QED BY <2>3, Zenon
  <2> HIDE DEF iter, x
  <2> DEFINE Bad == {s \in SUBSET S : iter[s] # h[s]}
  <2>5. Bad = {}
    <3> SUFFICES ASSUME Bad # {} PROVE FALSE
      OBVIOUS
    <3>1. PICK s \in Bad : \A t \in Bad : t \subseteq s => t = s
      <4>1. Bad \subseteq SUBSET S /\ IsFiniteSet(S)
        BY FS_Subset
      <4> HIDE DEF Bad
      <4> QED BY <4>1, SmallestSubset
    <3>2. iter[s] = IF s = {} THEN 0 ELSE w[x(s)] + iter[s \ {x(s)}]
      BY <2>4, Zenon
    <3>3. h[s] = IF s = {} THEN 0 ELSE w[x(s)] + h[s \ {x(s)}]
      BY <2>2, Zenon
    <3>4. s # {}
      BY <3>2, <3>3
    <3>5. x(s) \in s
      BY <3>4 DEF x
    <3>6. s \ {x(s)} \notin Bad
      BY <3>1, <3>5
    <3>7. iter[s \ {x(s)}] = h[s \ {x(s)}]
      BY <3>6
    <3> QED BY <3>2, <3>3, <3>4, <3>7
  <2> QED BY <2>1, <2>5
<1> QED BY <1>3, <1>4, <1>5

LEMMA SumOfSome ==
  ASSUME NEW D, IsFiniteSet(D), NEW w \in [D -> Nat]
  PROVE  \A s \in SUBSET D :
           /\ SumFunctionOnSet(w, s) \in Nat
           /\ s = {} => SumFunctionOnSet(w, s) = 0
           /\ s # {} => \E x \in s :
                SumFunctionOnSet(w, s) = w[x] + SumFunctionOnSet(w, s \ {x})
<1>1. PICK h : /\ IsFold(h, SUBSET D, 0, Drawn(D), Adding(D, w))
               /\ \A S \in SUBSET D : h[S] \in Nat /\ SumFunctionOnSet(w, S) = h[S]
  BY SumIsFold
<1>2. ASSUME NEW s \in SUBSET D
      PROVE  /\ s = {} => h[s] = 0
             /\ s # {} => \E x \in s : h[s] = w[x] + h[s \ {x}]
  <2>1. h[s] = IF s = {} THEN 0 ELSE Adding(D, w)[<<h[s \ {Drawn(D)[s]}], Drawn(D)[s]>>]
    BY <1>1, Zenon DEF IsFold
  <2>2. CASE s # {}
    <3>1. Drawn(D)[s] \in s
      BY <2>2 DEF Drawn
    <3>2. h[s \ {Drawn(D)[s]}] \in Nat /\ Drawn(D)[s] \in D
      BY <1>1, <3>1
    <3>3. h[s] = w[Drawn(D)[s]] + h[s \ {Drawn(D)[s]}]
      BY <2>1, <2>2, <3>2 DEF Adding
    <3> QED BY <2>2, <3>1, <3>3
  <2> QED BY <2>1, <2>2
<1>3. ASSUME NEW s \in SUBSET D, NEW x \in s
      PROVE  SumFunctionOnSet(w, s \ {x}) = h[s \ {x}]
  BY <1>1
<1> QED BY <1>1, <1>2, <1>3

(* A sum is any of its terms and the sum of the others.                    *)
LEMMA SumAdd ==
  ASSUME NEW D, IsFiniteSet(D), NEW w \in [D -> Nat]
  PROVE  \A s \in SUBSET D : \A x \in s :
           SumFunctionOnSet(w, s) = w[x] + SumFunctionOnSet(w, s \ {x})
<1> DEFINE sum(s) == SumFunctionOnSet(w, s)
           Bad == {s \in SUBSET D : \E y \in s : sum(s) # w[y] + sum(s \ {y})}
<1>0. \A s \in SUBSET D : /\ sum(s) \in Nat
                          /\ s # {} => \E x \in s : sum(s) = w[x] + sum(s \ {x})
  BY SumOfSome
<1>1. Bad = {}
  <2> SUFFICES ASSUME Bad # {} PROVE FALSE
    OBVIOUS
  <2>1. PICK s \in Bad : \A t \in Bad : t \subseteq s => t = s
    <3>1. Bad \subseteq SUBSET D
      OBVIOUS
    <3> HIDE DEF Bad
    <3> QED BY <3>1, SmallestSubset
  <2> HIDE DEF sum
  <2>2. PICK y \in s : sum(s) # w[y] + sum(s \ {y})
    OBVIOUS
  <2>3. PICK z \in s : sum(s) = w[z] + sum(s \ {z})
    BY <1>0, <2>2
  <2>4. y # z
    BY <2>2, <2>3
  <2>5. s \ {z} \notin Bad /\ s \ {y} \notin Bad
    BY <2>1, <2>4
  <2>6. /\ sum(s \ {z}) = w[y] + sum((s \ {z}) \ {y})
        /\ sum(s \ {y}) = w[z] + sum((s \ {y}) \ {z})
    BY <2>4, <2>5
  <2>7. sum((s \ {z}) \ {y}) = sum((s \ {y}) \ {z})
    <3>1. (s \ {z}) \ {y} = (s \ {y}) \ {z}
      OBVIOUS
    <3> QED BY <3>1, Zenon
  <2>8. w[y] \in Nat /\ w[z] \in Nat
    OBVIOUS
  <2> DEFINE rest == sum((s \ {z}) \ {y})
  <2>9. rest \in Nat
    BY <1>0
  <2>10. sum(s \ {z}) = w[y] + rest /\ sum(s \ {y}) = w[z] + rest
    BY <2>6, <2>7, Zenon
  <2> HIDE DEF Bad, rest
  <2> QED BY <2>2, <2>3, <2>8, <2>9, <2>10
<1> QED BY <1>1

(* Only the terms count.                                                   *)
LEMMA SumSame ==
  ASSUME NEW S, IsFiniteSet(S), NEW D, NEW E, IsFiniteSet(D), IsFiniteSet(E),
         NEW w \in [D -> Nat], NEW v \in [E -> Nat],
         S \subseteq D, S \subseteq E, \A x \in S : w[x] = v[x]
  PROVE  SumFunctionOnSet(w, S) = SumFunctionOnSet(v, S)
<1> DEFINE sum(s) == SumFunctionOnSet(w, s)
           sumv(s) == SumFunctionOnSet(v, s)
           Bad == {s \in SUBSET S : sum(s) # sumv(s)}
<1>1. \A s \in SUBSET S : /\ s = {} => sum(s) = 0 /\ sumv(s) = 0
                          /\ \A x \in s : /\ sum(s) = w[x] + sum(s \ {x})
                                          /\ sumv(s) = v[x] + sumv(s \ {x})
  <2>1. SUBSET S \subseteq SUBSET D /\ SUBSET S \subseteq SUBSET E
    OBVIOUS
  <2> QED BY <2>1, SumOfSome, SumAdd
<1>2. Bad = {}
  <2> SUFFICES ASSUME Bad # {} PROVE FALSE
    OBVIOUS
  <2>1. PICK s \in Bad : \A t \in Bad : t \subseteq s => t = s
    <3>1. Bad \subseteq SUBSET S
      OBVIOUS
    <3> HIDE DEF Bad
    <3> QED BY <3>1, SmallestSubset
  <2> HIDE DEF sum, sumv
  <2>2. s # {}
    BY <1>1
  <2>3. PICK x \in s : TRUE
    BY <2>2
  <2>4. s \ {x} \notin Bad
    BY <2>1, <2>3
  <2>5. sum(s \ {x}) = sumv(s \ {x}) /\ w[x] = v[x]
    BY <2>4
  <2> QED BY <1>1, <2>3, <2>5
<1> QED BY <1>2

-----------------------------------------------------------------------------
(* Orders: relations R with a pair <<s, r>> where s comes before r.        *)

StrictOrder(S, R) ==
  /\ \A s \in S : <<s, s>> \notin R
  /\ \A s, r \in S : s # r => <<s, r>> \in R \/ <<r, s>> \in R
  /\ \A s, r, o \in S : <<s, r>> \in R /\ <<r, o>> \in R => <<s, o>> \in R

Before(S, R, s) == {r \in S : <<r, s>> \in R}

(* Counting what comes before it gives each element a place of its own,    *)
(* and every place an element.                                             *)
LEMMA PlacesAreTaken ==
  ASSUME NEW S, IsFiniteSet(S), NEW R, StrictOrder(S, R)
  PROVE  /\ Cardinality(S) \in Nat
         /\ \A s \in S : Cardinality(Before(S, R, s)) \in 0 .. Cardinality(S) - 1
         /\ \A s, r \in S : <<s, r>> \in R <=>
              Cardinality(Before(S, R, s)) < Cardinality(Before(S, R, r))
         /\ \A i \in 1 .. Cardinality(S) : \E s \in S : Cardinality(Before(S, R, s)) = i - 1
<1> DEFINE n == Cardinality(S)
           rank == [s \in S |-> Cardinality(Before(S, R, s))]
<1>1. n \in Nat
  BY FS_CardinalityType
<1>2. ASSUME NEW T \in SUBSET S, NEW s \in T, NEW U \in SUBSET T, s \notin U
      PROVE  /\ Cardinality(U) < Cardinality(T)
             /\ Cardinality(U) \in Nat /\ Cardinality(T) \in Nat
  <2>1. IsFiniteSet(T)
    BY FS_Subset
  <2>2. IsFiniteSet(U) /\ Cardinality(U) <= Cardinality(T) /\ U # T
    BY <1>2, <2>1, FS_Subset
  <2>3. Cardinality(U) # Cardinality(T)
    BY <2>1, <2>2, FS_Subset
  <2> QED BY <2>1, <2>2, <2>3, FS_CardinalityType
<1>3. ASSUME NEW s \in S
      PROVE  rank[s] \in 0 .. n - 1
  <2>1. Before(S, R, s) \in SUBSET S /\ s \notin Before(S, R, s)
    BY DEF StrictOrder, Before
  <2>2. Cardinality(Before(S, R, s)) < n /\ Cardinality(Before(S, R, s)) \in Nat
    BY <1>2, <2>1
  <2> QED BY <1>1, <2>2
<1>4. ASSUME NEW s \in S, NEW r \in S, <<s, r>> \in R
      PROVE  rank[s] < rank[r]
  <2>1. Before(S, R, r) \in SUBSET S /\ s \in Before(S, R, r)
    BY <1>4 DEF Before
  <2>2. Before(S, R, s) \subseteq Before(S, R, r) /\ s \notin Before(S, R, s)
    BY <1>4 DEF StrictOrder, Before
  <2> QED BY <1>2, <2>1, <2>2
<1>5. rank \in [S -> 0 .. n - 1]
  BY <1>3
<1> HIDE DEF rank
<1>6. ASSUME NEW s \in S, NEW r \in S
      PROVE  <<s, r>> \in R <=> rank[s] < rank[r]
  <2>1. rank[s] \in Int /\ rank[r] \in Int
    BY <1>1, <1>5
  <2>2. s = r \/ <<s, r>> \in R \/ <<r, s>> \in R
    BY DEF StrictOrder
  <2>3. CASE s = r
    <3>1. <<s, r>> \notin R
      BY <2>3 DEF StrictOrder
    <3> QED BY <2>1, <2>3, <3>1
  <2>4. CASE <<s, r>> \in R
    BY <1>4, <2>4
  <2>5. CASE <<r, s>> \in R
    <3>1. <<s, r>> \notin R
      BY <2>5 DEF StrictOrder
    <3> QED BY <1>4, <2>1, <2>5, <3>1
  <2> QED BY <2>2, <2>3, <2>4, <2>5
<1>7. ASSUME NEW s \in S, NEW r \in S, rank[s] = rank[r]
      PROVE  s = r
  <2>1. rank[s] \in Int /\ rank[r] \in Int
    BY <1>1, <1>5
  <2>2. <<s, r>> \notin R /\ <<r, s>> \notin R
    BY <1>6, <1>7, <2>1
  <2> QED BY <2>2 DEF StrictOrder
<1>8. rank \in Surjection(S, 0 .. n - 1)
  <2>1. rank \in Injection(S, 0 .. n - 1)
    BY <1>5, <1>7 DEF Injection, IsInjective
  <2>2. IsFiniteSet(0 .. n - 1) /\ Cardinality(0 .. n - 1) = n
    BY <1>1, FS_Interval
  <2> DEFINE P == 0 .. n - 1
  <2> HIDE DEF P
  <2>3. rank \in Injection(S, P) /\ IsFiniteSet(P) /\ Cardinality(S) = Cardinality(P)
    BY <2>1, <2>2 DEF P
  <2>4. rank \in Surjection(S, P)
    BY <2>3, FS_Injection
  <2> QED BY <2>4 DEF P
<1>9. ASSUME NEW i \in 1 .. n
      PROVE  \E s \in S : rank[s] = i - 1
  <2>1. i - 1 \in 0 .. n - 1
    BY <1>1
  <2> QED BY <1>8, <2>1 DEF Surjection
<1> QED BY <1>1, <1>3, <1>6, <1>9 DEF rank

(* A list with every element at its place has them all, in their order.    *)
LEMMA ListIsOrder ==
  ASSUME NEW S, IsFiniteSet(S), NEW R, StrictOrder(S, R), NEW q,
         \A i \in 1 .. Cardinality(S) :
           q[i] \in S /\ Cardinality(Before(S, R, q[i])) = i - 1
  PROVE  /\ \A s \in S : \E i \in 1 .. Cardinality(S) : q[i] = s
         /\ \A i, j \in 1 .. Cardinality(S) : <<q[i], q[j]>> \in R <=> i < j
<1> DEFINE n == Cardinality(S)
           place(s) == Cardinality(Before(S, R, s))
<1>1. /\ n \in Nat
      /\ \A s \in S : place(s) \in 0 .. n - 1
      /\ \A s, r \in S : <<s, r>> \in R <=> place(s) < place(r)
  BY PlacesAreTaken
<1>2. \A i \in 1 .. n : q[i] \in S /\ place(q[i]) = i - 1
  OBVIOUS
<1> HIDE DEF n, place
<1>3. \A i, j \in 1 .. n : <<q[i], q[j]>> \in R <=> i < j
  BY <1>1, <1>2
<1>4. ASSUME NEW s \in S
      PROVE  \E i \in 1 .. n : q[i] = s
  <2>1. place(s) + 1 \in 1 .. n /\ place(s) \in Int
    BY <1>1
  <2>2. q[place(s) + 1] \in S /\ place(q[place(s) + 1]) = place(s)
    <3>1. place(q[place(s) + 1]) = (place(s) + 1) - 1
      BY <1>2, <2>1
    <3> QED BY <1>2, <2>1, <3>1
  <2>3. <<s, q[place(s) + 1]>> \notin R /\ <<q[place(s) + 1], s>> \notin R
    BY <1>1, <2>1, <2>2
  <2>4. s = q[place(s) + 1]
    BY <2>2, <2>3 DEF StrictOrder
  <2> QED BY <2>1, <2>4
<1> QED BY <1>3, <1>4 DEF n

-----------------------------------------------------------------------------
(* Lists: sequences, of whatever they hold.                                *)

IsList(q) == q \in Seq(Range(q))

LEMMA ListOfItsOwn ==
  ASSUME NEW S, NEW q \in Seq(S)
  PROVE  q \in Seq(Range(q))
<1>1. DOMAIN q = 1..Len(q) /\ Len(q) \in Nat /\ q = [i \in 1..Len(q) |-> q[i]]
  OBVIOUS
<1>2. q \in [1..Len(q) -> Range(q)]
  BY <1>1 DEF Range
<1> QED BY <1>1, <1>2

(* What is listed at the places up to a number is a list. *)
LEMMA ListByPlace ==
  ASSUME NEW n \in Nat, NEW q, q = [i \in 1..n |-> q[i]]
  PROVE  IsList(q) /\ Len(q) = n /\ DOMAIN q = 1..n
<1>1. DOMAIN q = 1..n
  OBVIOUS
<1>2. q \in [1..n -> Range(q)]
  BY <1>1 DEF Range
<1>3. q \in Seq(Range(q))
  BY <1>2
<1>4. Len(q) = n
  BY <1>1, <1>3
<1> QED BY <1>1, <1>3, <1>4 DEF IsList

LEMMA ListPlaces ==
  ASSUME NEW q, IsList(q)
  PROVE  /\ Len(q) \in Nat /\ DOMAIN q = 1..Len(q)
         /\ q = [i \in 1..Len(q) |-> q[i]]
         /\ \A i \in 1..Len(q) : q[i] \in Range(q)
BY DEF IsList

LEMMA SameLists ==
  ASSUME NEW p, NEW q, IsList(p), IsList(q), Len(p) = Len(q),
         \A i \in 1..Len(p) : p[i] = q[i]
  PROVE  p = q
BY ListPlaces

LEMMA ShortLists ==
  /\ IsList(<<>>) /\ Len(<<>>) = 0
  /\ \A x : IsList(<<x>>) /\ Len(<<x>>) = 1 /\ <<x>>[1] = x
<1>1. ASSUME NEW x
      PROVE  IsList(<<x>>) /\ Len(<<x>>) = 1 /\ <<x>>[1] = x
  <2>1. <<x>> \in Seq({x})
    OBVIOUS
  <2> QED BY <2>1, ListOfItsOwn DEF IsList
<1> QED BY <1>1 DEF IsList

LEMMA JoinedIsList ==
  ASSUME NEW p, NEW q, IsList(p), IsList(q)
  PROVE  IsList(p \o q)
<1> DEFINE S == Range(p) \cup Range(q)
<1>1. p \in Seq(S) /\ q \in Seq(S)
  BY DEF IsList
<1> HIDE DEF S
<1>2. p \o q \in Seq(S)
  BY <1>1
<1> QED BY <1>2, ListOfItsOwn DEF IsList

LEMMA JoinedPlaces ==
  ASSUME NEW p, NEW q, IsList(p), IsList(q)
  PROVE  /\ Len(p \o q) = Len(p) + Len(q)
         /\ \A i \in 1..Len(p) : (p \o q)[i] = p[i]
         /\ \A i \in 1..Len(q) : (p \o q)[Len(p) + i] = q[i]
<1> DEFINE S == Range(p) \cup Range(q)
<1>1. p \in Seq(S) /\ q \in Seq(S)
  BY DEF IsList
<1> HIDE DEF S
<1>2. Len(p) \in Nat /\ Len(q) \in Nat
  BY <1>1
<1> QED BY <1>1, <1>2

LEMMA AppendedList ==
  ASSUME NEW q, IsList(q), NEW x
  PROVE  /\ IsList(Append(q, x))
         /\ Len(Append(q, x)) = Len(q) + 1
         /\ \A i \in 1..Len(q) : Append(q, x)[i] = q[i]
         /\ Append(q, x)[Len(q) + 1] = x
<1> DEFINE S == Range(q) \cup {x}
<1>1. q \in Seq(S) /\ x \in S
  BY DEF IsList
<1> HIDE DEF S
<1>2. Append(q, x) \in Seq(S)
  BY <1>1
<1>3. IsList(Append(q, x))
  BY <1>2, ListOfItsOwn DEF IsList
<1>4. /\ Len(Append(q, x)) = Len(q) + 1
      /\ \A i \in 1..Len(q) : Append(q, x)[i] = q[i]
      /\ Append(q, x)[Len(q) + 1] = x
  BY <1>1
<1> QED BY <1>3, <1>4

LEMMA PartOfList ==
  ASSUME NEW q, IsList(q), NEW a \in Nat \ {0}, NEW b \in 0..Len(q), a <= b + 1
  PROVE  /\ IsList(SubSeq(q, a, b))
         /\ Len(SubSeq(q, a, b)) = (b - a) + 1
         /\ \A i \in 1..((b - a) + 1) : SubSeq(q, a, b)[i] = q[(a + i) - 1]
<1> DEFINE n == (b - a) + 1
           s == SubSeq(q, a, b)
<1>1. Len(q) \in Nat /\ q \in Seq(Range(q))
  BY ListPlaces DEF IsList
<1>2. n \in Nat
  BY <1>1
<1>3. s = [i \in 1..n |-> q[(a + i) - 1]]
  BY <1>1
<1> HIDE DEF n, s
<1>4. s = [i \in 1..n |-> s[i]] /\ \A i \in 1..n : s[i] = q[(a + i) - 1]
  BY <1>3
<1>5. IsList(s) /\ Len(s) = n
  BY <1>2, <1>4, ListByPlace
<1> QED BY <1>4, <1>5 DEF n, s

LEMMA TailOfList ==
  ASSUME NEW q, IsList(q), q # <<>>
  PROVE  /\ Len(q) >= 1
         /\ IsList(Tail(q)) /\ Len(Tail(q)) = Len(q) - 1
         /\ \A i \in 1..(Len(q) - 1) : Tail(q)[i] = q[i + 1]
<1>1. q \in Seq(Range(q))
  BY DEF IsList
<1>2. Tail(q) \in Seq(Range(q)) /\ Len(Tail(q)) = Len(q) - 1 /\ Len(q) \in Nat
  BY <1>1
<1>3. Len(q) >= 1
  BY <1>1, <1>2
<1>4. \A i \in 1..(Len(q) - 1) : Tail(q)[i] = q[i + 1]
  BY <1>1, <1>2
<1>5. IsList(Tail(q))
  BY <1>2, ListOfItsOwn DEF IsList
<1> QED BY <1>2, <1>3, <1>4, <1>5

(* What is at the head of a joined list, and what comes after it. *)
LEMMA HeadAndRest ==
  ASSUME NEW p, NEW q, IsList(p), IsList(q)
  PROVE  /\ SubSeq(p \o q, 1, Len(p)) = p
         /\ SubSeq(p \o q, Len(p) + 1, Len(p \o q)) = q
<1>1. Len(p) \in Nat /\ Len(q) \in Nat /\ IsList(p \o q)
  BY ListPlaces, JoinedIsList
<1>2. Len(p \o q) = Len(p) + Len(q)
  BY JoinedPlaces
<1>3. /\ \A i \in 1..Len(p) : (p \o q)[i] = p[i]
      /\ \A i \in 1..Len(q) : (p \o q)[Len(p) + i] = q[i]
  BY JoinedPlaces
<1> DEFINE j == p \o q
           m == Len(p)
           n == Len(q)
<1> HIDE DEF j, m, n
<1>4. m \in Nat /\ n \in Nat /\ IsList(j) /\ Len(j) = m + n
  BY <1>1, <1>2 DEF j, m, n
<1>5. /\ IsList(SubSeq(j, 1, m)) /\ Len(SubSeq(j, 1, m)) = m
      /\ \A i \in 1..m : SubSeq(j, 1, m)[i] = j[i]
  <2>1. m \in 0..Len(j) /\ 1 \in Nat \ {0} /\ 1 <= m + 1 /\ (m - 1) + 1 = m
    BY <1>4
  <2>2. /\ IsList(SubSeq(j, 1, m)) /\ Len(SubSeq(j, 1, m)) = (m - 1) + 1
        /\ \A i \in 1..((m - 1) + 1) : SubSeq(j, 1, m)[i] = j[(1 + i) - 1]
    BY <1>4, <2>1, PartOfList
  <2>3. \A i \in 1..m : (1 + i) - 1 = i
    BY <1>4
  <2> QED BY <2>1, <2>2, <2>3
<1>6. /\ IsList(SubSeq(j, m + 1, m + n)) /\ Len(SubSeq(j, m + 1, m + n)) = n
      /\ \A i \in 1..n : SubSeq(j, m + 1, m + n)[i] = j[m + i]
  <2>1. /\ m + n \in 0..Len(j) /\ m + 1 \in Nat \ {0} /\ m + 1 <= (m + n) + 1
        /\ ((m + n) - (m + 1)) + 1 = n
    BY <1>4
  <2>2. /\ IsList(SubSeq(j, m + 1, m + n))
        /\ Len(SubSeq(j, m + 1, m + n)) = ((m + n) - (m + 1)) + 1
        /\ \A i \in 1..(((m + n) - (m + 1)) + 1) : SubSeq(j, m + 1, m + n)[i] = j[((m + 1) + i) - 1]
    BY <1>4, <2>1, PartOfList
  <2>3. \A i \in 1..n : ((m + 1) + i) - 1 = m + i
    BY <1>4
  <2> QED BY <2>1, <2>2, <2>3
<1>7. SubSeq(j, 1, m) = p
  BY <1>3, <1>5, SameLists DEF j, m
<1>8. SubSeq(j, m + 1, m + n) = q
  BY <1>3, <1>6, SameLists DEF j, m, n
<1> QED BY <1>2, <1>7, <1>8 DEF j, m, n
=============================================================================
