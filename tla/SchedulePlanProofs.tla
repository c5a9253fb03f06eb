-------------------------- MODULE SchedulePlanProofs --------------------------
(***************************************************************************)
(* Theorems about plans, for any runs, programs and options.               *)
(*                                                                         *)
(* A plan is made by folds over sequences, from a log that earlier plans   *)
(* have filled.  The lemmas go along: sets of numbers and their ranks,     *)
(* sorts, folds, the usage of a set of runs; then each part of a plan in   *)
(* the order of the code; then the log and what is in use.  The invariant  *)
(* says what the log has to be for the next plan to fit to it.             *)
(***************************************************************************)
EXTENDS SchedulePlan, FiniteSetTheorems, SequenceTheorems, NaturalsInduction,
        WellFoundedInduction, TLAPS

\* Induction over numbers, for a set of numbers.
LEMMA Induct ==
  ASSUME NEW B, 0 \in B, \A k \in Nat : k \in B => k + 1 \in B
  PROVE  \A k \in Nat : k \in B
<1> DEFINE T == Nat \ B
           R == OpToRel(<, Nat)
<1>1. SUFFICES ASSUME T # {} PROVE FALSE
  OBVIOUS
<1>2. \E x \in T : \A y \in T : ~(<<y, x>> \in R)
  <2>1. IsWellFoundedOn(R, Nat)
    BY NatLessThanWellFounded
  <2>2. T \subseteq Nat
    OBVIOUS
  <2> HIDE DEF T, R
  <2> QED BY <1>1, <2>1, <2>2, WFMin, Zenon
<1>3. PICK x \in T : \A y \in T : ~(<<y, x>> \in R)
  BY <1>2
<1>4. \A y \in Nat : y < x => <<y, x>> \in R
  BY DEF OpToRel
<1>5. x \in Nat /\ x # 0
  OBVIOUS
<1>6. x - 1 \in Nat /\ x - 1 < x
  BY <1>5
<1>7. x - 1 \in B
  BY <1>3, <1>4, <1>6
<1>8. (x - 1) + 1 \in B
  BY <1>6, <1>7
<1> QED BY <1>5, <1>8

Before(I, R, i) == {j \in I : <<j, i>> \in R}

Order(I, R) ==
    /\ \A i \in I : <<i, i>> \notin R
    /\ \A i, j \in I : i # j => <<i, j>> \in R \/ <<j, i>> \in R
    /\ \A i, j, k \in I : <<i, j>> \in R /\ <<j, k>> \in R => <<i, k>> \in R

PlaceEach(I, R) ==
    /\ Cardinality(I) \in Nat
    /\ \A i \in I : Cardinality(Before(I, R, i)) + 1 \in 1..Cardinality(I)
    /\ \A i, j \in I : Cardinality(Before(I, R, i)) = Cardinality(Before(I, R, j)) => i = j
    /\ \A k \in 1..Cardinality(I) : \E i \in I : Cardinality(Before(I, R, i)) = k - 1

\* In a finite set that is ordered every place is taken, by one member.
LEMMA Ranks ==
  ASSUME NEW I, NEW R, IsFiniteSet(I), Order(I, R)
  PROVE  PlaceEach(I, R)
<1> DEFINE n == Cardinality(I)
           rank == [i \in I |-> Cardinality(Before(I, R, i)) + 1]
<1>1. n \in Nat
  BY FS_CardinalityType
<1>2. \A i \in I : IsFiniteSet(Before(I, R, i)) /\ Cardinality(Before(I, R, i)) \in Nat
  <2>1. TAKE i \in I
  <2>2. Before(I, R, i) \in SUBSET I
    BY DEF Before
  <2> QED BY <2>2, FS_Subset, FS_CardinalityType
<1>3. \A i \in I : Cardinality(Before(I, R, i)) < n
  <2>1. TAKE i \in I
  <2>2. Before(I, R, i) \in SUBSET I /\ i \notin Before(I, R, i)
    BY DEF Before, Order
  <2>3. Cardinality(Before(I, R, i)) <= n /\ (n = Cardinality(Before(I, R, i)) => I = Before(I, R, i))
    BY <2>2, FS_Subset
  <2> QED BY <1>1, <1>2, <2>2, <2>3
<1>4. \A i, j \in I : <<i, j>> \in R => Cardinality(Before(I, R, i)) < Cardinality(Before(I, R, j))
  <2>1. SUFFICES ASSUME NEW i \in I, NEW j \in I, <<i, j>> \in R
                 PROVE  Cardinality(Before(I, R, i)) < Cardinality(Before(I, R, j))
    OBVIOUS
  <2>2. Before(I, R, i) \in SUBSET Before(I, R, j)
    BY <2>1 DEF Before, Order
  <2>3. i \in Before(I, R, j) /\ i \notin Before(I, R, i)
    BY <2>1 DEF Before, Order
  <2>4. /\ Cardinality(Before(I, R, i)) <= Cardinality(Before(I, R, j))
        /\ Cardinality(Before(I, R, j)) = Cardinality(Before(I, R, i))
             => Before(I, R, j) = Before(I, R, i)
    BY <1>2, <2>2, FS_Subset
  <2> QED BY <1>2, <2>3, <2>4
<1>5. \A i, j \in I : Cardinality(Before(I, R, i)) = Cardinality(Before(I, R, j)) => i = j
  <2>1. SUFFICES ASSUME NEW i \in I, NEW j \in I, i # j,
                        Cardinality(Before(I, R, i)) = Cardinality(Before(I, R, j))
                 PROVE  FALSE
    OBVIOUS
  <2>2. <<i, j>> \in R \/ <<j, i>> \in R
    BY <2>1 DEF Order
  <2> QED BY <1>2, <1>4, <2>1, <2>2
<1>6. rank \in Injection(I, 1..n)
  <2>1. \A i \in I : rank[i] \in 1..n
    BY <1>1, <1>2, <1>3
  <2>2. \A i, j \in I : rank[i] = rank[j] => i = j
    BY <1>2, <1>5
  <2> QED BY <2>1, <2>2 DEF Injection, IsInjective
<1>7. rank \in Surjection(I, 1..n)
  <2>1. IsFiniteSet(1..n) /\ Cardinality(1..n) = n
    BY <1>1, FS_Interval
  <2> QED BY <1>6, <2>1, FS_Injection
<1>8. \A k \in 1..n : \E i \in I : Cardinality(Before(I, R, i)) = k - 1
  <2>1. TAKE k \in 1..n
  <2>2. PICK i \in I : rank[i] = k
    BY <1>7 DEF Surjection
  <2> QED BY <1>2, <2>2
<1>9. \A i \in I : Cardinality(Before(I, R, i)) + 1 \in 1..n
  BY <1>1, <1>2, <1>3
<1> QED BY <1>1, <1>5, <1>8, <1>9 DEF PlaceEach

\* Numbers are ordered by <.
LEMMA Numbers ==
  ASSUME NEW I \in SUBSET Int
  PROVE  \E R : Order(I, R) /\ \A x, y \in I : <<x, y>> \in R <=> x < y
<1> DEFINE R == {p \in I \X I : p[1] < p[2]}
<1>1. \A x, y \in I : <<x, y>> \in R <=> x < y
  OBVIOUS
<1> HIDE DEF R
<1>2. Order(I, R)
  BY <1>1 DEF Order
<1> QED BY <1>1, <1>2

\* A finite set of numbers has a greatest and a least one.
LEMMA Extremes ==
  ASSUME NEW S \in SUBSET Int, IsFiniteSet(S), S # {}
  PROVE  /\ Max(S) \in S /\ \A y \in S : y <= Max(S)
         /\ Min(S) \in S /\ \A y \in S : Min(S) <= y
<1> DEFINE n == Cardinality(S)
<1>1. n \in Nat /\ n # 0
  BY FS_CardinalityType, FS_EmptySet
<1>2. PICK R : Order(S, R) /\ \A x, y \in S : <<x, y>> \in R <=> x < y
  BY Numbers
<1>4. \A x, y \in S : x < y => Cardinality(Before(S, R, x)) < Cardinality(Before(S, R, y))
  <2>1. SUFFICES ASSUME NEW x \in S, NEW y \in S, x < y
                 PROVE  Cardinality(Before(S, R, x)) < Cardinality(Before(S, R, y))
    OBVIOUS
  <2>2. Before(S, R, y) \in SUBSET S
    BY DEF Before
  <2>3. IsFiniteSet(Before(S, R, y)) /\ Cardinality(Before(S, R, y)) \in Nat
    BY <2>2, FS_Subset, FS_CardinalityType
  <2>4. Before(S, R, x) \in SUBSET Before(S, R, y)
    <3>1. \A j \in S : <<j, x>> \in R => <<j, y>> \in R
      BY <1>2, <2>1
    <3> QED BY <3>1, Zenon DEF Before
  <2>5. x \in Before(S, R, y) /\ x \notin Before(S, R, x)
    BY <1>2, <2>1, ~(x < x) DEF Before
  <2>6. /\ Cardinality(Before(S, R, x)) <= Cardinality(Before(S, R, y))
        /\ IsFiniteSet(Before(S, R, x))
        /\ Cardinality(Before(S, R, y)) = Cardinality(Before(S, R, x))
             => Before(S, R, y) = Before(S, R, x)
    BY <2>3, <2>4, FS_Subset
  <2>7. Cardinality(Before(S, R, x)) \in Nat
    BY <2>6, FS_CardinalityType
  <2> QED BY <2>3, <2>5, <2>6, <2>7
<1>5. /\ \A x \in S : Cardinality(Before(S, R, x)) + 1 \in 1..n
      /\ \A k \in 1..n : \E x \in S : Cardinality(Before(S, R, x)) = k - 1
  <2>1. PlaceEach(S, R)
    BY <1>2, Ranks, Zenon
  <2> QED BY <2>1 DEF PlaceEach
<1>6. \A x \in S : Cardinality(Before(S, R, x)) \in 0..(n - 1)
  <2>1. \A x \in S : Cardinality(Before(S, R, x)) \in Nat
    <3>1. \A x \in S : Before(S, R, x) \in SUBSET S
      BY DEF Before
    <3> QED BY <3>1, FS_Subset, FS_CardinalityType
  <2> QED BY <1>1, <1>5, <2>1
<1>7. \E x \in S : \A y \in S : y <= x
  <2>1. PICK x \in S : Cardinality(Before(S, R, x)) = n - 1
    BY <1>1, <1>5
  <2>2. \A y \in S : ~(x < y)
    BY <1>1, <1>4, <1>6, <2>1
  <2> QED BY <2>1, <2>2
<1>8. \E x \in S : \A y \in S : x <= y
  <2>1. PICK x \in S : Cardinality(Before(S, R, x)) = 0
    BY <1>1, <1>5
  <2>2. \A y \in S : ~(y < x)
    BY <1>1, <1>4, <1>6, <2>1
  <2> QED BY <2>1, <2>2
<1> QED BY <1>7, <1>8 DEF Max, Min

LEMMA Images ==
  ASSUME NEW I, IsFiniteSet(I), NEW f
  PROVE  IsFiniteSet({f[i] : i \in I})
<1> DEFINE g == [i \in I |-> f[i]]
           T == {f[i] : i \in I}
<1>1. g \in Surjection(I, T)
  BY DEF Surjection
<1> QED BY <1>1, FS_Surjection

\* at goes through I: every member has one place.
Enumerates(at, I) ==
    /\ at \in [1..Cardinality(I) -> I]
    /\ \A k, m \in 1..Cardinality(I) : at[k] = at[m] => k = m
    /\ \A i \in I : \E k \in 1..Cardinality(I) : at[k] = i

\* Ranked goes through all of a set.
LEMMA RankedAll ==
  ASSUME NEW I \in SUBSET Int, IsFiniteSet(I), NEW key \in [I -> Int]
  PROVE  Enumerates(Ranked(I, key), I) /\ Cardinality(I) \in Nat
<1> DEFINE n == Cardinality(I)
           less(j, i) == key[j] < key[i] \/ (key[j] = key[i] /\ j < i)
           Rank(i) == Cardinality({j \in I : less(j, i)})
           r == [k \in 1..n |-> CHOOSE i \in I : Rank(i) = k - 1]
<1>1. \E R : Order(I, R) /\ \A i \in I : Before(I, R, i) = {j \in I : less(j, i)}
  <2> DEFINE R == {p \in I \X I : less(p[1], p[2])}
  <2>1. \A i, j \in I : <<i, j>> \in R <=> less(i, j)
    OBVIOUS
  <2> HIDE DEF R
  <2>2. Order(I, R)
    BY <2>1 DEF Order
  <2>3. \A i \in I : Before(I, R, i) = {j \in I : less(j, i)}
    <3> HIDE DEF less
    <3> QED BY <2>1 DEF Before
  <2> QED BY <2>2, <2>3
<1>2. PICK R : Order(I, R) /\ \A i \in I : Before(I, R, i) = {j \in I : less(j, i)}
  BY <1>1
<1> HIDE DEF less
<1>3. /\ n \in Nat
      /\ \A i \in I : Rank(i) + 1 \in 1..n
      /\ \A i, j \in I : Rank(i) = Rank(j) => i = j
      /\ \A k \in 1..n : \E i \in I : Rank(i) = k - 1
  <2>1. PlaceEach(I, R)
    BY <1>2, Ranks, Zenon
  <2> QED BY <1>2, <2>1 DEF PlaceEach
<1>4. \A i \in I : Rank(i) \in Nat
  <2>1. \A i \in I : {j \in I : less(j, i)} \in SUBSET I
    OBVIOUS
  <2> QED BY <2>1, FS_Subset, FS_CardinalityType
<1> HIDE DEF Rank
<1>5. \A k \in 1..n : r[k] \in I /\ Rank(r[k]) = k - 1
  BY <1>3
<1>6. r \in [1..n -> I]
  BY <1>5
<1>7. \A k, m \in 1..n : r[k] = r[m] => k = m
  BY <1>5
<1>8. \A i \in I : \E k \in 1..n : r[k] = i
  <2>1. TAKE i \in I
  <2>2. Rank(i) + 1 \in 1..n /\ Rank(r[Rank(i) + 1]) = Rank(i)
    BY <1>3, <1>4, <1>5
  <2> QED BY <1>3, <1>5, <2>2
<1>9. Ranked(I, key) = r
  <2>1. Ranked(I, key) = <<>> \o r
    BY DEF Ranked, Rank, less
  <2>2. r \in Seq(I)
    BY <1>3, <1>6
  <2> QED BY <2>1, <2>2, ConcatEmptySeq
<1> QED BY <1>3, <1>6, <1>7, <1>8, <1>9 DEF Enumerates

\* t has the elements of s at the places in I, and nothing else.
Rearranges(t, s, I) ==
    \E at : /\ Enumerates(at, I)
            /\ DOMAIN t = 1..Cardinality(I)
            /\ \A k \in DOMAIN t : t[k] = s[at[k]]

\* None of them is missing.
LEMMA Reached ==
  ASSUME NEW t, NEW s, NEW I, Rearranges(t, s, I), NEW i \in I
  PROVE  \E m \in DOMAIN t : t[m] = s[i]
<1>1. PICK at : /\ Enumerates(at, I) /\ DOMAIN t = 1..Cardinality(I)
                /\ \A k \in DOMAIN t : t[k] = s[at[k]]
  BY DEF Rearranges
<1>2. PICK k \in 1..Cardinality(I) : at[k] = i
  BY <1>1 DEF Enumerates
<1> QED BY <1>1, <1>2

\* Arranged by rank, the elements at the places in I are all there.
LEMMA Arranging ==
  ASSUME NEW X, NEW s \in Seq(X), NEW I \in SUBSET DOMAIN s, NEW key \in [I -> Int]
  PROVE  /\ Arranged(s, Ranked(I, key)) \in Seq(X)
         /\ Rearranges(Arranged(s, Ranked(I, key)), s, I)
         /\ Cardinality(I) \in Nat
<1> DEFINE at == Ranked(I, key)
           n == Cardinality(I)
<1>1. I \in SUBSET Int /\ IsFiniteSet(I)
  <2>1. DOMAIN s = 1..Len(s) /\ Len(s) \in Nat
    BY LenProperties
  <2>2. IsFiniteSet(1..Len(s))
    BY <2>1, FS_Interval
  <2> QED BY <2>1, <2>2, FS_Subset
<1>2. Enumerates(at, I) /\ n \in Nat
  BY <1>1, RankedAll
<1> HIDE DEF at
<1>3. DOMAIN at = 1..n /\ \A k \in 1..n : at[k] \in DOMAIN s
  BY <1>2 DEF Enumerates
<1>4. \A k \in 1..n : s[at[k]] \in X
  BY <1>3, ElementOfSeq, LenProperties
<1>5. Arranged(s, at) \in [1..n -> X]
  BY <1>3, <1>4 DEF Arranged
<1>6. Arranged(s, at) \in Seq(X)
  BY <1>2, <1>5, IsASeq
<1>7. Rearranges(Arranged(s, at), s, I)
  BY <1>2, <1>3, <1>5 DEF Rearranges, Arranged
<1> QED BY <1>2, <1>6, <1>7 DEF at

\* Nothing is lost or repeated when a part is taken.
LEMMA Parts ==
  ASSUME NEW X, NEW s \in Seq(X), NEW I \in SUBSET DOMAIN s
  PROVE  Part(s, I) \in Seq(X) /\ Rearranges(Part(s, I), s, I) /\ Cardinality(I) \in Nat
<1>1. [i \in I |-> i] \in [I -> Int]
  BY LenProperties
<1> QED BY <1>1, Arranging DEF Part

\* A sort changes no elements.
LEMMA Sorting ==
  ASSUME NEW X, NEW s \in Seq(X), NEW key \in [DOMAIN s -> Int]
  PROVE  /\ Arranged(s, Ranked(DOMAIN s, key)) \in Seq(X)
         /\ Rearranges(Arranged(s, Ranked(DOMAIN s, key)), s, DOMAIN s)
         /\ Len(Arranged(s, Ranked(DOMAIN s, key))) = Len(s)
<1>1. DOMAIN s = 1..Len(s) /\ Len(s) \in Nat
  BY LenProperties
<1>2. Cardinality(DOMAIN s) = Len(s)
  <2> DEFINE n == Len(s)
  <2>1. n \in Nat
    BY <1>1
  <2> HIDE DEF n
  <2>2. Cardinality(1..n) = n
    BY <2>1, FS_Interval
  <2> QED BY <1>1, <2>2 DEF n
<1> DEFINE t == Arranged(s, Ranked(DOMAIN s, key))
<1>3. t \in Seq(X) /\ Rearranges(t, s, DOMAIN s)
  BY Arranging
<1> HIDE DEF t
<1>4. Len(t) = Len(s)
  BY <1>1, <1>2, <1>3, LenProperties DEF Rearranges
<1> QED BY <1>3, <1>4 DEF t

-----------------------------------------------------------------------------
(* Folds *)

\* What a fold computes for the subsets of S.
Folding(iter, S, base, G, c) ==
    \A T \in SUBSET S : iter[T] = IF T = {} THEN base ELSE G[<<c[T], iter[T \ {c[T]}]>>]

\* Some function satisfies the recursion of a fold: by induction on the size of the subsets.
LEMMA FoldExists ==
  ASSUME NEW S, IsFiniteSet(S), NEW V, NEW base \in V, NEW G, NEW c,
         \A T \in SUBSET S : T # {} => c[T] \in T,
         \A x \in S, v \in V : G[<<x, v>>] \in V
  PROVE  \E iter \in [SUBSET S -> V] : Folding(iter, S, base, G, c)
<1> DEFINE Small(m) == {T \in SUBSET S : Cardinality(T) <= m}
           Value(f, T) == IF T = {} THEN base ELSE G[<<c[T], f[T \ {c[T]}]>>]
           Up(m) == \E f \in [Small(m) -> V] : \A T \in Small(m) : f[T] = Value(f, T)
           B == {m \in Nat : Up(m)}
<1>1. \A T \in SUBSET S : IsFiniteSet(T) /\ Cardinality(T) \in Nat
  BY FS_Subset, FS_CardinalityType
<1>2. Up(0)
  <2> DEFINE f == [T \in Small(0) |-> base]
  <2>1. \A T \in Small(0) : T = {}
    <3>1. TAKE T \in Small(0)
    <3>2. T \in SUBSET S /\ Cardinality(T) = 0
      BY <1>1
    <3> QED BY <1>1, <3>2, FS_EmptySet
  <2>2. f \in [Small(0) -> V] /\ \A T \in Small(0) : f[T] = Value(f, T)
    BY <2>1
  <2> QED BY <2>2
<1>3. \A m \in Nat : Up(m) => Up(m + 1)
  <2>1. SUFFICES ASSUME NEW m \in Nat, Up(m) PROVE Up(m + 1)
    OBVIOUS
  <2>2. PICK f \in [Small(m) -> V] : \A T \in Small(m) : f[T] = Value(f, T)
    BY <2>1
  <2> DEFINE g == [T \in Small(m + 1) |-> Value(f, T)]
  <2>3. \A T \in Small(m + 1) : T # {} => T \ {c[T]} \in Small(m) /\ c[T] \in S
    <3>1. SUFFICES ASSUME NEW T \in Small(m + 1), T # {}
                   PROVE  T \ {c[T]} \in Small(m) /\ c[T] \in S
      OBVIOUS
    <3>2. T \in SUBSET S /\ Cardinality(T) <= m + 1 /\ c[T] \in T
      BY <3>1
    <3>3. Cardinality(T \ {c[T]}) = Cardinality(T) - 1
      BY <1>1, <3>2, FS_RemoveElement
    <3> QED BY <1>1, <3>2, <3>3
  <2>4. g \in [Small(m + 1) -> V]
    <3>1. \A T \in Small(m + 1) : Value(f, T) \in V
      BY <2>3
    <3> QED BY <3>1
  <2>5. \A T \in Small(m) : T \in Small(m + 1) /\ g[T] = f[T]
    <3>1. \A T \in Small(m) : T \in Small(m + 1)
      BY <1>1
    <3> HIDE DEF Small, Value
    <3> QED BY <2>2, <3>1
  <2>6. \A T \in Small(m + 1) : g[T] = Value(g, T)
    <3>1. TAKE T \in Small(m + 1)
    <3>2. T # {} => T \ {c[T]} \in Small(m)
      BY <2>3
    <3>3. T # {} => g[T \ {c[T]}] = f[T \ {c[T]}]
      BY <2>5, <3>2
    <3>4. g[T] = Value(f, T)
      OBVIOUS
    <3> HIDE DEF g, Small
    <3> QED BY <3>3, <3>4
  <2> QED BY <2>4, <2>6
<1>4. \A m \in Nat : m \in B
  <2>1. 0 \in B /\ \A k \in Nat : k \in B => k + 1 \in B
    <3> HIDE DEF Up
    <3> QED BY <1>2, <1>3
  <2> HIDE DEF B
  <2> QED BY <2>1, Induct
<1>5. Up(Cardinality(S))
  BY <1>1, <1>4
<1>6. Small(Cardinality(S)) = SUBSET S
  BY FS_Subset
<1> QED BY <1>5, <1>6 DEF Folding

\* Usage, for any programs P.
Total(P, S) == MapThenSumSet(LAMBDA e : P[e.job].usage, S)

LEMMA UsageTotal == \A S : Usage(S) = Total(program, S)
BY DEF Usage, Total

Some(T) == CHOOSE x \in T : TRUE

LEMMA SomeMember == \A T : T # {} => Some(T) \in T
BY DEF Some

Summing(iter, P, S) ==
    \A T \in SUBSET S :
        iter[T] = IF T = {} THEN 0 ELSE P[Some(T).job].usage + iter[T \ {Some(T)}]

\* The usage of a finite set is a sum.
LEMMA TotalExists ==
  ASSUME NEW S, IsFiniteSet(S), NEW P \in [Job -> Programs], \A e \in S : e.job \in Job
  PROVE  \E iter \in [SUBSET S -> Nat] : Summing(iter, P, S) /\ Total(P, S) = iter[S]
<1> DEFINE G == [p \in S \X Nat |-> P[p[1].job].usage + p[2]]
           c == [T \in SUBSET S |-> Some(T)]
           F(iter) == [T \in SUBSET S |->
                         IF T = {} THEN 0 ELSE P[Some(T).job].usage + iter[T \ {Some(T)}]]
           it == CHOOSE iter : iter = F(iter)
<1>1. \A e \in S : P[e.job].usage \in Nat
  BY DEF Programs
<1>2. \A T \in SUBSET S : T # {} => c[T] \in T /\ c[T] = Some(T)
  BY SomeMember
<1>3. \A x \in S, v \in Nat : G[<<x, v>>] \in Nat /\ G[<<x, v>>] = P[x.job].usage + v
  BY <1>1
<1> HIDE DEF G, c
<1>4. PICK iter \in [SUBSET S -> Nat] : Folding(iter, S, 0, G, c)
  <2>1. \E iter \in [SUBSET S -> Nat] : Folding(iter, S, 0, G, c)
    BY <1>2, <1>3, FoldExists
  <2> QED BY <2>1
<1>5. Summing(iter, P, S)
  <2>1. SUFFICES ASSUME NEW T \in SUBSET S, T # {}
                 PROVE  iter[T] = P[Some(T).job].usage + iter[T \ {Some(T)}]
    BY <1>4 DEF Summing, Folding
  <2>2. iter[T] = G[<<c[T], iter[T \ {c[T]}]>>]
    BY <1>4, <2>1 DEF Folding
  <2>3. c[T] = Some(T) /\ c[T] \in S /\ iter[T \ {c[T]}] \in Nat
    BY <1>2, <1>4, <2>1
  <2> QED BY <1>3, <2>2, <2>3
<1>6. iter = F(iter)
  BY <1>4, <1>5 DEF Summing
<1>7. it = F(it)
  <2> HIDE DEF F
  <2> QED BY <1>6
<1>a. Total(P, S) = it[S]
  BY DEF Total, MapThenSumSet, MapThenFoldSet, Some
<1> HIDE DEF it
<1>8. it = iter
  <2> DEFINE B == {n \in Nat : \A T \in SUBSET S : Cardinality(T) = n => it[T] = iter[T]}
  <2>1. 0 \in B
    <3>1. \A T \in SUBSET S : Cardinality(T) = 0 => T = {}
      BY FS_Subset, FS_EmptySet
    <3> QED BY <1>6, <1>7, <3>1
  <2>2. \A k \in Nat : k \in B => k + 1 \in B
    <3>1. SUFFICES ASSUME NEW k \in Nat, k \in B, NEW T \in SUBSET S, Cardinality(T) = k + 1
                   PROVE  it[T] = iter[T]
      OBVIOUS
    <3>2. T # {}
      <4>1. Cardinality(T) # 0
        BY <3>1
      <4> QED BY <4>1, FS_EmptySet, Zenon
    <3>3. Some(T) \in T
      BY <3>2, SomeMember
    <3>4. T \ {Some(T)} \in SUBSET S /\ Cardinality(T \ {Some(T)}) = k
      <4>1. IsFiniteSet(T)
        BY FS_Subset
      <4>2. Cardinality(T \ {Some(T)}) = Cardinality(T) - 1
        BY <3>3, <4>1, FS_RemoveElement
      <4> QED BY <3>1, <4>2
    <3>5. it[T \ {Some(T)}] = iter[T \ {Some(T)}]
      BY <3>1, <3>4
    <3> QED BY <1>6, <1>7, <3>2, <3>5
  <2>3. \A n \in Nat : n \in B
    <3> HIDE DEF B
    <3> QED BY <2>1, <2>2, Induct
  <2>4. \A T \in SUBSET S : it[T] = iter[T]
    <3>1. \A T \in SUBSET S : Cardinality(T) \in Nat
      BY FS_Subset, FS_CardinalityType
    <3> QED BY <2>3, <3>1
  <2> QED BY <1>6, <1>7, <2>4
<1> QED BY <1>5, <1>8, <1>a

\* Without one member a set is smaller by one.
LEMMA OneLess ==
  ASSUME NEW T, NEW x \in T, NEW k \in Nat, IsFiniteSet(T), Cardinality(T) = k + 1
  PROVE  IsFiniteSet(T \ {x}) /\ Cardinality(T \ {x}) = k
<1>1. IsFiniteSet(T \ {x}) /\ Cardinality(T \ {x}) = Cardinality(T) - 1
  BY FS_RemoveElement
<1> QED BY <1>1

LEMMA NotEmpty ==
  ASSUME NEW T, NEW k \in Nat, Cardinality(T) = k + 1
  PROVE  T # {}
<1>1. Cardinality(T) # 0
  OBVIOUS
<1> QED BY <1>1, FS_EmptySet, Zenon

\* The sum over a set does not depend on what it is a part of.
LEMMA SumUnique ==
  ASSUME NEW S, NEW P, NEW f, NEW U, NEW g,
         IsFiniteSet(S), U \in SUBSET S, Summing(f, P, S), Summing(g, P, U)
  PROVE  f[U] = g[U]
<1> DEFINE B == {n \in Nat : \A T \in SUBSET U : Cardinality(T) = n => f[T] = g[T]}
<1>1. \A T \in SUBSET U : T \in SUBSET S /\ IsFiniteSet(T) /\ Cardinality(T) \in Nat
  BY FS_Subset, FS_CardinalityType
<1>2. 0 \in B
  <2>1. \A T \in SUBSET U : Cardinality(T) = 0 => T = {}
    BY <1>1, FS_EmptySet
  <2> QED BY <2>1 DEF Summing
<1>3. \A k \in Nat : k \in B => k + 1 \in B
  <2>1. SUFFICES ASSUME NEW k \in Nat, k \in B, NEW T \in SUBSET U, Cardinality(T) = k + 1
                 PROVE  f[T] = g[T]
    OBVIOUS
  <2>2. T # {} /\ Some(T) \in T
    BY <2>1, NotEmpty, SomeMember
  <2>3. T \ {Some(T)} \in SUBSET U /\ Cardinality(T \ {Some(T)}) = k
    BY <1>1, <2>1, <2>2, OneLess
  <2>4. f[T \ {Some(T)}] = g[T \ {Some(T)}]
    BY <2>1, <2>3
  <2> QED BY <2>2, <2>4 DEF Summing
<1>4. \A n \in Nat : n \in B
  <2> HIDE DEF B
  <2> QED BY <1>2, <1>3, Induct
<1> QED BY <1>1, <1>4

LEMMA TotalPart ==
  ASSUME NEW S, IsFiniteSet(S), NEW P \in [Job -> Programs], \A e \in S : e.job \in Job,
         NEW f, Summing(f, P, S), NEW U \in SUBSET S
  PROVE  Total(P, U) = f[U] /\ Total(P, U) \in Nat
<1>1. IsFiniteSet(U) /\ \A e \in U : e.job \in Job
  BY FS_Subset
<1>2. PICK g \in [SUBSET U -> Nat] : Summing(g, P, U) /\ Total(P, U) = g[U]
  BY <1>1, TotalExists
<1>3. f[U] = g[U]
  <2>1. Summing(g, P, U)
    BY <1>2
  <2> QED BY <2>1, SumUnique
<1> QED BY <1>2, <1>3

\* One member counts for what it uses.
LEMMA TotalStep ==
  ASSUME NEW S, IsFiniteSet(S), NEW P \in [Job -> Programs], \A e \in S : e.job \in Job,
         NEW x \in S
  PROVE  /\ Total(P, S) \in Nat /\ Total(P, S \ {x}) \in Nat /\ P[x.job].usage \in Nat
         /\ Total(P, S) = P[x.job].usage + Total(P, S \ {x})
<1>1. PICK f \in [SUBSET S -> Nat] : Summing(f, P, S) /\ Total(P, S) = f[S]
  BY TotalExists
<1> DEFINE w(e) == P[e.job].usage
           B == {n \in Nat : \A T \in SUBSET S : Cardinality(T) = n =>
                                \A e \in T : f[T] = w(e) + f[T \ {e}]}
<1>2. \A T \in SUBSET S : IsFiniteSet(T) /\ Cardinality(T) \in Nat
  BY FS_Subset, FS_CardinalityType
<1>3. \A e \in S : w(e) \in Nat
  BY DEF Programs
<1>4. \A T \in SUBSET S : T # {} => Some(T) \in T /\ f[T] = w(Some(T)) + f[T \ {Some(T)}]
  BY <1>1, SomeMember DEF Summing
<1>5. \A T \in SUBSET S : f[T] \in Nat
  OBVIOUS
<1> HIDE DEF w
<1>6. 0 \in B
  <2>1. \A T \in SUBSET S : Cardinality(T) = 0 => T = {}
    BY <1>2, FS_EmptySet
  <2> QED BY <2>1
<1> DEFINE Free(T) == \A e \in T : f[T] = w(e) + f[T \ {e}]
<1>7. \A k \in Nat : k \in B => k + 1 \in B
  <2>0. \A k : k \in B <=> k \in Nat /\ \A T \in SUBSET S : Cardinality(T) = k => Free(T)
    OBVIOUS
  <2> HIDE DEF B, Free
  <2>1. SUFFICES ASSUME NEW k \in Nat, k \in B, NEW T \in SUBSET S, Cardinality(T) = k + 1
                 PROVE  Free(T)
    BY <2>0
  <2>a. SUFFICES ASSUME NEW e \in T PROVE f[T] = w(e) + f[T \ {e}]
    BY DEF Free
  <2> DEFINE y == Some(T)
  <2>2. y \in T /\ f[T] = w(y) + f[T \ {y}]
    BY <1>4, <2>1
  <2> HIDE DEF y
  <2>3. CASE e = y
    BY <2>2, <2>3
  <2>4. CASE e # y
    <3>1. T \ {y} \in SUBSET S /\ Cardinality(T \ {y}) = k /\ e \in T \ {y}
      BY <1>2, <2>1, <2>2, <2>4, OneLess
    <3>2. f[T \ {y}] = w(e) + f[(T \ {y}) \ {e}]
      BY <2>0, <2>1, <3>1 DEF Free
    <3>3. T \ {e} \in SUBSET S /\ Cardinality(T \ {e}) = k /\ y \in T \ {e}
      BY <1>2, <2>1, <2>2, <2>4, OneLess
    <3>4. f[T \ {e}] = w(y) + f[(T \ {e}) \ {y}]
      BY <2>0, <2>1, <3>3 DEF Free
    <3>5. (T \ {y}) \ {e} = (T \ {e}) \ {y}
      OBVIOUS
    <3>6. f[(T \ {e}) \ {y}] \in Nat /\ w(e) \in Nat /\ w(y) \in Nat
      BY <1>3, <1>5, <2>2
    <3>7. \A a, b, m \in Nat : a + (b + m) = b + (a + m)
      OBVIOUS
    <3>8. f[T] = w(y) + (w(e) + f[(T \ {e}) \ {y}])
      BY <2>2, <3>2, <3>5, Zenon
    <3>9. f[T] = w(e) + (w(y) + f[(T \ {e}) \ {y}])
      BY <3>6, <3>7, <3>8, Zenon
    <3> QED BY <3>4, <3>9, Zenon
  <2> QED BY <2>3, <2>4
<1>8. \A n \in Nat : n \in B
  <2> HIDE DEF B
  <2> QED BY <1>6, <1>7, Induct
<1>9. f[S] = w(x) + f[S \ {x}]
  BY <1>2, <1>8
<1>10. Total(P, S \ {x}) = f[S \ {x}]
  BY <1>1, TotalPart
<1> QED BY <1>1, <1>3, <1>5, <1>9, <1>10 DEF w

LEMMA TotalEmpty ==
  ASSUME NEW P \in [Job -> Programs]
  PROVE  Total(P, {}) = 0
<1>1. PICK f \in [SUBSET {} -> Nat] : Summing(f, P, {}) /\ Total(P, {}) = f[{}]
  BY TotalExists, FS_EmptySet
<1> QED BY <1>1 DEF Summing

\* A part uses no more.
LEMMA TotalMonotone ==
  ASSUME NEW S, NEW P, NEW T, IsFiniteSet(S), P \in [Job -> Programs],
         \A e \in S : e.job \in Job, T \in SUBSET S
  PROVE  Total(P, T) <= Total(P, S) /\ Total(P, T) \in Nat /\ Total(P, S) \in Nat
<1> DEFINE Good(U) == T \subseteq U => Total(P, T) <= Total(P, U)
           B == {n \in Nat : \A U \in SUBSET S : Cardinality(U) = n => Good(U)}
<1>1. \A U \in SUBSET S : /\ IsFiniteSet(U) /\ Cardinality(U) \in Nat
                          /\ \A e \in U : e.job \in Job
  BY FS_Subset, FS_CardinalityType
<1>2. \A U \in SUBSET S : Total(P, U) \in Nat
  <2>1. TAKE U \in SUBSET S
  <2>2. PICK f \in [SUBSET S -> Nat] : Summing(f, P, S) /\ Total(P, S) = f[S]
    BY TotalExists
  <2> QED BY <2>2, TotalPart
<1>3. \A U \in SUBSET S, x \in S :
         x \in U => /\ Total(P, U) = P[x.job].usage + Total(P, U \ {x})
                    /\ P[x.job].usage \in Nat
  <2>1. TAKE U \in SUBSET S, x \in S
  <2>2. HAVE x \in U
  <2>3. IsFiniteSet(U) /\ \A e \in U : e.job \in Job
    BY <1>1
  <2> QED BY <2>2, <2>3, TotalStep
<1>4. \A n : n \in B <=> n \in Nat /\ \A U \in SUBSET S : Cardinality(U) = n => Good(U)
  OBVIOUS
<1>5. \A U \in SUBSET S : U = T => Good(U)
  BY <1>2
<1>6. 0 \in B
  <2>1. SUFFICES ASSUME NEW U \in SUBSET S, Cardinality(U) = 0 PROVE Good(U)
    BY <1>4
  <2>2. U = {}
    BY <1>1, <2>1, FS_EmptySet
  <2>3. T \subseteq U => U = T
    BY <2>2
  <2> QED BY <1>5, <2>3
<1>7. \A k \in Nat : k \in B => k + 1 \in B
  <2> HIDE DEF B, Good
  <2>1. SUFFICES ASSUME NEW k \in Nat, k \in B, NEW U \in SUBSET S, Cardinality(U) = k + 1
                 PROVE  Good(U)
    BY <1>4
  <2>2. CASE ~(T \subseteq U) \/ T = U
    BY <1>5, <2>2 DEF Good
  <2>3. CASE T \subseteq U /\ T # U
    <3>1. PICK x \in U : x \notin T
      BY <2>3
    <3>2. U \ {x} \in SUBSET S /\ Cardinality(U \ {x}) = k /\ T \subseteq U \ {x} /\ x \in S
      BY <1>1, <2>1, <2>3, <3>1, OneLess
    <3>3. Total(P, T) <= Total(P, U \ {x})
      BY <1>4, <2>1, <3>2 DEF Good
    <3>4. Total(P, U) = P[x.job].usage + Total(P, U \ {x}) /\ P[x.job].usage \in Nat
      BY <1>3, <3>1, <3>2
    <3>5. Total(P, T) \in Nat /\ Total(P, U \ {x}) \in Nat
      BY <1>2, <3>2
    <3>6. Total(P, T) <= Total(P, U)
      BY <3>3, <3>4, <3>5
    <3> QED BY <3>6 DEF Good
  <2> QED BY <2>2, <2>3
<1>8. \A n \in Nat : n \in B
  <2> HIDE DEF B
  <2> QED BY <1>6, <1>7, Induct
<1>9. Good(S)
  BY <1>1, <1>4, <1>8
<1> QED BY <1>2, <1>9

\* One more run adds at most what it uses.
LEMMA TotalAdd ==
  ASSUME NEW S, NEW P, NEW x, IsFiniteSet(S), P \in [Job -> Programs],
         \A e \in S : e.job \in Job, x.job \in Job
  PROVE  /\ Total(P, S \cup {x}) <= Total(P, S) + P[x.job].usage
         /\ Total(P, S) \in Nat /\ Total(P, S \cup {x}) \in Nat /\ P[x.job].usage \in Nat
<1> DEFINE T == S \cup {x}
<1>1. IsFiniteSet(T) /\ x \in T /\ \A e \in T : e.job \in Job
  BY FS_AddElement
<1> HIDE DEF T
<1>2. /\ Total(P, T) \in Nat /\ Total(P, T \ {x}) \in Nat /\ P[x.job].usage \in Nat
      /\ Total(P, T) = P[x.job].usage + Total(P, T \ {x})
  BY <1>1, TotalStep
<1>3. T \ {x} \in SUBSET S
  BY DEF T
<1>4. Total(P, T \ {x}) <= Total(P, S) /\ Total(P, S) \in Nat
  BY <1>3, TotalMonotone
<1>5. Total(P, T) <= Total(P, S) + P[x.job].usage
  BY <1>2, <1>4
<1> QED BY <1>2, <1>4, <1>5 DEF T

\* Runs of different jobs use no more than others among which are runs of all these jobs.
LEMMA TotalByJob ==
  ASSUME NEW S, NEW T, NEW P, NEW Q, IsFiniteSet(S), IsFiniteSet(T),
         P \in [Job -> Programs], Q \in [Job -> Programs],
         \A j \in Job : P[j].usage = Q[j].usage,
         \A e \in S : e.job \in Job, \A e \in T : e.job \in Job,
         \A x, y \in S : x.job = y.job => x = y,
         \A x \in S : \E y \in T : y.job = x.job
  PROVE  Total(P, S) <= Total(Q, T)
<1> DEFINE Covered(U, W) == \A x \in U : \E y \in W : y.job = x.job
           Good(U) == \A W \in SUBSET T : Covered(U, W) => Total(P, U) <= Total(Q, W)
           B == {n \in Nat : \A U \in SUBSET S : Cardinality(U) = n => Good(U)}
<1>1. /\ \A U \in SUBSET S : /\ IsFiniteSet(U) /\ Cardinality(U) \in Nat
                             /\ \A e \in U : e.job \in Job
      /\ \A W \in SUBSET T : IsFiniteSet(W) /\ \A e \in W : e.job \in Job
  BY FS_Subset, FS_CardinalityType
<1>2. \A U \in SUBSET S, x \in S :
         x \in U => /\ Total(P, U) = P[x.job].usage + Total(P, U \ {x})
                    /\ P[x.job].usage \in Nat /\ Total(P, U \ {x}) \in Nat
  <2>1. TAKE U \in SUBSET S, x \in S
  <2>2. HAVE x \in U
  <2>3. IsFiniteSet(U) /\ \A e \in U : e.job \in Job
    BY <1>1
  <2> QED BY <2>2, <2>3, TotalStep
<1>3. \A W \in SUBSET T, x \in T :
         x \in W => /\ Total(Q, W) = Q[x.job].usage + Total(Q, W \ {x})
                    /\ Total(Q, W \ {x}) \in Nat
  <2>1. TAKE W \in SUBSET T, x \in T
  <2>2. HAVE x \in W
  <2>3. IsFiniteSet(W) /\ \A e \in W : e.job \in Job
    BY <1>1
  <2> QED BY <2>2, <2>3, TotalStep
<1>4. \A n : n \in B <=> n \in Nat /\ \A U \in SUBSET S : Cardinality(U) = n => Good(U)
  OBVIOUS
<1>5. 0 \in B
  <2>1. SUFFICES ASSUME NEW U \in SUBSET S, Cardinality(U) = 0, NEW W \in SUBSET T
                 PROVE  Total(P, U) <= Total(Q, W)
    BY <1>4
  <2>2. U = {}
    BY <1>1, <2>1, FS_EmptySet
  <2>3. Total(P, U) = 0
    BY <2>2, TotalEmpty
  <2>4. IsFiniteSet(W) /\ (\A e \in W : e.job \in Job) /\ W \in SUBSET W
    BY <1>1
  <2>5. Total(Q, W) \in Nat
    BY <2>4, TotalMonotone
  <2> QED BY <2>3, <2>5
<1>6. \A k \in Nat : k \in B => k + 1 \in B
  <2> HIDE DEF B, Good, Covered
  <2>1. SUFFICES ASSUME NEW k \in Nat, k \in B, NEW U \in SUBSET S, Cardinality(U) = k + 1,
                        NEW W \in SUBSET T, Covered(U, W)
                 PROVE  Total(P, U) <= Total(Q, W)
    BY <1>4 DEF Good
  <2>2. U # {}
    BY <2>1, NotEmpty
  <2>3. PICK x \in U : TRUE
    BY <2>2
  <2>4. PICK y \in W : y.job = x.job
    BY <2>1 DEF Covered
  <2>5. U \ {x} \in SUBSET S /\ Cardinality(U \ {x}) = k
    BY <1>1, <2>1, OneLess
  <2>6. Covered(U \ {x}, W \ {y})
    <3>1. SUFFICES ASSUME NEW z \in U \ {x} PROVE \E v \in W \ {y} : v.job = z.job
      BY DEF Covered
    <3>2. PICK v \in W : v.job = z.job
      BY <2>1 DEF Covered
    <3>3. z.job # x.job
      OBVIOUS
    <3> QED BY <2>4, <3>2, <3>3
  <2>7. Total(P, U \ {x}) <= Total(Q, W \ {y})
    BY <1>4, <2>1, <2>5, <2>6 DEF Good
  <2>8. /\ Total(P, U) = P[x.job].usage + Total(P, U \ {x})
        /\ P[x.job].usage \in Nat /\ Total(P, U \ {x}) \in Nat
    BY <1>2
  <2>9. Total(Q, W) = Q[y.job].usage + Total(Q, W \ {y}) /\ Total(Q, W \ {y}) \in Nat
    BY <1>3
  <2>10. Q[y.job].usage = P[x.job].usage
    BY <2>4
  <2> QED BY <2>7, <2>8, <2>9, <2>10
<1>7. \A n \in Nat : n \in B
  <2> HIDE DEF B
  <2> QED BY <1>5, <1>6, Induct
<1>8. Good(S)
  <2> HIDE DEF Good
  <2> QED BY <1>1, <1>4, <1>7
<1> QED BY <1>8

-----------------------------------------------------------------------------
(* Plans *)

Entries == [job : Job, orig : Nat, start : Int, end : Int, blocked : BOOLEAN]

Distinct(plan) == \A i, k \in DOMAIN plan : plan[i].job = plan[k].job => i = k

\* t has elements of s, each at most once.
From(t, s) ==
    \E at \in [DOMAIN t -> DOMAIN s] :
        /\ \A k, m \in DOMAIN t : at[k] = at[m] => k = m
        /\ \A k \in DOMAIN t : t[k] = s[at[k]]

LEMMA RearrangedFrom ==
  ASSUME NEW s, NEW t, NEW I \in SUBSET DOMAIN s, Rearranges(t, s, I)
  PROVE  From(t, s) /\ \A k \in DOMAIN t : \E i \in I : t[k] = s[i]
<1>1. PICK at : /\ Enumerates(at, I) /\ DOMAIN t = 1..Cardinality(I)
                /\ \A k \in DOMAIN t : t[k] = s[at[k]]
  BY DEF Rearranges
<1>2. /\ at \in [DOMAIN t -> I]
      /\ \A k, m \in DOMAIN t : at[k] = at[m] => k = m
  BY <1>1 DEF Enumerates
<1>3. at \in [DOMAIN t -> DOMAIN s]
  BY <1>2
<1> QED BY <1>1, <1>2, <1>3 DEF From

LEMMA FromFrom ==
  ASSUME NEW s, NEW t, NEW u, From(u, t), From(t, s)
  PROVE  From(u, s)
<1>1. PICK a \in [DOMAIN u -> DOMAIN t] :
        /\ \A k, m \in DOMAIN u : a[k] = a[m] => k = m
        /\ \A k \in DOMAIN u : u[k] = t[a[k]]
  BY DEF From
<1>2. PICK b \in [DOMAIN t -> DOMAIN s] :
        /\ \A k, m \in DOMAIN t : b[k] = b[m] => k = m
        /\ \A k \in DOMAIN t : t[k] = s[b[k]]
  BY DEF From
<1> DEFINE c == [k \in DOMAIN u |-> b[a[k]]]
<1>3. /\ c \in [DOMAIN u -> DOMAIN s]
      /\ \A k, m \in DOMAIN u : c[k] = c[m] => k = m
      /\ \A k \in DOMAIN u : u[k] = s[c[k]]
  BY <1>1, <1>2
<1> QED BY <1>3 DEF From

LEMMA FromDistinct ==
  ASSUME NEW s, NEW t, From(t, s), Distinct(s)
  PROVE  Distinct(t)
BY DEF From, Distinct

\* What a sort by some numbers does to a plan.
LEMMA SortedPlan ==
  ASSUME NEW plan \in Seq(Entries), NEW key \in [DOMAIN plan -> Int]
  PROVE  /\ Arranged(plan, Ranked(DOMAIN plan, key)) \in Seq(Entries)
         /\ From(Arranged(plan, Ranked(DOMAIN plan, key)), plan)
<1> DEFINE t == Arranged(plan, Ranked(DOMAIN plan, key))
<1>1. t \in Seq(Entries) /\ Rearranges(t, plan, DOMAIN plan)
  BY Sorting
<1> HIDE DEF t
<1>2. From(t, plan)
  BY <1>1, RearrangedFrom
<1> QED BY <1>1, <1>2 DEF t

LEMMA EntryOf ==
  ASSUME NEW plan \in Seq(Entries), NEW i \in DOMAIN plan
  PROVE  plan[i] \in Entries
BY ElementOfSeq, LenProperties

\* Max and Min of what a fold goes through.
LEMMA PrefixMax ==
  ASSUME NEW k \in Nat
  PROVE  /\ 1..(k + 1) # {} /\ k + 1 \in 1..(k + 1) /\ Max(1..(k + 1)) = k + 1
         /\ (1..(k + 1)) \ {k + 1} = 1..k
<1> DEFINE S == 1..(k + 1)
<1>1. S \in SUBSET Int /\ IsFiniteSet(S) /\ S # {} /\ k + 1 \in S
  <2>1. IsFiniteSet(S)
    BY FS_Interval
  <2>2. k + 1 \in S
    OBVIOUS
  <2> QED BY <2>1, <2>2
<1>2. \A y \in S : y <= k + 1
  OBVIOUS
<1>3. Max(S) \in S /\ k + 1 <= Max(S)
  <2> HIDE DEF S
  <2> QED BY <1>1, Extremes
<1>4. Max(S) = k + 1
  BY <1>2, <1>3
<1>5. \A y : y \in S \ {k + 1} <=> y \in 1..k
  OBVIOUS
<1>6. S \ {k + 1} = 1..k
  <2> HIDE DEF S
  <2> QED BY <1>5
<1> QED BY <1>1, <1>4, <1>6

LEMMA MaxMember ==
  ASSUME NEW n \in Nat, NEW T \in SUBSET (1..n), T # {}
  PROVE  Max(T) \in T
<1>1. IsFiniteSet(1..n)
  BY FS_Interval
<1>2. IsFiniteSet(T)
  BY <1>1, FS_Subset
<1>3. T \in SUBSET Int
  OBVIOUS
<1> QED BY <1>2, <1>3, Extremes

\* What a fold over n steps goes through.
Chain(iter, n, base, G) ==
    \A T \in SUBSET (1..n) :
        iter[T] = IF T = {} THEN base ELSE G[<<Max(T), iter[T \ {Max(T)}]>>]

LEMMA ChainExists ==
  ASSUME NEW n \in Nat, NEW V, NEW base, NEW G,
         base \in V, \A k \in 1..n, v \in V : G[<<k, v>>] \in V
  PROVE  \E iter \in [SUBSET (1..n) -> V] : Chain(iter, n, base, G)
<1> DEFINE S == 1..n
           c == [T \in SUBSET S |-> Max(T)]
<1>1. IsFiniteSet(S)
  BY FS_Interval
<1>2. \A T \in SUBSET S : T # {} => c[T] \in T
  BY MaxMember
<1>3. \E iter \in [SUBSET S -> V] : Folding(iter, S, base, G, c)
  <2> HIDE DEF S, c
  <2>1. \A x \in S, v \in V : G[<<x, v>>] \in V
    BY DEF S
  <2> QED BY <1>1, <1>2, <2>1, FoldExists
<1>4. PICK iter \in [SUBSET S -> V] : Folding(iter, S, base, G, c)
  BY <1>3
<1>5. Chain(iter, n, base, G)
  BY <1>4 DEF Folding, Chain
<1> QED BY <1>4, <1>5

\* A record takes its run out of the plan and brings nothing in.
LEMMA SkipOne ==
  ASSUME NEW plan \in Seq(Entries), NEW r
  PROVE  /\ Skip(plan, r) \in Seq(Entries) /\ From(Skip(plan, r), plan)
         /\ Distinct(plan) => \A k \in DOMAIN Skip(plan, r) : Skip(plan, r)[k].job # r.job
<1> DEFINE I == {i \in 1..Len(plan) : plan[i].job = r.job}
           at == SelectInSeq(plan, LAMBDA e : e.job = r.job)
           kept == {i \in DOMAIN plan : plan[i].orig >= r.orig \/ (0 < at /\ at < i)}
           t == Part(plan, kept \ {at})
<1>1. Skip(plan, r) = t
  BY DEF Skip
<1>2. DOMAIN plan = 1..Len(plan) /\ Len(plan) \in Nat
  BY LenProperties
<1>3. at = IF I # {} THEN Min(I) ELSE 0
  BY DEF SelectInSeq
<1>4. I # {} => at \in I
  <2>1. I \in SUBSET Int /\ IsFiniteSet(I)
    <3>1. IsFiniteSet(1..Len(plan))
      BY <1>2, FS_Interval
    <3> QED BY <3>1, FS_Subset
  <2> HIDE DEF I, at
  <2> QED BY <1>3, <2>1, Extremes
<1> HIDE DEF at
<1>5. t \in Seq(Entries) /\ Rearranges(t, plan, kept \ {at})
  <2>1. kept \ {at} \in SUBSET DOMAIN plan
    OBVIOUS
  <2> QED BY <2>1, Parts
<1> HIDE DEF t
<1>6. From(t, plan) /\ \A k \in DOMAIN t : \E i \in kept \ {at} : t[k] = plan[i]
  <2>1. kept \ {at} \in SUBSET DOMAIN plan
    OBVIOUS
  <2> HIDE DEF kept
  <2> QED BY <1>5, <2>1, RearrangedFrom
<1>7. ASSUME Distinct(plan), NEW k \in DOMAIN t, t[k].job = r.job PROVE FALSE
  <2>1. PICK i \in kept \ {at} : t[k] = plan[i]
    BY <1>6
  <2>2. i \in DOMAIN plan /\ i # at /\ plan[i].job = r.job
    BY <1>7, <2>1
  <2>3. i \in I
    BY <1>2, <2>2
  <2>4. at \in DOMAIN plan /\ plan[at].job = r.job
    BY <1>2, <1>4, <2>3
  <2> QED BY <1>7, <2>2, <2>4 DEF Distinct
<1> QED BY <1>1, <1>5, <1>6, <1>7

\* What is left of a plan when every record of ran has been skipped.
LEMMA SkipAll ==
  ASSUME NEW plan \in Seq(Entries), Distinct(plan), NEW ran \in Seq(Records)
  PROVE  LET left == FoldLeft(Skip, plan, ran)
         IN /\ left \in Seq(Entries) /\ Distinct(left)
            /\ \A k \in DOMAIN left, m \in DOMAIN ran : left[k].job # ran[m].job
<1> DEFINE n == Len(ran)
           V == Seq(Entries)
           G == [p \in (1..n) \X V |-> Skip(p[2], ran[p[1]])]
           F(iter) == [T \in SUBSET DOMAIN ran |->
                         IF T = {} THEN plan ELSE Skip(iter[T \ {Max(T)}], ran[Max(T)])]
           it == CHOOSE iter : iter = F(iter)
<1>1. n \in Nat /\ DOMAIN ran = 1..n
  BY LenProperties
<1>2. \A k \in 1..n, v \in V : G[<<k, v>>] \in V /\ G[<<k, v>>] = Skip(v, ran[k])
  BY SkipOne
<1> HIDE DEF G, V
<1>3. PICK iter \in [SUBSET (1..n) -> V] : Chain(iter, n, plan, G)
  <2>1. plan \in V
    BY DEF V
  <2>2. \E iter \in [SUBSET (1..n) -> V] : Chain(iter, n, plan, G)
    <3> HIDE DEF n
    <3> QED BY <1>1, <1>2, <2>1, ChainExists
  <2> QED BY <2>2
<1>4. \A T \in SUBSET (1..n) : T # {} => Max(T) \in T
  BY <1>1, MaxMember
<1>5. iter = F(iter)
  <2>1. SUFFICES ASSUME NEW T \in SUBSET (1..n), T # {}
                 PROVE  iter[T] = Skip(iter[T \ {Max(T)}], ran[Max(T)])
    BY <1>1, <1>3 DEF Chain
  <2>2. Max(T) \in 1..n /\ iter[T \ {Max(T)}] \in V
    BY <1>3, <1>4, <2>1
  <2>3. iter[T] = G[<<Max(T), iter[T \ {Max(T)}]>>]
    BY <1>3, <2>1 DEF Chain
  <2> QED BY <1>2, <2>2, <2>3
<1>6. it = F(it)
  <2> HIDE DEF F
  <2> QED BY <1>5
<1>7. FoldLeft(Skip, plan, ran) = it[1..n]
  BY <1>1 DEF FoldLeft, MapThenFoldSet
<1> HIDE DEF it
<1> DEFINE Good(k) ==
             /\ it[1..k] \in Seq(Entries) /\ Distinct(it[1..k])
             /\ \A i \in DOMAIN it[1..k], m \in 1..k : it[1..k][i].job # ran[m].job
           B == {k \in Nat : k <= n => Good(k)}
<1>8. 0 \in B
  <2>1. it[1..0] = plan
    BY <1>6
  <2> QED BY <2>1
<1>9. \A k \in Nat : k \in B => k + 1 \in B
  <2> HIDE DEF n
  <2>1. SUFFICES ASSUME NEW k \in Nat, Good(k), k + 1 <= n PROVE Good(k + 1)
    BY <1>1
  <2> DEFINE old == it[1..k]
             new == it[1..(k + 1)]
  <2>2. new = Skip(old, ran[k + 1])
    <3>1. 1..(k + 1) \in SUBSET DOMAIN ran
      BY <1>1, <2>1
    <3>2. it[1..(k + 1)] = Skip(it[(1..(k + 1)) \ {Max(1..(k + 1))}], ran[Max(1..(k + 1))])
      <4>1. 1..(k + 1) # {}
        BY PrefixMax
      <4> QED BY <1>6, <3>1, <4>1
    <3> QED BY <3>2, PrefixMax
  <2>3. old \in Seq(Entries) /\ Distinct(old)
    BY <2>1
  <2>4. \A i \in DOMAIN old, m \in 1..k : old[i].job # ran[m].job
    BY <2>1
  <2> HIDE DEF old, new
  <2>5. /\ new \in Seq(Entries) /\ From(new, old)
        /\ \A i \in DOMAIN new : new[i].job # ran[k + 1].job
    BY <2>2, <2>3, SkipOne
  <2>6. Distinct(new)
    BY <2>3, <2>5, FromDistinct
  <2>7. \A i \in DOMAIN new, m \in 1..k : new[i].job # ran[m].job
    BY <2>4, <2>5 DEF From
  <2>8. \A m \in 1..(k + 1) : m \in 1..k \/ m = k + 1
    OBVIOUS
  <2>9. \A i \in DOMAIN new, m \in 1..(k + 1) : new[i].job # ran[m].job
    BY <2>5, <2>7, <2>8
  <2> QED BY <2>5, <2>6, <2>9 DEF new
<1>10. \A k \in Nat : k \in B
  <2> HIDE DEF B
  <2> QED BY <1>8, <1>9, Induct
<1>11. Good(n)
  BY <1>1, <1>10
<1> QED BY <1>1, <1>7, <1>11

\* What the constants are.
LEMMA Facts ==
  /\ IsFiniteSet(Job) /\ Job \subseteq Nat /\ Never \in Nat /\ MaxTime \in Nat
  /\ Levels \subseteq Nat
<1>1. IsFiniteSet(Scheduled) /\ IsFiniteSet(Once)
  BY ConstantsAssumption
<1>2. IsFiniteSet(Job)
  BY <1>1, FS_Union DEF Job
<1> QED BY <1>2, ConstantsAssumption DEF Job, Never

LEMMA Types ==
  ASSUME TypeOK, NEW j \in Job
  PROVE  /\ program[j].start \in Nat /\ program[j].station \in Nat /\ program[j].usage \in Nat
         /\ Length(j) \in Nat
<1>1. program[j] \in Programs
  BY DEF TypeOK
<1>2. /\ program[j].start \in Nat /\ program[j].station \in Nat /\ program[j].usage \in Nat
      /\ program[j].length \in Nat
  BY <1>1, Facts DEF Programs
<1>3. level \in Nat
  BY Facts DEF TypeOK
<1>4. \A a, b \in Nat : (a * b) \div 100 \in Nat
  <2>1. \A a, b \in Nat : a * b \in Nat
    OBVIOUS
  <2>2. \A a \in Nat : a \div 100 \in Nat
    OBVIOUS
  <2> QED BY <2>1, <2>2
<1>5. (program[j].length * level) \div 100 \in Nat
  BY <1>2, <1>3, <1>4
<1> QED BY <1>2, <1>5 DEF Length

\* A run is put after those of its station that are there.
LEMMA FollowOne ==
  ASSUME TypeOK, NEW plan \in Seq(Entries), NEW j \in Job
  PROVE  /\ Follow(plan, j) \in Seq(Entries) /\ Len(Follow(plan, j)) = Len(plan) + 1
         /\ Follow(plan, j)[Len(plan) + 1].job = j
         /\ \A i \in 1..Len(plan) : Follow(plan, j)[i] = plan[i]
<1> DEFINE before == {i \in DOMAIN plan : program[plan[i].job].station = program[j].station}
           ends == {plan[i].end : i \in before}
           start == Max({program[j].start} \cup ends)
           e == [job |-> j, orig |-> program[j].start, start |-> start,
                 end |-> start + Length(j), blocked |-> FALSE]
<1>1. IsFiniteSet(ends) /\ ends \subseteq Int
  <2>1. DOMAIN plan = 1..Len(plan) /\ Len(plan) \in Nat
    BY LenProperties
  <2>2. IsFiniteSet(1..Len(plan)) /\ before \subseteq 1..Len(plan)
    BY <2>1, FS_Interval
  <2>3. IsFiniteSet(before)
    <3> HIDE DEF before
    <3> QED BY <2>2, FS_Subset
  <2>4. \A i \in before : plan[i].end \in Int
    BY EntryOf DEF Entries
  <2> DEFINE f == [i \in before |-> plan[i].end]
  <2>5. ends = {f[i] : i \in before}
    OBVIOUS
  <2>6. IsFiniteSet({f[i] : i \in before})
    <3> HIDE DEF before, f
    <3> QED BY <2>3, Images
  <2> HIDE DEF before
  <2> QED BY <2>4, <2>5, <2>6
<1>2. start \in Int
  <2> DEFINE S == {program[j].start} \cup ends
  <2> HIDE DEF ends
  <2>1. IsFiniteSet(S) /\ S # {} /\ S \in SUBSET Int
    <3>1. IsFiniteSet({program[j].start})
      BY FS_Singleton
    <3>2. IsFiniteSet(S)
      BY <1>1, <3>1, FS_Union
    <3>3. program[j].start \in Int
      BY Types
    <3> QED BY <1>1, <3>2, <3>3
  <2> HIDE DEF S
  <2>2. Max(S) \in Int
    BY <2>1, Extremes
  <2> QED BY <2>2 DEF S
<1>3. Follow(plan, j) = Append(plan, e)
  BY DEF Follow
<1> HIDE DEF start
<1>4. e \in Entries
  BY <1>2, Types DEF Entries
<1>5. e.job = j
  OBVIOUS
<1> HIDE DEF e
<1> QED BY <1>3, <1>4, <1>5, AppendProperties

\* Every run that is given is in the plan, once.
LEMMA FollowAll ==
  ASSUME TypeOK, NEW seq \in Seq(Job), \A i, m \in DOMAIN seq : seq[i] = seq[m] => i = m
  PROVE  FoldLeft(Follow, <<>>, seq) \in Seq(Entries) /\ Distinct(FoldLeft(Follow, <<>>, seq))
<1> DEFINE n == Len(seq)
           V == Seq(Entries)
           G == [p \in (1..n) \X V |-> Follow(p[2], seq[p[1]])]
           F(iter) == [T \in SUBSET DOMAIN seq |->
                         IF T = {} THEN <<>> ELSE Follow(iter[T \ {Max(T)}], seq[Max(T)])]
           it == CHOOSE iter : iter = F(iter)
<1>1. n \in Nat /\ DOMAIN seq = 1..n /\ \A k \in 1..n : seq[k] \in Job
  BY LenProperties, ElementOfSeq
<1>2. \A k \in 1..n, v \in V : G[<<k, v>>] \in V /\ G[<<k, v>>] = Follow(v, seq[k])
  BY <1>1, FollowOne
<1> HIDE DEF G, V
<1>3. PICK iter \in [SUBSET (1..n) -> V] : Chain(iter, n, <<>>, G)
  <2>1. <<>> \in V
    BY EmptySeq DEF V
  <2>2. \E iter \in [SUBSET (1..n) -> V] : Chain(iter, n, <<>>, G)
    <3> HIDE DEF n
    <3> QED BY <1>1, <1>2, <2>1, ChainExists
  <2> QED BY <2>2
<1>4. \A T \in SUBSET (1..n) : T # {} => Max(T) \in T
  BY <1>1, MaxMember
<1>5. iter = F(iter)
  <2>1. SUFFICES ASSUME NEW T \in SUBSET (1..n), T # {}
                 PROVE  iter[T] = Follow(iter[T \ {Max(T)}], seq[Max(T)])
    BY <1>1, <1>3 DEF Chain
  <2>2. Max(T) \in 1..n /\ iter[T \ {Max(T)}] \in V
    BY <1>3, <1>4, <2>1
  <2>3. iter[T] = G[<<Max(T), iter[T \ {Max(T)}]>>]
    BY <1>3, <2>1 DEF Chain
  <2> QED BY <1>2, <2>2, <2>3
<1>6. it = F(it)
  <2> HIDE DEF F
  <2> QED BY <1>5
<1>7. FoldLeft(Follow, <<>>, seq) = it[1..n]
  BY <1>1 DEF FoldLeft, MapThenFoldSet
<1> HIDE DEF it
<1> DEFINE Good(k) == /\ it[1..k] \in Seq(Entries) /\ Len(it[1..k]) = k
                      /\ \A i \in 1..k : it[1..k][i].job = seq[i]
           B == {k \in Nat : k <= n => Good(k)}
<1>8. 0 \in B
  <2>1. it[1..0] = <<>>
    BY <1>6
  <2>2. Good(0)
    BY <2>1, EmptySeq
  <2> QED BY <2>2
<1>9. \A k \in Nat : k \in B => k + 1 \in B
  <2> HIDE DEF n
  <2>1. SUFFICES ASSUME NEW k \in Nat, Good(k), k + 1 <= n PROVE Good(k + 1)
    BY <1>1
  <2> DEFINE old == it[1..k]
             new == it[1..(k + 1)]
  <2>2. new = Follow(old, seq[k + 1])
    <3>1. 1..(k + 1) \in SUBSET DOMAIN seq
      BY <1>1, <2>1
    <3>2. it[1..(k + 1)] = Follow(it[(1..(k + 1)) \ {Max(1..(k + 1))}], seq[Max(1..(k + 1))])
      <4>1. 1..(k + 1) # {}
        BY PrefixMax
      <4> QED BY <1>6, <3>1, <4>1
    <3> QED BY <3>2, PrefixMax
  <2>3. old \in Seq(Entries) /\ Len(old) = k /\ \A i \in 1..k : old[i].job = seq[i]
    BY <2>1
  <2>4. seq[k + 1] \in Job
    BY <1>1, <2>1
  <2> HIDE DEF old, new
  <2>5. /\ new \in Seq(Entries) /\ Len(new) = k + 1 /\ new[k + 1].job = seq[k + 1]
        /\ \A i \in 1..k : new[i] = old[i]
    BY <2>2, <2>3, <2>4, FollowOne
  <2>6. \A i \in 1..(k + 1) : i \in 1..k \/ i = k + 1
    OBVIOUS
  <2>7. \A i \in 1..(k + 1) : new[i].job = seq[i]
    BY <2>3, <2>5, <2>6
  <2> QED BY <2>5, <2>7 DEF new
<1>10. \A k \in Nat : k \in B
  <2> HIDE DEF B
  <2> QED BY <1>8, <1>9, Induct
<1>11. Good(n)
  BY <1>1, <1>10
<1>12. Distinct(it[1..n])
  <2> DEFINE t == it[1..n]
  <2>1. DOMAIN t = 1..n /\ \A i \in 1..n : t[i].job = seq[i]
    BY <1>11, LenProperties
  <2> HIDE DEF t
  <2> QED BY <1>1, <2>1 DEF Distinct, t
<1> QED BY <1>7, <1>11, <1>12

\* A sort of runs, each there once: they all are there once.
LEMMA SortedJobs ==
  ASSUME NEW J, NEW s \in Seq(J), \A i, m \in DOMAIN s : s[i] = s[m] => i = m,
         NEW key \in [DOMAIN s -> Int]
  PROVE  LET t == Arranged(s, Ranked(DOMAIN s, key))
         IN t \in Seq(J) /\ \A i, m \in DOMAIN t : t[i] = t[m] => i = m
<1> DEFINE t == Arranged(s, Ranked(DOMAIN s, key))
<1>1. t \in Seq(J) /\ Rearranges(t, s, DOMAIN s)
  BY Sorting
<1> HIDE DEF t
<1>2. From(t, s)
  BY <1>1, RearrangedFrom
<1>3. \A i, m \in DOMAIN t : t[i] = t[m] => i = m
  BY <1>2 DEF From
<1> QED BY <1>1, <1>3 DEF t

\* A station that is asked for comes up at some place of the lists.
LEMMA EnteredType ==
  ASSUME TypeOK, NEW j \in Job, program[j].start < Never
  PROVE  Listed(j) \in Int /\ Entered(program[j].station) \in Int
<1> DEFINE there == {k \in Job : program[k].station = program[j].station /\ program[k].start < Never}
           f == [k \in there |-> Listed(k)]
           S == {f[k] : k \in there}
<1>1. \A k \in Job : Listed(k) \in Int
  <2>1. TAKE k \in Job
  <2>2. program[k] \in Programs
    BY DEF TypeOK
  <2>3. program[k].program \in Int
    BY <2>2 DEF Programs
  <2> QED BY <2>3 DEF Listed
<1>2. there \subseteq Job /\ j \in there
  OBVIOUS
<1>3. Entered(program[j].station) = Min(S)
  BY DEF Entered
<1> HIDE DEF there
<1>4. IsFiniteSet(there)
  BY <1>2, Facts, FS_Subset
<1>5. S \in SUBSET Int /\ S # {}
  BY <1>1, <1>2
<1>6. IsFiniteSet(S)
  <2> HIDE DEF f
  <2> QED BY <1>4, Images
<1> HIDE DEF S
<1>7. Min(S) \in Int
  BY <1>5, <1>6, Extremes
<1> QED BY <1>1, <1>3, <1>7

\* Before places are given, no run is in the plan twice.
LEMMA UnplacedPlan ==
  ASSUME TypeOK, NEW ran
  PROVE  Unplaced(ran) \in Seq(Entries) /\ Distinct(Unplaced(ran))
<1> DEFINE given == {j \in Job : program[j].start < Never /\ ~TooOld(j, ran) /\ ~Impossible(j)}
           listed == Ranked(given, [j \in given |-> Listed(j)])
           key1 == [i \in DOMAIN listed |-> program[listed[i]].start]
           byStart == Arranged(listed, Ranked(DOMAIN listed, key1))
           key2 == [i \in DOMAIN byStart |-> program[byStart[i]].station]
           byStation == Arranged(byStart, Ranked(DOMAIN byStart, key2))
           key3 == [i \in DOMAIN byStation |-> Entered(program[byStation[i]].station)]
           seq == Arranged(byStation, Ranked(DOMAIN byStation, key3))
           Single(s) == s \in Seq(given) /\ \A i, m \in DOMAIN s : s[i] = s[m] => i = m
<1>1. Unplaced(ran) = FoldLeft(Follow, <<>>, seq)
  BY DEF Unplaced, Sorted
<1>2. /\ \A j \in given : j \in Job /\ Listed(j) \in Int
      /\ \A j \in given : program[j].start \in Int /\ program[j].station \in Int
      /\ \A j \in given : Entered(program[j].station) \in Int
  BY Types, EnteredType
<1>3. IsFiniteSet(given) /\ given \in SUBSET Int
  <2>1. given \subseteq Job
    OBVIOUS
  <2> HIDE DEF given
  <2>2. IsFiniteSet(given)
    BY <2>1, Facts, FS_Subset
  <2>3. given \in SUBSET Int
    BY <2>1, Facts
  <2> QED BY <2>2, <2>3
<1> HIDE DEF given
<1>4. Single(listed)
  <2> DEFINE key == [j \in given |-> Listed(j)]
  <2>1. key \in [given -> Int]
    BY <1>2
  <2> HIDE DEF key
  <2>2. Enumerates(Ranked(given, key), given) /\ Cardinality(given) \in Nat
    BY <1>3, <2>1, RankedAll
  <2>3. Ranked(given, key) \in [1..Cardinality(given) -> given]
    BY <2>2 DEF Enumerates
  <2>4. Ranked(given, key) \in Seq(given)
    BY <2>2, <2>3, IsASeq
  <2> QED BY <2>2, <2>3, <2>4 DEF Enumerates, key
<1>5. \A s \in Seq(given) : \A i \in DOMAIN s : s[i] \in given
  BY ElementOfSeq, LenProperties
<1> HIDE DEF listed
<1>6. key1 \in [DOMAIN listed -> Int]
  BY <1>2, <1>4, <1>5
<1> HIDE DEF key1
<1>7. Single(byStart)
  BY <1>4, <1>6, SortedJobs
<1> HIDE DEF byStart
<1>8. key2 \in [DOMAIN byStart -> Int]
  BY <1>2, <1>5, <1>7
<1> HIDE DEF key2
<1>9. Single(byStation)
  BY <1>7, <1>8, SortedJobs
<1> HIDE DEF byStation
<1>10. key3 \in [DOMAIN byStation -> Int]
  BY <1>2, <1>5, <1>9
<1> HIDE DEF key3
<1>11. Single(seq)
  BY <1>9, <1>10, SortedJobs
<1> HIDE DEF seq
<1>12. seq \in Seq(Job)
  BY <1>2, <1>5, <1>11, LenProperties, IsASeq
<1> QED BY <1>1, <1>11, <1>12, FollowAll

LEMMA InOrderPlan ==
  ASSUME TypeOK, NEW plan \in Seq(Entries)
  PROVE  InOrder(plan) \in Seq(Entries) /\ From(InOrder(plan), plan)
<1> DEFINE key1 == [i \in DOMAIN plan |-> plan[i].end - plan[i].start]
           p1 == Arranged(plan, Ranked(DOMAIN plan, key1))
           key2 == [i \in DOMAIN p1 |-> -program[p1[i].job].usage]
           p2 == Arranged(p1, Ranked(DOMAIN p1, key2))
           key3 == [i \in DOMAIN p2 |-> p2[i].start]
           p3 == Arranged(p2, Ranked(DOMAIN p2, key3))
<1>1. InOrder(plan) = p3
  BY DEF InOrder, Sorted
<1>2. key1 \in [DOMAIN plan -> Int]
  <2>1. \A i \in DOMAIN plan : plan[i].start \in Int /\ plan[i].end \in Int
    BY EntryOf DEF Entries
  <2> QED BY <2>1
<1> HIDE DEF key1
<1>3. p1 \in Seq(Entries) /\ From(p1, plan)
  BY <1>2, SortedPlan
<1> HIDE DEF p1
<1>4. key2 \in [DOMAIN p1 -> Int]
  <2>1. \A i \in DOMAIN p1 : p1[i].job \in Job
    BY <1>3, EntryOf DEF Entries
  <2> QED BY <2>1, Types
<1> HIDE DEF key2
<1>5. p2 \in Seq(Entries) /\ From(p2, p1)
  BY <1>3, <1>4, SortedPlan
<1> HIDE DEF p2
<1>6. key3 \in [DOMAIN p2 -> Int]
  <2>1. \A i \in DOMAIN p2 : p2[i].start \in Int
    BY <1>5, EntryOf DEF Entries
  <2> QED BY <2>1
<1> HIDE DEF key3
<1>7. p3 \in Seq(Entries) /\ From(p3, p2)
  BY <1>5, <1>6, SortedPlan
<1> HIDE DEF p3
<1>8. From(p3, p1)
  BY <1>5, <1>7, FromFrom
<1>9. From(p3, plan)
  BY <1>3, <1>8, FromFrom
<1> QED BY <1>1, <1>7, <1>9

LEMMA ManualFirstPlan ==
  ASSUME NEW plan \in Seq(Entries)
  PROVE  ManualFirst(plan) \in Seq(Entries) /\ From(ManualFirst(plan), plan)
<1> DEFINE key == [i \in DOMAIN plan |-> IF plan[i].job \in Once THEN 0 ELSE 1]
<1>1. key \in [DOMAIN plan -> Int]
  OBVIOUS
<1>2. ManualFirst(plan) = Arranged(plan, Ranked(DOMAIN plan, key))
  BY DEF ManualFirst, Sorted
<1> HIDE DEF key
<1> QED BY <1>1, <1>2, SortedPlan

\* No record of the log is lost.
LEMMA ProcessedAll ==
  ASSUME NEW l \in Seq(Records)
  PROVE  /\ Processed(l) \in Seq(Records)
         /\ \A i \in DOMAIN l : \E m \in DOMAIN Processed(l) : Processed(l)[m] = l[i]
<1> DEFINE running == {i \in DOMAIN l : l[i].active}
           a == Part(l, DOMAIN l \ running)
           b == Part(l, running)
<1>1. Processed(l) = a \o b
  BY DEF Processed
<1>2. a \in Seq(Records) /\ Rearranges(a, l, DOMAIN l \ running)
  <2>1. DOMAIN l \ running \in SUBSET DOMAIN l
    OBVIOUS
  <2> HIDE DEF running
  <2> QED BY <2>1, Parts
<1>3. b \in Seq(Records) /\ Rearranges(b, l, running)
  <2>1. running \in SUBSET DOMAIN l
    OBVIOUS
  <2> HIDE DEF running
  <2> QED BY <2>1, Parts
<1> HIDE DEF a, b, running
<1>4. \A i \in DOMAIN l \ running : \E m \in DOMAIN a : a[m] = l[i]
  BY <1>2, Reached
<1>5. \A i \in running : \E m \in DOMAIN b : b[m] = l[i]
  BY <1>3, Reached
<1>6. /\ a \o b \in Seq(Records) /\ Len(a \o b) = Len(a) + Len(b)
      /\ \A i \in 1..Len(a) + Len(b) :
           (a \o b)[i] = IF i <= Len(a) THEN a[i] ELSE b[i - Len(a)]
  BY <1>2, <1>3, ConcatProperties
<1>7. /\ DOMAIN a = 1..Len(a) /\ DOMAIN b = 1..Len(b) /\ Len(a) \in Nat /\ Len(b) \in Nat
      /\ DOMAIN (a \o b) = 1..(Len(a) + Len(b))
  BY <1>2, <1>3, <1>6, LenProperties
<1> DEFINE c == a \o b
<1> HIDE DEF c
<1>8. \A m \in DOMAIN a : m \in DOMAIN c /\ c[m] = a[m]
  BY <1>6, <1>7 DEF c
<1>9. \A m \in DOMAIN b : m + Len(a) \in DOMAIN c /\ c[m + Len(a)] = b[m]
  <2>1. TAKE m \in DOMAIN b
  <2>2. m + Len(a) \in 1..(Len(a) + Len(b)) /\ ~(m + Len(a) <= Len(a))
    BY <1>7
  <2>3. m + Len(a) - Len(a) = m
    BY <1>7
  <2> QED BY <1>6, <1>7, <2>2, <2>3 DEF c
<1>10. ASSUME NEW i \in DOMAIN l PROVE \E m \in DOMAIN c : c[m] = l[i]
  <2>1. CASE i \in running
    BY <1>5, <1>9, <2>1
  <2>2. CASE i \notin running
    BY <1>4, <1>8, <2>2
  <2> QED BY <2>1, <2>2
<1> QED BY <1>1, <1>6, <1>10 DEF c

\* The runs that ask for a place: each once, and none that the log knows.
Asking(l) == ManualFirst(FoldLeft(Skip, InOrder(Unplaced(Processed(l))), Processed(l)))

LEMMA AskingPlan ==
  ASSUME TypeOK, NEW l \in Seq(Records)
  PROVE  /\ Asking(l) \in Seq(Entries) /\ Distinct(Asking(l))
         /\ \A k \in DOMAIN Asking(l), i \in DOMAIN l : Asking(l)[k].job # l[i].job
<1> DEFINE ran == Processed(l)
           p1 == Unplaced(ran)
           p2 == InOrder(p1)
           p3 == FoldLeft(Skip, p2, ran)
           p4 == ManualFirst(p3)
<1>1. ran \in Seq(Records) /\ \A i \in DOMAIN l : \E m \in DOMAIN ran : ran[m] = l[i]
  BY ProcessedAll
<1>2. Asking(l) = p4
  BY DEF Asking
<1> HIDE DEF ran
<1>3. p1 \in Seq(Entries) /\ Distinct(p1)
  BY UnplacedPlan
<1> HIDE DEF p1
<1>4. p2 \in Seq(Entries) /\ From(p2, p1)
  BY <1>3, InOrderPlan
<1> HIDE DEF p2
<1>5. Distinct(p2)
  BY <1>3, <1>4, FromDistinct
<1>6. /\ p3 \in Seq(Entries) /\ Distinct(p3)
      /\ \A k \in DOMAIN p3, m \in DOMAIN ran : p3[k].job # ran[m].job
  BY <1>1, <1>4, <1>5, SkipAll
<1> HIDE DEF p3
<1>7. p4 \in Seq(Entries) /\ From(p4, p3)
  BY <1>6, ManualFirstPlan
<1> HIDE DEF p4
<1>8. Distinct(p4)
  BY <1>6, <1>7, FromDistinct
<1>9. \A k \in DOMAIN p4, i \in DOMAIN l : p4[k].job # l[i].job
  BY <1>1, <1>6, <1>7 DEF From
<1> QED BY <1>2, <1>7, <1>8, <1>9

-----------------------------------------------------------------------------
(* Places *)

Spans == [job : Job, start : Int, end : Int]

Cover(used, t) == {e \in used : e.start <= t /\ t < e.end}

\* What the options are.
LEMMA Option ==
  ASSUME TypeOK
  PROVE  /\ options.max_usage \in Nat /\ options.station_delay \in Nat
         /\ options.program_pause \in Nat
BY DEF TypeOK, Settings

\* There are finitely many points at which the usage changes.
LEMMA FinitePoints ==
  ASSUME NEW used, IsFiniteSet(used), used \subseteq Spans
  PROVE  /\ IsFiniteSet(Points(used)) /\ Points(used) \subseteq Int
         /\ \A e \in used : e.start \in Points(used) /\ e.end \in Points(used)
<1> DEFINE f == [e \in used |-> e.start]
           g == [e \in used |-> e.end]
<1>1. IsFiniteSet({f[e] : e \in used}) /\ IsFiniteSet({g[e] : e \in used})
  <2> HIDE DEF f, g
  <2> QED BY Images
<1>2. IsFiniteSet({f[e] : e \in used} \cup {g[e] : e \in used})
  BY <1>1, FS_Union
<1>3. Points(used) = {f[e] : e \in used} \cup {g[e] : e \in used}
  BY DEF Points
<1>4. \A e \in used : e.start \in Int /\ e.end \in Int
  BY DEF Spans
<1> QED BY <1>2, <1>3, <1>4

\* What covers t covers the latest point between a and t, or a.
LEMMA LatestPoint ==
  ASSUME NEW used, NEW a, NEW t, IsFiniteSet(used), used \subseteq Spans, a \in Int, t \in Int,
         a <= t
  PROVE  \E p \in {a} \cup {q \in Points(used) : a < q /\ q <= t} :
            Cover(used, t) \subseteq Cover(used, p)
<1> DEFINE Q == {q \in Points(used) : a < q /\ q <= t}
<1>1. IsFiniteSet(Points(used)) /\ Points(used) \subseteq Int
  BY FinitePoints
<1>2. IsFiniteSet(Q) /\ Q \in SUBSET Int
  BY <1>1, FS_Subset
<1>3. \A e \in used : e.start \in Int /\ e.end \in Int /\ (a < e.start /\ e.start <= t => e.start \in Q)
  BY FinitePoints DEF Spans
<1>4. \A q \in Q : a < q /\ q <= t
  OBVIOUS
<1> HIDE DEF Q
<1>5. CASE Q = {}
  BY <1>3, <1>5 DEF Cover
<1>6. CASE Q # {}
  <2>1. Max(Q) \in Q /\ \A q \in Q : q <= Max(Q)
    BY <1>2, <1>6, Extremes
  <2> DEFINE m == Max(Q)
  <2>2. m \in Int /\ m \in Q /\ a < m /\ m <= t /\ \A q \in Q : q <= m
    BY <1>2, <1>4, <2>1
  <2> HIDE DEF m
  <2>3. Cover(used, t) \subseteq Cover(used, m)
    BY <1>3, <2>2 DEF Cover
  <2> QED BY <2>2, <2>3 DEF Q
<1> QED BY <1>5, <1>6 DEF Q

LEMMA UsedAtTotal ==
  ASSUME TypeOK, NEW used, IsFiniteSet(used), used \subseteq Spans
  PROVE  \A t : UsedAt(used, t) = Total(program, Cover(used, t)) /\ UsedAt(used, t) \in Nat
<1> TAKE t
<1>1. UsedAt(used, t) = Total(program, Cover(used, t))
  BY UsageTotal DEF UsedAt, Cover
<1>2. Cover(used, t) \in SUBSET used
  BY DEF Cover
<1>3. program \in [Job -> Programs] /\ \A e \in used : e.job \in Job
  BY DEF TypeOK, Spans
<1> QED BY <1>1, <1>2, <1>3, TotalMonotone

\* Where less is open less is used.
LEMMA UsedAtMonotone ==
  ASSUME TypeOK, NEW used, NEW t, NEW p, IsFiniteSet(used), used \subseteq Spans,
         Cover(used, t) \subseteq Cover(used, p)
  PROVE  UsedAt(used, t) <= UsedAt(used, p)
<1>1. Cover(used, p) \in SUBSET used
  BY DEF Cover
<1>2. IsFiniteSet(Cover(used, p)) /\ \A e \in Cover(used, p) : e.job \in Job
  BY <1>1, FS_Subset DEF Spans
<1>3. program \in [Job -> Programs]
  BY DEF TypeOK
<1>4. Total(program, Cover(used, t)) <= Total(program, Cover(used, p))
  BY <1>2, <1>3, TotalMonotone
<1> QED BY <1>4, UsedAtTotal

\* One more run uses no more than what it needs itself, and that while it is open.
LEMMA UsedAtAdd ==
  ASSUME TypeOK, NEW used, NEW x, NEW t, IsFiniteSet(used), used \subseteq Spans, x \in Spans
  PROVE  /\ UsedAt(used \cup {x}, t) <= UsedAt(used, t) + program[x.job].usage
         /\ ~(x.start <= t /\ t < x.end) => UsedAt(used \cup {x}, t) = UsedAt(used, t)
<1> DEFINE S == Cover(used, t)
           T == Cover(used \cup {x}, t)
<1>1. IsFiniteSet(used \cup {x}) /\ used \cup {x} \subseteq Spans
  BY FS_AddElement
<1>2. UsedAt(used, t) = Total(program, S) /\ UsedAt(used \cup {x}, t) = Total(program, T)
  BY <1>1, UsedAtTotal
<1>3. CASE ~(x.start <= t /\ t < x.end)
  <2>1. T = S
    BY <1>3 DEF Cover
  <2>2. program[x.job].usage \in Nat /\ Total(program, S) \in Nat
    <3>1. x.job \in Job
      BY DEF Spans
    <3> QED BY <1>2, <3>1, UsedAtTotal, Types
  <2> QED BY <1>2, <2>1, <2>2
<1>4. CASE x.start <= t /\ t < x.end
  <2>1. T = S \cup {x}
    BY <1>4 DEF Cover
  <2>2. S \in SUBSET used
    BY DEF Cover
  <2> HIDE DEF S, T
  <2>3. IsFiniteSet(S) /\ (\A e \in S : e.job \in Job) /\ x.job \in Job
    BY <2>2, FS_Subset DEF Spans
  <2>4. program \in [Job -> Programs]
    BY DEF TypeOK
  <2>5. Total(program, S \cup {x}) <= Total(program, S) + program[x.job].usage
    BY <2>3, <2>4, TotalAdd
  <2> QED BY <1>2, <1>4, <2>1, <2>5
<1> QED BY <1>3, <1>4

\* Whatever place e is given, it is itself that is given one.
LEMMA PlaceKeeps ==
  ASSUME TypeOK, NEW used, NEW e, IsFiniteSet(used), used \subseteq Spans, e \in Entries
  PROVE  /\ Place(used, e) \in Entries /\ Place(used, e).job = e.job
         /\ Span(Place(used, e)) \in Spans
<1> DEFINE open == {t \in {e.start} \cup {p \in Points(used) : p > e.start /\ Change(used, p) < 0} :
                      Fits(used, e, t)}
           b == Begin(used, e, Min(open))
           p == Place(used, e)
<1>1. p = IF options.max_usage = 0 THEN e
          ELSE IF open = {} THEN [e EXCEPT !.blocked = TRUE]
          ELSE [e EXCEPT !.start = b, !.end = b + e.end - e.start]
  BY DEF Place
<1>2. IsFiniteSet(open) /\ open \in SUBSET Int
  <2>1. IsFiniteSet(Points(used)) /\ Points(used) \subseteq Int
    BY FinitePoints
  <2>2. IsFiniteSet({e.start} \cup Points(used))
    BY <2>1, FS_Singleton, FS_Union
  <2>3. {e.start} \cup Points(used) \subseteq Int
    BY <2>1 DEF Entries
  <2>4. open \in SUBSET ({e.start} \cup Points(used))
    OBVIOUS
  <2> HIDE DEF open
  <2> QED BY <2>2, <2>3, <2>4, FS_Subset
<1> HIDE DEF open, p
<1>3. open # {} => Min(open) \in Int
  BY <1>2, Extremes
<1>4. open # {} => b \in Int
  <2>1. \A t \in Int : Begin(used, e, t) \in Int
    <3>1. \A t : Gap(used, t) \in Nat
      BY Option DEF Gap
    <3> QED BY <3>1 DEF Begin
  <2> QED BY <1>3, <2>1
<1> HIDE DEF b
<1>5. p \in Entries /\ p.job = e.job
  <2>1. CASE options.max_usage = 0
    BY <1>1, <2>1
  <2>2. CASE options.max_usage # 0 /\ open = {}
    BY <1>1, <2>2 DEF Entries
  <2>3. CASE options.max_usage # 0 /\ open # {}
    <3>1. p = [e EXCEPT !.start = b, !.end = b + e.end - e.start] /\ b \in Int
      BY <1>1, <1>4, <2>3
    <3>2. b + e.end - e.start \in Int
      BY <3>1 DEF Entries
    <3> QED BY <3>1, <3>2 DEF Entries
  <2> QED BY <2>1, <2>2, <2>3
<1>6. Span(p) \in Spans
  BY <1>5 DEF Span, Spans, Entries
<1> QED BY <1>5, <1>6 DEF p

\* A place that is found leaves the usage within its bound at every time.
LEMMA PlaceFits ==
  ASSUME TypeOK, NEW used, NEW e, NEW t, IsFiniteSet(used), used \subseteq Spans, e \in Entries,
         t \in Int, options.max_usage > 0, ~Place(used, e).blocked,
         UsedAt(used, t) <= options.max_usage
  PROVE  UsedAt(used \cup {Span(Place(used, e))}, t) <= options.max_usage
<1> DEFINE open == {a \in {e.start} \cup {p \in Points(used) : p > e.start /\ Change(used, p) < 0} :
                      Fits(used, e, a)}
           a == Min(open)
           b == Begin(used, e, a)
           p == Place(used, e)
           x == Span(p)
<1> SUFFICES UsedAt(used \cup {x}, t) <= options.max_usage
  OBVIOUS
<1>1. p = IF open = {} THEN [e EXCEPT !.blocked = TRUE]
          ELSE [e EXCEPT !.start = b, !.end = b + e.end - e.start]
  BY DEF Place
<1>2. open # {}
  <2>1. [e EXCEPT !.blocked = TRUE].blocked
    BY DEF Entries
  <2> QED BY <1>1, <2>1
<1>3. IsFiniteSet(open) /\ open \in SUBSET Int
  <2>1. IsFiniteSet(Points(used)) /\ Points(used) \subseteq Int
    BY FinitePoints
  <2>2. IsFiniteSet({e.start} \cup Points(used))
    BY <2>1, FS_Singleton, FS_Union
  <2>3. {e.start} \cup Points(used) \subseteq Int
    BY <2>1 DEF Entries
  <2>4. open \in SUBSET ({e.start} \cup Points(used))
    OBVIOUS
  <2> HIDE DEF open
  <2> QED BY <2>2, <2>3, <2>4, FS_Subset
<1>4. \A c \in open : Fits(used, e, c)
  OBVIOUS
<1> HIDE DEF open
<1>5. a \in Int /\ Fits(used, e, a)
  BY <1>2, <1>3, <1>4, Extremes
<1> HIDE DEF a
<1>6. b \in Int /\ a <= b
  <2>1. Gap(used, a) \in Nat
    BY Option DEF Gap
  <2> QED BY <1>5, <2>1 DEF Begin
<1>7. /\ x.job = e.job /\ x.start = b /\ x.end = b + (e.end - e.start) /\ e.job \in Job
      /\ e.end - e.start \in Int
  <2>1. p = [e EXCEPT !.start = b, !.end = b + e.end - e.start]
    BY <1>1, <1>2
  <2> HIDE DEF p, b
  <2>2. p.job = e.job /\ p.start = b /\ p.end = b + e.end - e.start
    BY <2>1 DEF Entries
  <2>3. b + e.end - e.start = b + (e.end - e.start) /\ e.end - e.start \in Int /\ e.job \in Job
    BY <1>6 DEF Entries
  <2> QED BY <2>2, <2>3 DEF Span
<1>8. x \in Spans
  BY PlaceKeeps
<1>9. \A c \in {a} \cup {q \in Points(used) : a < q /\ q < b + (e.end - e.start)} :
         UsedAt(used, c) + program[e.job].usage <= options.max_usage
  BY <1>5 DEF Fits
<1> HIDE DEF b, x, p
<1>10. UsedAt(used, t) \in Nat /\ program[e.job].usage \in Nat /\ options.max_usage \in Nat
  BY <1>7, UsedAtTotal, Types, Option
<1>11. /\ UsedAt(used \cup {x}, t) <= UsedAt(used, t) + program[x.job].usage
       /\ ~(x.start <= t /\ t < x.end) => UsedAt(used \cup {x}, t) = UsedAt(used, t)
  BY <1>8, UsedAtAdd
<1>12. UsedAt(used \cup {x}, t) \in Nat
  BY <1>8, UsedAtTotal, FS_AddElement
<1>13. CASE x.start <= t /\ t < x.end
  <2>1. a <= t
    BY <1>5, <1>6, <1>7, <1>13
  <2>2. PICK c \in {a} \cup {q \in Points(used) : a < q /\ q <= t} :
          Cover(used, t) \subseteq Cover(used, c)
    BY <1>5, <2>1, LatestPoint
  <2>3. c \in {a} \cup {q \in Points(used) : a < q /\ q < b + (e.end - e.start)}
    <3>1. \A q \in Points(used) : q \in Int
      BY FinitePoints
    <3> QED BY <1>5, <1>6, <1>7, <1>13, <2>2, <3>1
  <2>4. UsedAt(used, t) <= UsedAt(used, c) /\ UsedAt(used, c) \in Nat
    BY <2>2, UsedAtMonotone, UsedAtTotal
  <2>5. UsedAt(used, c) + program[e.job].usage <= options.max_usage
    BY <1>9, <2>3
  <2>6. UsedAt(used \cup {x}, t) <= UsedAt(used, t) + program[e.job].usage
    BY <1>7, <1>11
  <2> QED BY <1>10, <1>12, <2>4, <2>5, <2>6
<1>14. CASE ~(x.start <= t /\ t < x.end)
  BY <1>11, <1>14
<1> QED BY <1>13, <1>14

States == {s \in [used : SUBSET Spans, plan : Seq(Entries)] : IsFiniteSet(s.used)}

\* The first k runs of plan have been given their places, beside those that are known.
Filled(known, plan, k, s) ==
    /\ s \in States
    /\ Len(s.plan) = k
    /\ \A i \in 1..k : /\ s.plan[i].job = plan[i].job
                       /\ s.plan[i].blocked \/ Span(s.plan[i]) \in s.used
    /\ known \subseteq s.used
    /\ \A t \in Int :
         options.max_usage > 0 /\ UsedAt(known, t) <= options.max_usage
         => UsedAt(s.used, t) <= options.max_usage

LEMMA AddState ==
  ASSUME TypeOK, NEW s \in States, NEW e \in Entries
  PROVE  Add(s, e) \in States
<1> DEFINE p == Place(s.used, e)
           u == IF p.blocked THEN s.used ELSE s.used \cup {Span(p)}
<1>1. IsFiniteSet(s.used) /\ s.used \subseteq Spans /\ s.plan \in Seq(Entries)
  BY DEF States
<1>2. p \in Entries /\ Span(p) \in Spans
  BY <1>1, PlaceKeeps
<1>3. Add(s, e) = [used |-> u, plan |-> Append(s.plan, p)]
  BY DEF Add
<1> HIDE DEF p
<1>4. IsFiniteSet(u) /\ u \subseteq Spans
  BY <1>1, <1>2, FS_AddElement
<1>5. Append(s.plan, p) \in Seq(Entries)
  BY <1>1, <1>2, AppendProperties
<1> HIDE DEF u
<1> QED BY <1>3, <1>4, <1>5 DEF States

\* One more run is given its place.
LEMMA AddOne ==
  ASSUME TypeOK, NEW known, NEW plan \in Seq(Entries), NEW k \in Nat, NEW s,
         k + 1 \in DOMAIN plan, Filled(known, plan, k, s)
  PROVE  Filled(known, plan, k + 1, Add(s, plan[k + 1]))
<1> DEFINE e == plan[k + 1]
           p == Place(s.used, e)
           u == IF p.blocked THEN s.used ELSE s.used \cup {Span(p)}
           q == Append(s.plan, p)
           v == Add(s, e)
<1>1. /\ IsFiniteSet(s.used) /\ s.used \subseteq Spans /\ s.plan \in Seq(Entries)
      /\ s \in States /\ Len(s.plan) = k
  BY DEF Filled, States
<1>2. e \in Entries
  BY EntryOf
<1>3. p \in Entries /\ p.job = e.job /\ Span(p) \in Spans
  BY <1>1, <1>2, PlaceKeeps
<1>4. v.used = u /\ v.plan = q
  BY DEF Add
<1>5. v \in States
  BY <1>1, <1>2, AddState
<1>6. \A t \in Int : options.max_usage > 0 /\ UsedAt(s.used, t) <= options.max_usage
         => UsedAt(u, t) <= options.max_usage
  <2>1. SUFFICES ASSUME NEW t \in Int, options.max_usage > 0,
                        UsedAt(s.used, t) <= options.max_usage
                 PROVE  UsedAt(u, t) <= options.max_usage
    OBVIOUS
  <2>2. CASE p.blocked
    BY <2>1, <2>2
  <2>3. CASE ~p.blocked
    <3>1. UsedAt(s.used \cup {Span(p)}, t) <= options.max_usage
      BY <1>1, <1>2, <2>1, <2>3, PlaceFits
    <3> QED BY <2>3, <3>1
  <2> QED BY <2>2, <2>3
<1>7. s.used \subseteq u /\ (p.blocked \/ Span(p) \in u)
  OBVIOUS
<1>e. e = plan[k + 1]
  OBVIOUS
<1> HIDE DEF v, p, e
<1>8. Len(q) = k + 1 /\ q[k + 1] = p /\ \A i \in 1..k : q[i] = s.plan[i]
  BY <1>1, <1>3, AppendProperties
<1> HIDE DEF q, u
<1>9. \A i \in 1..(k + 1) : i \in 1..k \/ i = k + 1
  OBVIOUS
<1>10. \A i \in 1..k : s.plan[i].job = plan[i].job /\ (s.plan[i].blocked \/ Span(s.plan[i]) \in s.used)
  BY DEF Filled
<1>11. ASSUME NEW i \in 1..(k + 1)
       PROVE  q[i].job = plan[i].job /\ (q[i].blocked \/ Span(q[i]) \in u)
  <2>1. CASE i \in 1..k
    BY <1>7, <1>8, <1>10, <2>1
  <2>2. CASE i = k + 1
    BY <1>3, <1>7, <1>8, <1>e, <2>2
  <2> QED BY <1>9, <2>1, <2>2
<1>12. known \subseteq u
  BY <1>7 DEF Filled
<1>13. \A t \in Int : options.max_usage > 0 /\ UsedAt(known, t) <= options.max_usage
         => UsedAt(u, t) <= options.max_usage
  BY <1>6 DEF Filled
<1>14. Filled(known, plan, k + 1, v)
  BY <1>4, <1>5, <1>8, <1>11, <1>12, <1>13 DEF Filled
<1> QED BY <1>14 DEF v, e

\* Every run of a plan is given its place.
LEMMA AddAll ==
  ASSUME TypeOK, NEW known, IsFiniteSet(known), known \subseteq Spans, NEW plan \in Seq(Entries)
  PROVE  Filled(known, plan, Len(plan), FoldLeft(Add, [used |-> known, plan |-> <<>>], plan))
<1> DEFINE n == Len(plan)
           base == [used |-> known, plan |-> <<>>]
           V == States
           G == [p \in (1..n) \X V |-> Add(p[2], plan[p[1]])]
           F(iter) == [T \in SUBSET DOMAIN plan |->
                         IF T = {} THEN base ELSE Add(iter[T \ {Max(T)}], plan[Max(T)])]
           it == CHOOSE iter : iter = F(iter)
<1>1. n \in Nat /\ DOMAIN plan = 1..n
  BY LenProperties
<1>2. \A k \in 1..n, v \in V : G[<<k, v>>] \in V /\ G[<<k, v>>] = Add(v, plan[k])
  BY <1>1, AddState, EntryOf
<1> HIDE DEF G, V
<1>3. PICK iter \in [SUBSET (1..n) -> V] : Chain(iter, n, base, G)
  <2>1. base \in V
    BY EmptySeq DEF V, States
  <2>2. \E iter \in [SUBSET (1..n) -> V] : Chain(iter, n, base, G)
    <3> HIDE DEF n, base
    <3> QED BY <1>1, <1>2, <2>1, ChainExists
  <2> QED BY <2>2
<1> HIDE DEF base
<1>4. \A T \in SUBSET (1..n) : T # {} => Max(T) \in T
  BY <1>1, MaxMember
<1>5. iter = F(iter)
  <2>1. SUFFICES ASSUME NEW T \in SUBSET (1..n), T # {}
                 PROVE  iter[T] = Add(iter[T \ {Max(T)}], plan[Max(T)])
    BY <1>1, <1>3 DEF Chain
  <2>2. Max(T) \in 1..n /\ iter[T \ {Max(T)}] \in V
    BY <1>3, <1>4, <2>1
  <2>3. iter[T] = G[<<Max(T), iter[T \ {Max(T)}]>>]
    BY <1>3, <2>1 DEF Chain
  <2> QED BY <1>2, <2>2, <2>3
<1>6. it = F(it)
  <2> HIDE DEF F
  <2> QED BY <1>5
<1>7. FoldLeft(Add, base, plan) = it[1..n]
  BY <1>1 DEF FoldLeft, MapThenFoldSet
<1> HIDE DEF it
<1> DEFINE B == {k \in Nat : k <= n => Filled(known, plan, k, it[1..k])}
<1>8. 0 \in B
  <2>1. it[1..0] = base
    BY <1>6
  <2>2. Filled(known, plan, 0, base)
    BY EmptySeq DEF Filled, States, base
  <2> QED BY <2>1, <2>2
<1>9. \A k \in Nat : k \in B => k + 1 \in B
  <2> HIDE DEF n
  <2>1. SUFFICES ASSUME NEW k \in Nat, Filled(known, plan, k, it[1..k]), k + 1 <= n
                 PROVE  Filled(known, plan, k + 1, it[1..(k + 1)])
    BY <1>1
  <2>2. it[1..(k + 1)] = Add(it[1..k], plan[k + 1])
    <3>1. 1..(k + 1) \in SUBSET DOMAIN plan
      BY <1>1, <2>1
    <3>2. it[1..(k + 1)] = Add(it[(1..(k + 1)) \ {Max(1..(k + 1))}], plan[Max(1..(k + 1))])
      <4>1. 1..(k + 1) # {}
        BY PrefixMax
      <4> QED BY <1>6, <3>1, <4>1
    <3> QED BY <3>2, PrefixMax
  <2>3. k + 1 \in DOMAIN plan
    BY <1>1, <2>1
  <2> QED BY <2>1, <2>2, <2>3, AddOne
<1>10. \A k \in Nat : k \in B
  <2> HIDE DEF B
  <2> QED BY <1>8, <1>9, Induct
<1>11. Filled(known, plan, n, it[1..n])
  BY <1>1, <1>10
<1> QED BY <1>7, <1>11 DEF base

-----------------------------------------------------------------------------
(* The pause between programs *)

\* The program that ended last, and when.
LEMMA LastOfType ==
  ASSUME TypeOK, NEW ran \in Seq(Records)
  PROVE  LastOf(ran).program \in Nat /\ LastOf(ran).end \in Int
<1> DEFINE I == {i \in 1..Len(ran) : \A k \in DOMAIN ran : ran[k].end <= ran[i].end}
           at == SelectInSeq(ran, LAMBDA r : \A k \in DOMAIN ran : ran[k].end <= r.end)
<1>1. DOMAIN ran = 1..Len(ran) /\ Len(ran) \in Nat
  BY LenProperties
<1>2. at = IF I # {} THEN Min(I) ELSE 0
  BY DEF SelectInSeq
<1>3. I # {} => at \in I
  <2>1. I \in SUBSET Int /\ IsFiniteSet(I)
    <3>1. IsFiniteSet(1..Len(ran))
      BY <1>1, FS_Interval
    <3> QED BY <3>1, FS_Subset
  <2> HIDE DEF I, at
  <2> QED BY <1>2, <2>1, Extremes
<1>4. LastOf(ran) = IF at = 0 THEN [program |-> 0, end |-> 0]
                    ELSE [program |-> program[ran[at].job].program, end |-> ran[at].end]
  BY DEF LastOf
<1>5. at = 0 \/ at \in DOMAIN ran
  BY <1>1, <1>2, <1>3
<1> HIDE DEF at
<1>6. CASE at = 0
  BY <1>4, <1>6
<1>7. CASE at # 0
  <2>1. ran[at] \in Records
    BY <1>1, <1>5, <1>7, ElementOfSeq
  <2>2. ran[at].job \in Job /\ ran[at].end \in Int
    BY <2>1 DEF Records
  <2>3. program[ran[at].job].program \in Nat
    BY <2>2 DEF TypeOK, Programs
  <2> QED BY <1>4, <1>7, <2>2, <2>3
<1> QED BY <1>6, <1>7

LEMMA LastProgramType ==
  ASSUME TypeOK, NEW l \in Seq(Records)
  PROVE  LastProgram(l).program \in Nat /\ LastProgram(l).end \in Int
<1> DEFINE ran == Processed(l)
           I == {i \in DOMAIN ran : ran[i].job \in Scheduled}
<1>1. ran \in Seq(Records)
  BY ProcessedAll
<1>2. I \in SUBSET DOMAIN ran
  OBVIOUS
<1>3. LastProgram(l) = LastOf(Part(ran, I))
  BY DEF LastProgram
<1> HIDE DEF ran, I
<1>4. Part(ran, I) \in Seq(Records)
  BY <1>1, <1>2, Parts
<1> QED BY <1>3, <1>4, LastOfType

Shifting(plan) == [program : Nat, end : Int, shift : [DOMAIN plan -> Int]]

\* An occurrence has a first start and a last end.
LEMMA OccurrenceType ==
  ASSUME TypeOK, NEW plan \in Seq(Entries), NEW i \in Automatic(plan)
  PROVE  /\ Name(plan, i) \in Nat /\ First(plan, i) \in Int /\ End(plan, i) \in Int
         /\ Occurrence(plan, i) \subseteq Automatic(plan)
         /\ Min(Occurrence(plan, i)) \in Automatic(plan)
<1> DEFINE O == Occurrence(plan, i)
           f == [k \in O |-> plan[k].start]
           g == [k \in O |-> plan[k].end]
<1>1. IsFiniteSet(DOMAIN plan) /\ DOMAIN plan \subseteq Int
  BY LenProperties, FS_Interval
<1>2. i \in DOMAIN plan /\ O \subseteq Automatic(plan) /\ O \subseteq DOMAIN plan /\ i \in O
  BY DEF Automatic, Occurrence
<1>3. Name(plan, i) \in Nat
  <2>1. plan[i].job \in Job
    BY <1>2, EntryOf DEF Entries
  <2> QED BY <2>1 DEF Name, TypeOK, Programs
<1>4. \A k \in O : plan[k].start \in Int /\ plan[k].end \in Int
  BY <1>2, EntryOf DEF Entries
<1> HIDE DEF O
<1>5. IsFiniteSet(O) /\ O \in SUBSET Int
  BY <1>1, <1>2, FS_Subset
<1>6. IsFiniteSet({f[k] : k \in O}) /\ IsFiniteSet({g[k] : k \in O})
  <2> HIDE DEF f, g
  <2> QED BY <1>5, Images
<1>7. /\ {f[k] : k \in O} \in SUBSET Int /\ {f[k] : k \in O} # {}
      /\ {g[k] : k \in O} \in SUBSET Int /\ {g[k] : k \in O} # {}
  BY <1>2, <1>4
<1>8. First(plan, i) = Min({f[k] : k \in O}) /\ End(plan, i) = Max({g[k] : k \in O})
  BY DEF First, End, O
<1> HIDE DEF f, g
<1>9. First(plan, i) \in Int
  BY <1>6, <1>7, <1>8, Extremes
<1>10. End(plan, i) \in Int
  BY <1>6, <1>7, <1>8, Extremes
<1>11. Min(O) \in O
  BY <1>2, <1>5, Extremes
<1> QED BY <1>2, <1>3, <1>9, <1>10, <1>11 DEF O

\* What an occurrence is put off by is a number.
LEMMA PutOffType ==
  ASSUME TypeOK, NEW plan \in Seq(Entries), NEW s \in Shifting(plan), NEW i \in Automatic(plan)
  PROVE  PutOff(plan, s, i) \in Shifting(plan)
<1> DEFINE shift == IF s.program \notin {0, Name(plan, i)}
                       /\ First(plan, i) < s.end + options.program_pause
                    THEN s.end + options.program_pause - First(plan, i) ELSE 0
           end == End(plan, i) + shift
           last == s.program = 0 \/ end > s.end
           moved == [k \in DOMAIN plan |-> IF k \in Occurrence(plan, i) THEN shift ELSE s.shift[k]]
<1>1. PutOff(plan, s, i) = [program |-> IF last THEN Name(plan, i) ELSE s.program,
                            end |-> IF last THEN end ELSE s.end, shift |-> moved]
  BY DEF PutOff
<1>2. s.program \in Nat /\ s.end \in Int /\ s.shift \in [DOMAIN plan -> Int]
  BY DEF Shifting
<1>3. /\ Name(plan, i) \in Nat /\ First(plan, i) \in Int /\ End(plan, i) \in Int
      /\ options.program_pause \in Nat
  BY OccurrenceType, Option
<1>4. shift \in Int
  BY <1>2, <1>3
<1> HIDE DEF shift
<1>5. end \in Int
  BY <1>3, <1>4
<1>6. moved \in [DOMAIN plan -> Int]
  BY <1>2, <1>4
<1> HIDE DEF end, last, moved
<1> QED BY <1>1, <1>2, <1>3, <1>5, <1>6 DEF Shifting

\* Every run is moved by a number.
LEMMA ShiftsType ==
  ASSUME TypeOK, NEW l \in Seq(Records), NEW plan \in Seq(Entries)
  PROVE  Shifts(l, plan) \in [DOMAIN plan -> Int]
<1> DEFINE heads == {Min(Occurrence(plan, i)) : i \in Automatic(plan)}
           byName == Ranked(heads, [i \in heads |-> Name(plan, i)])
           key == [i \in DOMAIN byName |-> First(plan, byName[i])]
           seq == Arranged(byName, Ranked(DOMAIN byName, key))
           last == LastProgram(l)
           base == [program |-> last.program, end |-> last.end, shift |-> [i \in DOMAIN plan |-> 0]]
           n == Len(seq)
           V == Shifting(plan)
           G == [p \in (1..n) \X V |-> PutOff(plan, p[2], seq[p[1]])]
           F(iter) == [T \in SUBSET DOMAIN seq |->
                         IF T = {} THEN base ELSE PutOff(plan, iter[T \ {Max(T)}], seq[Max(T)])]
           it == CHOOSE iter : iter = F(iter)
<1>1. seq \in Seq(Automatic(plan))
  <2>1. heads \subseteq Automatic(plan)
    BY OccurrenceType
  <2>2. IsFiniteSet(Automatic(plan)) /\ Automatic(plan) \subseteq Int
    <3>1. IsFiniteSet(DOMAIN plan) /\ DOMAIN plan \subseteq Int
      BY LenProperties, FS_Interval
    <3>2. Automatic(plan) \in SUBSET DOMAIN plan
      BY DEF Automatic
    <3> QED BY <3>1, <3>2, FS_Subset
  <2> HIDE DEF heads
  <2> DEFINE name == [i \in heads |-> Name(plan, i)]
  <2>3. IsFiniteSet(heads) /\ heads \in SUBSET Int
    BY <2>1, <2>2, FS_Subset
  <2>4. name \in [heads -> Int]
    BY <2>1, OccurrenceType
  <2> HIDE DEF name
  <2>5. Enumerates(Ranked(heads, name), heads) /\ Cardinality(heads) \in Nat
    BY <2>3, <2>4, RankedAll
  <2>6. Ranked(heads, name) \in [1..Cardinality(heads) -> Automatic(plan)]
    BY <2>1, <2>5 DEF Enumerates
  <2>7. byName \in Seq(Automatic(plan))
    BY <2>5, <2>6, IsASeq DEF name
  <2> HIDE DEF byName
  <2>8. key \in [DOMAIN byName -> Int]
    <3>1. \A i \in DOMAIN byName : byName[i] \in Automatic(plan)
      BY <2>7, ElementOfSeq, LenProperties
    <3> QED BY <3>1, OccurrenceType
  <2> HIDE DEF key
  <2> QED BY <2>7, <2>8, Sorting
<1>2. Shifts(l, plan) = FoldLeft(LAMBDA s, i : PutOff(plan, s, i), base, seq).shift
  BY Zenon DEF Shifts, Sorted
<1> HIDE DEF seq
<1>3. n \in Nat /\ DOMAIN seq = 1..n /\ \A k \in 1..n : seq[k] \in Automatic(plan)
  BY <1>1, LenProperties, ElementOfSeq
<1>4. base \in V
  BY LastProgramType DEF Shifting
<1> HIDE DEF base
<1>5. \A k \in 1..n, v \in V : G[<<k, v>>] \in V /\ G[<<k, v>>] = PutOff(plan, v, seq[k])
  BY <1>3, PutOffType
<1> HIDE DEF G, V
<1>6. PICK iter \in [SUBSET (1..n) -> V] : Chain(iter, n, base, G)
  <2>1. \E iter \in [SUBSET (1..n) -> V] : Chain(iter, n, base, G)
    <3> HIDE DEF n
    <3> QED BY <1>3, <1>4, <1>5, ChainExists
  <2> QED BY <2>1
<1>7. \A T \in SUBSET (1..n) : T # {} => Max(T) \in T
  BY <1>3, MaxMember
<1>8. iter = F(iter)
  <2>1. SUFFICES ASSUME NEW T \in SUBSET (1..n), T # {}
                 PROVE  iter[T] = PutOff(plan, iter[T \ {Max(T)}], seq[Max(T)])
    BY <1>3, <1>6 DEF Chain
  <2>2. Max(T) \in 1..n /\ iter[T \ {Max(T)}] \in V
    BY <1>6, <1>7, <2>1
  <2>3. iter[T] = G[<<Max(T), iter[T \ {Max(T)}]>>]
    BY <1>6, <2>1 DEF Chain
  <2> QED BY <1>5, <2>2, <2>3
<1>9. it = F(it)
  <2> HIDE DEF F
  <2> QED BY <1>8
<1>10. FoldLeft(LAMBDA s, i : PutOff(plan, s, i), base, seq) = it[1..n]
  BY <1>3 DEF FoldLeft, MapThenFoldSet
<1> HIDE DEF it
<1> DEFINE B == {k \in Nat : k <= n => it[1..k] \in V}
<1>11. 0 \in B
  <2>1. it[1..0] = base
    BY <1>9
  <2> QED BY <1>4, <2>1
<1>12. \A k \in Nat : k \in B => k + 1 \in B
  <2> HIDE DEF n
  <2>1. SUFFICES ASSUME NEW k \in Nat, it[1..k] \in V, k + 1 <= n PROVE it[1..(k + 1)] \in V
    BY <1>3
  <2>2. it[1..(k + 1)] = PutOff(plan, it[1..k], seq[k + 1])
    <3>1. 1..(k + 1) \in SUBSET DOMAIN seq
      BY <1>3, <2>1
    <3>2. it[1..(k + 1)]
            = PutOff(plan, it[(1..(k + 1)) \ {Max(1..(k + 1))}], seq[Max(1..(k + 1))])
      <4>1. 1..(k + 1) # {}
        BY PrefixMax
      <4> QED BY <1>9, <3>1, <4>1
    <3> QED BY <3>2, PrefixMax
  <2>3. k + 1 \in 1..n
    BY <1>3, <2>1
  <2> QED BY <1>5, <2>1, <2>2, <2>3
<1>13. \A k \in Nat : k \in B
  <2> HIDE DEF B
  <2> QED BY <1>11, <1>12, Induct
<1>14. it[1..n] \in V
  BY <1>3, <1>13
<1> QED BY <1>2, <1>10, <1>14 DEF V, Shifting

\* The pause moves runs, and changes nothing else of them.
LEMMA PausedPlan ==
  ASSUME TypeOK, NEW l \in Seq(Records), NEW plan \in Seq(Entries)
  PROVE  /\ Paused(l, plan) \in Seq(Entries) /\ DOMAIN Paused(l, plan) = DOMAIN plan
         /\ \A i \in DOMAIN plan : Paused(l, plan)[i].job = plan[i].job
         /\ options.program_pause = 0 => Paused(l, plan) = plan
<1> DEFINE moved == Shifts(l, plan)
           p == [i \in DOMAIN plan |->
                   [plan[i] EXCEPT !.start = @ + moved[i], !.end = @ + moved[i]]]
<1>1. Paused(l, plan) = IF options.program_pause = 0 THEN plan ELSE p
  BY DEF Paused
<1>2. moved \in [DOMAIN plan -> Int]
  BY ShiftsType
<1> HIDE DEF moved
<1>3. \A i \in DOMAIN plan : p[i] \in Entries /\ p[i].job = plan[i].job
  <2>1. TAKE i \in DOMAIN plan
  <2>2. plan[i] \in Entries /\ moved[i] \in Int
    BY <1>2, EntryOf
  <2>3. plan[i].start + moved[i] \in Int /\ plan[i].end + moved[i] \in Int
    BY <2>2 DEF Entries
  <2> QED BY <2>2, <2>3 DEF Entries
<1>4. p \in Seq(Entries) /\ DOMAIN p = DOMAIN plan
  <2>1. DOMAIN plan = 1..Len(plan) /\ Len(plan) \in Nat
    BY LenProperties
  <2>2. p \in [1..Len(plan) -> Entries]
    BY <1>3, <2>1
  <2> HIDE DEF p
  <2> QED BY <2>1, <2>2, IsASeq
<1> HIDE DEF p
<1> QED BY <1>1, <1>3, <1>4

-----------------------------------------------------------------------------
(* The plan *)

Known(l) == {Span(l[i]) : i \in DOMAIN l}

LEMMA RecordOf ==
  ASSUME NEW l \in Seq(Records), NEW i \in DOMAIN l
  PROVE  l[i] \in Records
BY ElementOfSeq, LenProperties

LEMMA KnownType ==
  ASSUME NEW l \in Seq(Records)
  PROVE  IsFiniteSet(Known(l)) /\ Known(l) \subseteq Spans
<1> DEFINE f == [i \in DOMAIN l |-> Span(l[i])]
<1>1. IsFiniteSet(DOMAIN l)
  BY LenProperties, FS_Interval
<1>2. Known(l) = {f[i] : i \in DOMAIN l}
  BY DEF Known
<1>3. \A i \in DOMAIN l : f[i] \in Spans
  <2>1. TAKE i \in DOMAIN l
  <2>2. l[i] \in Records
    BY RecordOf
  <2> QED BY <2>2 DEF Records, Span, Spans
<1> HIDE DEF f
<1>4. IsFiniteSet({f[i] : i \in DOMAIN l})
  BY <1>1, Images
<1> QED BY <1>2, <1>3, <1>4

\* In used there is room for what a plan is based on, and for the plan.
Room(plan, known, used) ==
    /\ IsFiniteSet(used) /\ used \subseteq Spans /\ known \subseteq used
    /\ \A i \in DOMAIN plan : plan[i].blocked \/ Span(plan[i]) \in used
    /\ \A t \in Int :
         options.max_usage > 0 /\ UsedAt(known, t) <= options.max_usage
         => UsedAt(used, t) <= options.max_usage

\* What is left of a plan has the room that the plan had.
LEMMA RoomFrom ==
  ASSUME NEW s, NEW t, NEW known, NEW used, From(t, s), Room(s, known, used)
  PROVE  Room(t, known, used)
BY DEF From, Room

\* Each run that asks gets a place or is blocked, and places have room together.
LEMMA PlacedPlan ==
  ASSUME TypeOK, NEW l \in Seq(Records), NEW plan \in Seq(Entries)
  PROVE  /\ Placed(l, plan) \in Seq(Entries) /\ DOMAIN Placed(l, plan) = DOMAIN plan
         /\ \A i \in DOMAIN plan : Placed(l, plan)[i].job = plan[i].job
         /\ \E used : Room(Placed(l, plan), Known(l), used)
<1> DEFINE s == FoldLeft(Add, [used |-> Known(l), plan |-> <<>>], plan)
<1>1. Filled(Known(l), plan, Len(plan), s)
  BY KnownType, AddAll
<1>2. Placed(l, plan) = s.plan
  BY DEF Placed, Known
<1> HIDE DEF s
<1>3. DOMAIN plan = 1..Len(plan)
  BY LenProperties
<1>4. s.plan \in Seq(Entries) /\ Len(s.plan) = Len(plan) /\ IsFiniteSet(s.used) /\ s.used \subseteq Spans
  BY <1>1 DEF Filled, States
<1>5. DOMAIN s.plan = DOMAIN plan
  BY <1>3, <1>4, LenProperties
<1>6. \A i \in DOMAIN plan : /\ s.plan[i].job = plan[i].job
                             /\ s.plan[i].blocked \/ Span(s.plan[i]) \in s.used
  BY <1>1, <1>3 DEF Filled
<1>7. Room(s.plan, Known(l), s.used)
  BY <1>1, <1>4, <1>5, <1>6 DEF Filled, Room
<1> QED BY <1>2, <1>4, <1>5, <1>6, <1>7

\* No run is planned twice, or after the log has it; without a pause between programs
\* what is planned has room.
LEMMA PlanKeeps ==
  ASSUME TypeOK, NEW l \in Seq(Records)
  PROVE  /\ Plan(l) \in Seq(Entries) /\ Distinct(Plan(l))
         /\ \A k \in DOMAIN Plan(l), i \in DOMAIN l : Plan(l)[k].job # l[i].job
         /\ options.program_pause = 0 => \E used : Room(Plan(l), Known(l), used)
<1> DEFINE p1 == Asking(l)
           p2 == Placed(l, p1)
           p3 == Paused(l, p2)
           key == [i \in DOMAIN p3 |-> p3[i].start]
           p4 == Arranged(p3, Ranked(DOMAIN p3, key))
<1>1. Plan(l) = p4
  BY DEF Plan, Sorted, Asking
<1>2. /\ p1 \in Seq(Entries) /\ Distinct(p1)
      /\ \A k \in DOMAIN p1, i \in DOMAIN l : p1[k].job # l[i].job
  BY AskingPlan
<1> HIDE DEF p1
<1>3. /\ p2 \in Seq(Entries) /\ DOMAIN p2 = DOMAIN p1
      /\ \A i \in DOMAIN p1 : p2[i].job = p1[i].job
      /\ \E used : Room(p2, Known(l), used)
  BY <1>2, PlacedPlan
<1> HIDE DEF p2
<1>4. /\ p3 \in Seq(Entries) /\ DOMAIN p3 = DOMAIN p2
      /\ \A i \in DOMAIN p2 : p3[i].job = p2[i].job
      /\ options.program_pause = 0 => p3 = p2
  BY <1>3, PausedPlan
<1> HIDE DEF p3
<1>5. /\ Distinct(p3)
      /\ \A k \in DOMAIN p3, i \in DOMAIN l : p3[k].job # l[i].job
  BY <1>2, <1>3, <1>4 DEF Distinct
<1>6. key \in [DOMAIN p3 -> Int]
  <2>1. \A i \in DOMAIN p3 : p3[i].start \in Int
    BY <1>4, EntryOf DEF Entries
  <2> QED BY <2>1
<1> HIDE DEF key
<1>7. p4 \in Seq(Entries) /\ From(p4, p3)
  BY <1>4, <1>6, SortedPlan
<1> HIDE DEF p4
<1>8. Distinct(p4)
  BY <1>5, <1>7, FromDistinct
<1>9. \A k \in DOMAIN p4, i \in DOMAIN l : p4[k].job # l[i].job
  BY <1>5, <1>7 DEF From
<1>10. options.program_pause = 0 => \E used : Room(p4, Known(l), used)
  BY <1>3, <1>4, <1>7, RoomFrom
<1> QED BY <1>1, <1>7, <1>8, <1>9, <1>10

-----------------------------------------------------------------------------
(* The log *)

\* What ends is over, and what is over was begun.
Timely(l) == \A i \in DOMAIN l : l[i].start <= now /\ (~l[i].active => l[i].end <= now)

\* A run is active once.
ActiveOnce(l) ==
    \A i, k \in DOMAIN l : l[i].active /\ l[k].active /\ l[i].job = l[k].job => i = k

\* To finish runs changes nothing else in the log.
LEMMA FinishKeeps ==
  ASSUME TypeOK, NEW l, NEW S, l \in Seq(Records)
  PROVE  /\ Finish(l, now, S) \in Seq(Records) /\ DOMAIN Finish(l, now, S) = DOMAIN l
         /\ \A i \in DOMAIN l :
              /\ Finish(l, now, S)[i].job = l[i].job
              /\ Finish(l, now, S)[i].active => Finish(l, now, S)[i] = l[i] /\ l[i].job \notin S
         /\ Timely(l) => Timely(Finish(l, now, S))
         /\ ActiveOnce(l) => ActiveOnce(Finish(l, now, S))
<1> DEFINE f == Finish(l, now, S)
<1>1. DOMAIN l = 1..Len(l) /\ Len(l) \in Nat
  BY LenProperties
<1>2. now \in Nat
  BY Facts DEF TypeOK
<1>3. f = [i \in DOMAIN l |-> IF l[i].active /\ l[i].job \in S
                              THEN [l[i] EXCEPT !.end = now, !.active = FALSE] ELSE l[i]]
  BY DEF Finish
<1> HIDE DEF f
<1>4. ASSUME NEW i \in DOMAIN l
      PROVE  /\ f[i] \in Records /\ f[i].job = l[i].job /\ f[i].start = l[i].start
             /\ f[i].active => f[i] = l[i] /\ l[i].job \notin S
             /\ ~f[i].active => f[i].end = now \/ (f[i].end = l[i].end /\ ~l[i].active)
  <2>1. l[i] \in Records
    BY RecordOf
  <2>2. CASE l[i].active /\ l[i].job \in S
    <3>1. f[i] = [l[i] EXCEPT !.end = now, !.active = FALSE]
      BY <1>3, <2>2
    <3> QED BY <1>2, <2>1, <3>1 DEF Records
  <2>3. CASE ~(l[i].active /\ l[i].job \in S)
    <3>1. f[i] = l[i]
      BY <1>3, <2>3
    <3> QED BY <2>1, <2>3, <3>1
  <2> QED BY <2>2, <2>3
<1>5. f \in Seq(Records) /\ DOMAIN f = DOMAIN l
  <2>1. f \in [1..Len(l) -> Records]
    BY <1>1, <1>3, <1>4
  <2> QED BY <1>1, <2>1, IsASeq
<1>6. Timely(l) => Timely(f)
  BY <1>2, <1>4, <1>5 DEF Timely
<1>7. ActiveOnce(l) => ActiveOnce(f)
  BY <1>4, <1>5 DEF ActiveOnce
<1> QED BY <1>4, <1>5, <1>6, <1>7 DEF f

\* What is forgotten changes nothing of the rest, and with a log of runs nothing is.
LEMMA KeptKeeps ==
  ASSUME NEW l, l \in Seq(Records)
  PROVE  /\ Kept(l) \in Seq(Records) /\ From(Kept(l), l)
         /\ options.run_log => Kept(l) = l
         /\ Timely(l) => Timely(Kept(l))
         /\ ActiveOnce(l) => ActiveOnce(Kept(l))
<1> DEFINE first == Min({now} \cup {l[i].start : i \in {k \in DOMAIN l : l[k].active}})
           keep == Max({options.station_delay + options.min_runtime, Minute})
           I == {i \in DOMAIN l : first - l[i].end <= keep}
<1>1. Kept(l) = IF options.run_log THEN l ELSE Part(l, I)
  BY DEF Kept
<1>2. I \in SUBSET DOMAIN l
  OBVIOUS
<1> HIDE DEF I
<1>3. Part(l, I) \in Seq(Records) /\ From(Part(l, I), l)
  BY <1>2, Parts, RearrangedFrom
<1>4. From(l, l)
  <2>1. [i \in DOMAIN l |-> i] \in [DOMAIN l -> DOMAIN l]
    OBVIOUS
  <2> QED BY <2>1 DEF From
<1>5. Kept(l) \in Seq(Records) /\ From(Kept(l), l)
  BY <1>1, <1>3, <1>4
<1>6. Timely(l) => Timely(Kept(l))
  BY <1>5 DEF From, Timely
<1>7. ActiveOnce(l) => ActiveOnce(Kept(l))
  BY <1>5 DEF From, ActiveOnce
<1> QED BY <1>1, <1>5, <1>6, <1>7

\* The log as a pass plans on it: what is active in it was so before, and is not over.
LEMMA ClosedKeeps ==
  ASSUME TypeOK, Timely(log), ActiveOnce(log)
  PROVE  /\ Closed \in Seq(Records) /\ Timely(Closed) /\ ActiveOnce(Closed)
         /\ \A i \in DOMAIN Closed :
              Closed[i].active => /\ now < Closed[i].end
                                  /\ \E k \in DOMAIN log : log[k] = Closed[i]
         /\ options.run_log =>
              /\ DOMAIN Closed = DOMAIN log
              /\ \A i \in DOMAIN log : Closed[i].job = log[i].job
<1> DEFINE f == Finish(log, now, Over)
<1>1. log \in Seq(Records)
  BY DEF TypeOK
<1>2. \A i \in DOMAIN log : log[i].end \in Int /\ now \in Int
  <2>1. now \in Int
    BY Facts DEF TypeOK
  <2>2. TAKE i \in DOMAIN log
  <2>3. log[i] \in Records
    BY <1>1, RecordOf
  <2> QED BY <2>1, <2>3 DEF Records
<1>3. \A i \in DOMAIN log : log[i].active /\ log[i].job \notin Over => now < log[i].end
  BY <1>2 DEF Over
<1>4. CASE Over = {}
  <2>1. Closed = log
    BY <1>4 DEF Closed
  <2> QED BY <1>1, <1>3, <1>4, <2>1
<1>5. CASE Over # {}
  <2>1. Closed = Kept(f)
    BY <1>5 DEF Closed
  <2>2. /\ f \in Seq(Records) /\ DOMAIN f = DOMAIN log /\ Timely(f) /\ ActiveOnce(f)
        /\ \A i \in DOMAIN log : /\ f[i].job = log[i].job
                                 /\ f[i].active => f[i] = log[i] /\ log[i].job \notin Over
    BY <1>1, FinishKeeps
  <2> HIDE DEF f
  <2>3. /\ Kept(f) \in Seq(Records) /\ From(Kept(f), f) /\ Timely(Kept(f)) /\ ActiveOnce(Kept(f))
        /\ options.run_log => Kept(f) = f
    BY <2>2, KeptKeeps
  <2>4. ASSUME NEW i \in DOMAIN Kept(f), Kept(f)[i].active
        PROVE  now < Kept(f)[i].end /\ \E k \in DOMAIN log : log[k] = Kept(f)[i]
    <3>1. PICK k \in DOMAIN f : Kept(f)[i] = f[k]
      BY <2>3 DEF From
    <3>2. f[k] = log[k] /\ log[k].job \notin Over /\ k \in DOMAIN log
      BY <2>2, <2>4, <3>1
    <3> QED BY <1>3, <2>4, <3>1, <3>2
  <2> QED BY <2>1, <2>2, <2>3, <2>4
<1> QED BY <1>4, <1>5

\* What is due comes from the plan and is due now.
LEMMA DueKeeps ==
  ASSUME TypeOK, Closed \in Seq(Records)
  PROVE  /\ Due \in Seq(Entries) /\ Distinct(Due)
         /\ \A i \in DOMAIN Due : ~Due[i].blocked /\ Due[i].start <= now /\ now < Due[i].end
         /\ \A i \in DOMAIN Due, k \in DOMAIN Closed : Due[i].job # Closed[k].job
         /\ options.program_pause = 0 => \E used : Room(Due, Known(Closed), used)
<1> DEFINE plan == Plan(Closed)
           I == {i \in DOMAIN plan : ~plan[i].blocked /\ plan[i].start <= now /\ now < plan[i].end}
<1>1. Due = Part(plan, I)
  BY DEF Due
<1>2. /\ plan \in Seq(Entries) /\ Distinct(plan)
      /\ \A k \in DOMAIN plan, i \in DOMAIN Closed : plan[k].job # Closed[i].job
      /\ options.program_pause = 0 => \E used : Room(plan, Known(Closed), used)
  BY PlanKeeps
<1> HIDE DEF plan
<1>3. I \in SUBSET DOMAIN plan
  OBVIOUS
<1>4. \A i \in I : ~plan[i].blocked /\ plan[i].start <= now /\ now < plan[i].end
  OBVIOUS
<1> HIDE DEF I
<1>5. Due \in Seq(Entries) /\ Rearranges(Due, plan, I)
  BY <1>1, <1>2, <1>3, Parts
<1>6. From(Due, plan) /\ \A k \in DOMAIN Due : \E i \in I : Due[k] = plan[i]
  BY <1>3, <1>5, RearrangedFrom
<1>7. Distinct(Due)
  BY <1>2, <1>6, FromDistinct
<1>8. \A i \in DOMAIN Due, k \in DOMAIN Closed : Due[i].job # Closed[k].job
  BY <1>2, <1>6 DEF From
<1>9. options.program_pause = 0 => \E used : Room(Due, Known(Closed), used)
  BY <1>2, <1>6, RoomFrom
<1>10. \A i \in DOMAIN Due : ~Due[i].blocked /\ Due[i].start <= now /\ now < Due[i].end
  BY <1>4, <1>6
<1> QED BY <1>5, <1>7, <1>8, <1>9, <1>10

\* What is started is put into the log after what is there.
Begun(due) ==
    [i \in DOMAIN due |-> [job |-> due[i].job, orig |-> due[i].orig, start |-> now,
                           end |-> due[i].end, active |-> TRUE]]

\* m is the log l, continued by what is due.
Continued(m, l, due) ==
    /\ m \in Seq(Records) /\ Timely(m) /\ ActiveOnce(m)
    /\ \A i \in DOMAIN l : i \in DOMAIN m /\ m[i] = l[i]
    /\ \A i \in DOMAIN due : \E k \in DOMAIN m : m[k] = Begun(due)[i]
    /\ \A k \in DOMAIN m : \/ \E i \in DOMAIN l : m[k] = l[i]
                           \/ \E i \in DOMAIN due : m[k] = Begun(due)[i]

\* What is started is in the log after what was there, active once.
LEMMA BegunKeeps ==
  ASSUME TypeOK, NEW l, NEW due, l \in Seq(Records), due \in Seq(Entries), Timely(l), ActiveOnce(l),
         Distinct(due), \A i \in DOMAIN due : now < due[i].end,
         \A i \in DOMAIN due, k \in DOMAIN l : due[i].job # l[k].job
  PROVE  Continued(l \o Begun(due), l, due)
<1> DEFINE b == Begun(due)
           m == l \o b
<1>1. now \in Nat
  BY Facts DEF TypeOK
<1>2. DOMAIN b = DOMAIN due /\ DOMAIN due = 1..Len(due) /\ Len(due) \in Nat
  BY LenProperties DEF Begun
<1>3. \A i \in DOMAIN due :
        /\ b[i] \in Records /\ b[i].job = due[i].job /\ b[i].start = now /\ b[i].active
  <2>1. TAKE i \in DOMAIN due
  <2>2. due[i] \in Entries /\ now < due[i].end
    BY EntryOf
  <2>3. due[i].end \in Nat /\ due[i].orig \in Nat /\ due[i].job \in Job
    BY <1>1, <2>2 DEF Entries
  <2>4. b[i] = [job |-> due[i].job, orig |-> due[i].orig, start |-> now,
                end |-> due[i].end, active |-> TRUE]
    BY DEF Begun
  <2> QED BY <1>1, <2>3, <2>4 DEF Records
<1> HIDE DEF b
<1>4. b \in Seq(Records) /\ Len(b) = Len(due)
  <2>1. b \in [1..Len(due) -> Records]
    <3>1. b = [i \in DOMAIN due |-> b[i]]
      BY DEF b, Begun
    <3> QED BY <1>2, <1>3, <3>1
  <2>2. b \in Seq(Records)
    BY <1>2, <2>1, IsASeq
  <2> QED BY <1>2, <2>2, LenProperties
<1>5. /\ m \in Seq(Records) /\ Len(m) = Len(l) + Len(b)
      /\ \A i \in 1..Len(l) + Len(b) : m[i] = IF i <= Len(l) THEN l[i] ELSE b[i - Len(l)]
  BY <1>4, ConcatProperties
<1> HIDE DEF m
<1>6. /\ DOMAIN l = 1..Len(l) /\ Len(l) \in Nat /\ DOMAIN m = 1..(Len(l) + Len(b))
      /\ Len(b) \in Nat /\ DOMAIN b = 1..Len(b)
  BY <1>2, <1>4, <1>5, LenProperties
<1>7. \A i \in DOMAIN l : i \in DOMAIN m /\ m[i] = l[i]
  BY <1>5, <1>6
<1>8. ASSUME NEW i \in DOMAIN b PROVE Len(l) + i \in DOMAIN m /\ m[Len(l) + i] = b[i]
  <2>1. Len(l) + i \in 1..(Len(l) + Len(b)) /\ ~(Len(l) + i <= Len(l))
    BY <1>6
  <2>2. Len(l) + i - Len(l) = i
    BY <1>6
  <2> QED BY <1>5, <1>6, <2>1, <2>2
<1>9. ASSUME NEW k \in DOMAIN m
      PROVE  \/ k \in DOMAIN l /\ m[k] = l[k]
             \/ k - Len(l) \in DOMAIN b /\ m[k] = b[k - Len(l)] /\ k \notin DOMAIN l
  <2>1. CASE k <= Len(l)
    BY <1>5, <1>6, <2>1
  <2>2. CASE ~(k <= Len(l))
    <3>1. k - Len(l) \in 1..Len(b)
      BY <1>6, <2>2
    <3> QED BY <1>5, <1>6, <2>2, <3>1
  <2> QED BY <2>1, <2>2
<1>10. Timely(m)
  BY <1>1, <1>2, <1>3, <1>9 DEF Timely
<1>11. ActiveOnce(m)
  <2>1. SUFFICES ASSUME NEW i \in DOMAIN m, NEW k \in DOMAIN m, m[i].active, m[k].active,
                        m[i].job = m[k].job
                 PROVE  i = k
    BY DEF ActiveOnce
  <2>2. CASE i \in DOMAIN l /\ k \in DOMAIN l
    BY <1>7, <2>1, <2>2 DEF ActiveOnce
  <2>3. CASE i \in DOMAIN l /\ k \notin DOMAIN l
    <3>1. k - Len(l) \in DOMAIN due /\ m[k].job = due[k - Len(l)].job /\ m[i].job = l[i].job
      BY <1>2, <1>3, <1>7, <1>9, <2>3
    <3> QED BY <2>1, <2>3, <3>1
  <2>4. CASE i \notin DOMAIN l /\ k \in DOMAIN l
    <3>1. i - Len(l) \in DOMAIN due /\ m[i].job = due[i - Len(l)].job /\ m[k].job = l[k].job
      BY <1>2, <1>3, <1>7, <1>9, <2>4
    <3> QED BY <2>1, <2>4, <3>1
  <2>5. CASE i \notin DOMAIN l /\ k \notin DOMAIN l
    <3>1. /\ i - Len(l) \in DOMAIN due /\ m[i].job = due[i - Len(l)].job
          /\ k - Len(l) \in DOMAIN due /\ m[k].job = due[k - Len(l)].job
      BY <1>2, <1>3, <1>9, <2>5
    <3>2. i - Len(l) = k - Len(l)
      BY <2>1, <3>1 DEF Distinct
    <3> QED BY <1>6, <3>2
  <2> QED BY <2>2, <2>3, <2>4, <2>5
<1>12. \A i \in DOMAIN due : \E k \in DOMAIN m : m[k] = b[i]
  BY <1>2, <1>8
<1>13. \A k \in DOMAIN m : \/ \E i \in DOMAIN l : m[k] = l[i]
                           \/ \E i \in DOMAIN due : m[k] = b[i]
  BY <1>2, <1>9
<1>14. Continued(m, l, due)
  BY <1>5, <1>7, <1>10, <1>11, <1>12, <1>13 DEF Continued, b
<1> QED BY <1>14 DEF m, b

-----------------------------------------------------------------------------
(* What is in use *)

Running(l) == {l[i] : i \in {k \in DOMAIN l : l[k].active}}

\* What is active in the log.
LEMMA RunningType ==
  ASSUME NEW l \in Seq(Records)
  PROVE  /\ IsFiniteSet(Running(l)) /\ \A e \in Running(l) : e.job \in Job /\ e \in Records
         /\ \A e : e \in Running(l) <=> \E i \in DOMAIN l : l[i].active /\ e = l[i]
         /\ ActiveOnce(l) => \A x, y \in Running(l) : x.job = y.job => x = y
<1> DEFINE I == {k \in DOMAIN l : l[k].active}
           f == [i \in I |-> l[i]]
<1>1. IsFiniteSet(DOMAIN l)
  BY LenProperties, FS_Interval
<1>2. IsFiniteSet(I)
  BY <1>1, FS_Subset
<1>3. IsFiniteSet({f[i] : i \in I})
  <2> HIDE DEF I, f
  <2> QED BY <1>2, Images
<1>4. Running(l) = {f[i] : i \in I}
  BY DEF Running
<1>5. \A e : e \in Running(l) <=> \E i \in DOMAIN l : l[i].active /\ e = l[i]
  BY DEF Running
<1>6. \A e \in Running(l) : e \in Records /\ e.job \in Job
  <2>1. TAKE e \in Running(l)
  <2>2. e \in Records
    BY <1>5, RecordOf
  <2> QED BY <2>2 DEF Records
<1>7. ActiveOnce(l) => \A x, y \in Running(l) : x.job = y.job => x = y
  BY <1>5 DEF ActiveOnce
<1> QED BY <1>3, <1>4, <1>5, <1>6, <1>7

\* What runs in l also runs in m: it uses no more.
LEMMA RunningLess ==
  ASSUME NEW l, NEW m, NEW P, NEW Q, l \in Seq(Records), m \in Seq(Records),
         P \in [Job -> Programs], Q \in [Job -> Programs],
         \A j \in Job : P[j].usage = Q[j].usage,
         ActiveOnce(l), \A e \in Running(l) : \E d \in Running(m) : d.job = e.job
  PROVE  Total(P, Running(l)) <= Total(Q, Running(m))
<1>1. /\ IsFiniteSet(Running(l)) /\ IsFiniteSet(Running(m))
      /\ \A e \in Running(l) : e.job \in Job
      /\ \A e \in Running(m) : e.job \in Job
      /\ \A x, y \in Running(l) : x.job = y.job => x = y
  BY RunningType
<1> QED BY <1>1, TotalByJob

\* What is open at t.
LEMMA CoverType ==
  ASSUME NEW used, NEW t, IsFiniteSet(used), used \subseteq Spans
  PROVE  IsFiniteSet(Cover(used, t)) /\ \A e \in Cover(used, t) : e.job \in Job
<1>1. Cover(used, t) \in SUBSET used
  BY DEF Cover
<1> QED BY <1>1, FS_Subset DEF Spans

\* What a plan takes as open now is what is active.
LEMMA KnownNow ==
  ASSUME TypeOK, NEW l, l \in Seq(Records), Timely(l), ActiveOnce(l)
  PROVE  UsedAt(Known(l), now) <= Total(program, Running(l))
<1> DEFINE S == Cover(Known(l), now)
           T == Running(l)
<1>1. IsFiniteSet(S) /\ \A e \in S : e.job \in Job
  BY KnownType, CoverType
<1>2. IsFiniteSet(T) /\ \A e \in T : e.job \in Job
  BY RunningType
<1>3. now \in Int /\ \A i \in DOMAIN l : l[i].end \in Int
  <2>1. now \in Int
    BY Facts DEF TypeOK
  <2>2. ASSUME NEW i \in DOMAIN l PROVE l[i].end \in Int
    <3>1. l[i] \in Records
      BY RecordOf
    <3> QED BY <3>1 DEF Records
  <2> QED BY <2>1, <2>2
<1>4. ASSUME NEW x \in S
      PROVE  \E i \in DOMAIN l : l[i].active /\ x = Span(l[i]) /\ x.job = l[i].job
  <2>1. PICK i \in DOMAIN l : x = Span(l[i])
    BY DEF Cover, Known
  <2>2. x.job = l[i].job /\ x.end = l[i].end
    BY <2>1 DEF Span
  <2>3. now < l[i].end
    BY <2>2 DEF Cover
  <2>4. l[i].active
    BY <1>3, <2>3 DEF Timely
  <2> QED BY <2>1, <2>2, <2>4
<1>5. \A x, y \in S : x.job = y.job => x = y
  <2>1. SUFFICES ASSUME NEW x \in S, NEW y \in S, x.job = y.job PROVE x = y
    OBVIOUS
  <2>2. PICK i \in DOMAIN l : l[i].active /\ x = Span(l[i]) /\ x.job = l[i].job
    BY <1>4
  <2>3. PICK k \in DOMAIN l : l[k].active /\ y = Span(l[k]) /\ y.job = l[k].job
    BY <1>4
  <2>4. i = k
    BY <2>1, <2>2, <2>3 DEF ActiveOnce
  <2> QED BY <2>2, <2>3, <2>4
<1>6. \A x \in S : \E y \in T : y.job = x.job
  BY <1>4, RunningType
<1>7. program \in [Job -> Programs]
  BY DEF TypeOK
<1> HIDE DEF S, T
<1>8. Total(program, S) <= Total(program, T)
  BY <1>1, <1>2, <1>5, <1>6, <1>7, TotalByJob
<1>9. UsedAt(Known(l), now) = Total(program, S)
  BY KnownType, UsedAtTotal DEF S
<1> QED BY <1>8, <1>9 DEF T

\* With what is due the bound holds, if it held before.
LEMMA DueFits ==
  ASSUME TypeOK, NEW l, NEW due, NEW m, NEW used, l \in Seq(Records), m \in Seq(Records),
         due \in Seq(Entries), Timely(l), ActiveOnce(l), ActiveOnce(m),
         \A i \in DOMAIN l : l[i].active => now < l[i].end,
         \A i \in DOMAIN due : ~due[i].blocked /\ due[i].start <= now /\ now < due[i].end,
         Room(due, Known(l), used), options.max_usage > 0,
         Total(program, Running(l)) <= options.max_usage,
         \A e \in Running(m) : \/ \E i \in DOMAIN l : l[i].active /\ e.job = l[i].job
                               \/ \E i \in DOMAIN due : e.job = due[i].job
  PROVE  Total(program, Running(m)) <= options.max_usage
<1> DEFINE S == Running(m)
           T == Cover(used, now)
<1>1. IsFiniteSet(used) /\ used \subseteq Spans /\ Known(l) \subseteq used
  BY DEF Room
<1>2. IsFiniteSet(T) /\ \A e \in T : e.job \in Job
  BY <1>1, CoverType
<1>3. /\ IsFiniteSet(S) /\ \A e \in S : e.job \in Job
      /\ \A x, y \in S : x.job = y.job => x = y
  BY RunningType
<1>4. ASSUME NEW i \in DOMAIN l, l[i].active PROVE \E y \in T : y.job = l[i].job
  <2>1. Span(l[i]) \in used
    BY <1>1 DEF Known
  <2>2. Span(l[i]).start <= now /\ now < Span(l[i]).end /\ Span(l[i]).job = l[i].job
    BY <1>4 DEF Span, Timely
  <2>3. Span(l[i]) \in T
    BY <2>1, <2>2 DEF Cover
  <2> QED BY <2>2, <2>3
<1>5. ASSUME NEW i \in DOMAIN due PROVE \E y \in T : y.job = due[i].job
  <2>1. Span(due[i]) \in used
    BY DEF Room
  <2>2. Span(due[i]).start <= now /\ now < Span(due[i]).end /\ Span(due[i]).job = due[i].job
    BY DEF Span
  <2>3. Span(due[i]) \in T
    BY <2>1, <2>2 DEF Cover
  <2> QED BY <2>2, <2>3
<1>6. \A x \in S : \E y \in T : y.job = x.job
  BY <1>4, <1>5
<1>7. program \in [Job -> Programs]
  BY DEF TypeOK
<1> HIDE DEF S, T
<1>8. Total(program, S) <= Total(program, T) /\ Total(program, S) \in Nat
  <2>1. Total(program, S) <= Total(program, T)
    BY <1>2, <1>3, <1>6, <1>7, TotalByJob
  <2>2. Total(program, S) \in Nat
    BY <1>3, <1>7, TotalMonotone
  <2> QED BY <2>1, <2>2
<1>9. UsedAt(used, now) = Total(program, T) /\ UsedAt(used, now) \in Nat
  BY <1>1, UsedAtTotal DEF T
<1>10. UsedAt(Known(l), now) <= options.max_usage
  <2>1. UsedAt(Known(l), now) <= Total(program, Running(l)) /\ UsedAt(Known(l), now) \in Nat
    BY KnownNow, KnownType, UsedAtTotal
  <2>2. Total(program, Running(l)) \in Nat
    BY <1>7, RunningType, TotalMonotone
  <2> QED BY <2>1, <2>2, Option
<1>11. UsedAt(used, now) <= options.max_usage
  <2>1. now \in Int
    BY Facts DEF TypeOK
  <2> QED BY <1>10, <2>1 DEF Room
<1> QED BY <1>8, <1>9, <1>11, Option DEF S

-----------------------------------------------------------------------------
(* The invariant *)

\* With a log of all runs what was begun is known, so that it is not begun again.
Remembered ==
    options.run_log =>
        /\ again = {}
        /\ \A j \in Job : begun[j] # Never => \E i \in DOMAIN log : log[i].job = j

\* What is active uses no more than the limit.
Limited ==
    options.program_pause = 0 /\ options.max_usage > 0
    => Total(program, Running(log)) <= options.max_usage

Inv == TypeOK /\ Timely(log) /\ ActiveOnce(log) /\ Remembered /\ Limited

LEMMA InitInv == Init => Inv
<1> SUFFICES ASSUME Init PROVE Inv
  OBVIOUS
<1>1. log = <<>> /\ DOMAIN log = {} /\ log \in Seq(Records)
  BY EmptySeq DEF Init
<1>2. TypeOK
  <2>1. program \in [Job -> Programs] /\ options \in Settings
    BY ConstantsAssumption DEF Init
  <2>2. now \in 0..MaxTime /\ requests \in 0..MaxRequests /\ 100 \in Levels /\ Never \in 0..Never
    <3>1. MaxTime \in Nat /\ MaxRequests \in Nat /\ Never \in Nat /\ 100 \in Levels
      BY Facts, ConstantsAssumption
    <3> QED BY <3>1 DEF Init
  <2>3. level \in Levels /\ disturbed \in BOOLEAN /\ again \subseteq Job
    BY <2>2 DEF Init
  <2>4. begun \in [Job -> 0..Never] /\ ended \in [Job -> 0..Never]
    BY <2>2 DEF Init
  <2> QED BY <1>1, <2>1, <2>2, <2>3, <2>4 DEF TypeOK
<1>3. Timely(log) /\ ActiveOnce(log)
  BY <1>1 DEF Timely, ActiveOnce
<1>4. Remembered
  BY DEF Init, Remembered
<1>5. Limited
  <2>1. Running(log) = {}
    BY <1>1 DEF Running
  <2>2. Total(program, Running(log)) = 0
    BY <1>2, <2>1, TotalEmpty DEF TypeOK
  <2> QED BY <1>2, <2>2, Option DEF Limited
<1> QED BY <1>2, <1>3, <1>4, <1>5 DEF Inv

\* The log after a pass.
Passed == IF Due = <<>> THEN Closed ELSE Kept(Closed \o Begun(Due))

\* After a pass the log is as the invariant says it is.
LEMMA PassedLog ==
  ASSUME Inv
  PROVE  /\ Passed \in Seq(Records) /\ Timely(Passed) /\ ActiveOnce(Passed)
         /\ options.run_log =>
              /\ \A i \in DOMAIN log : \E k \in DOMAIN Passed : Passed[k].job = log[i].job
              /\ \A i \in DOMAIN Due : \E k \in DOMAIN Passed : Passed[k].job = Due[i].job
              /\ \A i \in DOMAIN Due, k \in DOMAIN log : Due[i].job # log[k].job
         /\ options.program_pause = 0 /\ options.max_usage > 0
            => Total(program, Running(Passed)) <= options.max_usage
<1> DEFINE c == Closed
           d == Due
           m == c \o Begun(d)
           p == Passed
<1>1. TypeOK /\ Timely(log) /\ ActiveOnce(log) /\ log \in Seq(Records)
  BY DEF Inv, TypeOK
<1>2. /\ c \in Seq(Records) /\ Timely(c) /\ ActiveOnce(c)
      /\ \A i \in DOMAIN c : c[i].active => now < c[i].end /\ \E k \in DOMAIN log : log[k] = c[i]
      /\ options.run_log =>
           DOMAIN c = DOMAIN log /\ \A i \in DOMAIN log : c[i].job = log[i].job
  BY <1>1, ClosedKeeps
<1>3. /\ d \in Seq(Entries) /\ Distinct(d)
      /\ \A i \in DOMAIN d : ~d[i].blocked /\ d[i].start <= now /\ now < d[i].end
      /\ \A i \in DOMAIN d, k \in DOMAIN c : d[i].job # c[k].job
      /\ options.program_pause = 0 => \E used : Room(d, Known(c), used)
  BY <1>1, <1>2, DueKeeps
<1>4. p = IF d = <<>> THEN c ELSE Kept(m)
  BY DEF Passed
<1> HIDE DEF c, d, p
<1>a. Continued(m, c, d)
  <2>1. \A i \in DOMAIN d : now < d[i].end
    BY <1>3
  <2>2. TypeOK /\ c \in Seq(Records) /\ Timely(c) /\ ActiveOnce(c)
    BY <1>1, <1>2
  <2>3. d \in Seq(Entries) /\ Distinct(d) /\ \A i \in DOMAIN d, k \in DOMAIN c : d[i].job # c[k].job
    BY <1>3
  <2> QED BY <2>1, <2>2, <2>3, BegunKeeps
<1> HIDE DEF m
<1>5. /\ m \in Seq(Records) /\ Timely(m) /\ ActiveOnce(m)
      /\ \A i \in DOMAIN c : i \in DOMAIN m /\ m[i] = c[i]
      /\ \A i \in DOMAIN d : \E k \in DOMAIN m : m[k] = Begun(d)[i]
      /\ \A k \in DOMAIN m : \/ \E i \in DOMAIN c : m[k] = c[i]
                             \/ \E i \in DOMAIN d : m[k] = Begun(d)[i]
  BY <1>a DEF Continued
<1>6. \A i \in DOMAIN d : Begun(d)[i].job = d[i].job
  BY DEF Begun
<1>7. /\ Kept(m) \in Seq(Records) /\ From(Kept(m), m) /\ Timely(Kept(m)) /\ ActiveOnce(Kept(m))
      /\ options.run_log => Kept(m) = m
  BY <1>5, KeptKeeps
<1>8. p \in Seq(Records) /\ Timely(p) /\ ActiveOnce(p)
  BY <1>2, <1>4, <1>7
<1>9. \A e \in Running(p) : \/ \E i \in DOMAIN c : c[i].active /\ e.job = c[i].job
                            \/ \E i \in DOMAIN d : e.job = d[i].job
  <2>1. TAKE e \in Running(p)
  <2>2. PICK k \in DOMAIN p : p[k].active /\ e = p[k]
    BY <1>8, RunningType
  <2>3. CASE d = <<>>
    BY <1>4, <2>2, <2>3
  <2>4. CASE d # <<>>
    <3>1. PICK n \in DOMAIN m : e = m[n]
      BY <1>4, <1>7, <2>2, <2>4 DEF From
    <3> QED BY <1>5, <1>6, <2>2, <3>1
  <2> QED BY <2>3, <2>4
<1>10. ASSUME options.run_log
       PROVE  /\ \A i \in DOMAIN log : \E k \in DOMAIN p : p[k].job = log[i].job
              /\ \A i \in DOMAIN d : \E k \in DOMAIN p : p[k].job = d[i].job
              /\ \A i \in DOMAIN d, k \in DOMAIN log : d[i].job # log[k].job
  <2>1. CASE d = <<>>
    <3>1. p = c /\ DOMAIN d = {}
      BY <1>4, <2>1
    <3> QED BY <1>2, <1>10, <3>1
  <2>2. CASE d # <<>>
    <3>1. p = m
      BY <1>4, <1>7, <1>10, <2>2
    <3>2. \A i \in DOMAIN log : \E k \in DOMAIN p : p[k].job = log[i].job
      BY <1>2, <1>5, <1>10, <3>1
    <3>3. \A i \in DOMAIN d : \E k \in DOMAIN p : p[k].job = d[i].job
      BY <1>5, <1>6, <3>1
    <3>4. \A i \in DOMAIN d, k \in DOMAIN log : d[i].job # log[k].job
      BY <1>2, <1>3, <1>10
    <3> QED BY <3>2, <3>3, <3>4
  <2> QED BY <2>1, <2>2
<1>11. ASSUME options.program_pause = 0, options.max_usage > 0
       PROVE  Total(program, Running(p)) <= options.max_usage
  <2>1. PICK used : Room(d, Known(c), used)
    BY <1>3, <1>11
  <2>2. program \in [Job -> Programs]
    BY <1>1 DEF TypeOK
  <2>3. \A e \in Running(c) : \E f \in Running(log) : f.job = e.job
    <3>1. TAKE e \in Running(c)
    <3>2. PICK i \in DOMAIN c : c[i].active /\ e = c[i]
      BY <1>2, RunningType
    <3>3. PICK k \in DOMAIN log : log[k] = c[i]
      BY <1>2, <3>2
    <3>4. e \in Running(log)
      BY <1>1, <3>2, <3>3, RunningType
    <3> QED BY <3>4
  <2>4. Total(program, Running(c)) <= Total(program, Running(log))
    BY <1>1, <1>2, <2>2, <2>3, RunningLess
  <2>5. Total(program, Running(log)) <= options.max_usage
    BY <1>11 DEF Inv, Limited
  <2>6. Total(program, Running(c)) \in Nat /\ Total(program, Running(log)) \in Nat
    <3>1. /\ IsFiniteSet(Running(c)) /\ IsFiniteSet(Running(log))
          /\ \A e \in Running(c) : e.job \in Job
          /\ \A e \in Running(log) : e.job \in Job
      BY <1>1, <1>2, RunningType
    <3> QED BY <2>2, <3>1, TotalMonotone
  <2>7. Total(program, Running(c)) <= options.max_usage
    BY <1>1, <2>4, <2>5, <2>6, Option
  <2>8. \A i \in DOMAIN c : c[i].active => now < c[i].end
    BY <1>2
  <2>9. TypeOK /\ c \in Seq(Records) /\ Timely(c) /\ ActiveOnce(c)
    BY <1>1, <1>2
  <2>10. d \in Seq(Entries) /\ \A i \in DOMAIN d : ~d[i].blocked /\ d[i].start <= now /\ now < d[i].end
    BY <1>3
  <2>11. p \in Seq(Records) /\ ActiveOnce(p)
    BY <1>8
  <2> QED BY <1>9, <1>11, <2>1, <2>7, <2>8, <2>9, <2>10, <2>11, DueFits, Zenon
<1> QED BY <1>8, <1>10, <1>11 DEF p, d

LEMMA PassInv == Inv /\ Pass => Inv'
<1> SUFFICES ASSUME Inv, Pass PROVE Inv'
  OBVIOUS
<1> DEFINE started == {Due[i].job : i \in DOMAIN Due}
           p == Passed
<1>1. TypeOK /\ now \in 0..MaxTime /\ MaxTime \in Nat /\ Never \in Nat /\ now \in 0..Never
  BY Facts DEF Inv, TypeOK, Never
<1>2. /\ p \in Seq(Records) /\ Timely(p) /\ ActiveOnce(p)
      /\ options.run_log =>
           /\ \A i \in DOMAIN log : \E k \in DOMAIN p : p[k].job = log[i].job
           /\ \A i \in DOMAIN Due : \E k \in DOMAIN p : p[k].job = Due[i].job
           /\ \A i \in DOMAIN Due, k \in DOMAIN log : Due[i].job # log[k].job
      /\ options.program_pause = 0 /\ options.max_usage > 0
         => Total(program, Running(p)) <= options.max_usage
  BY PassedLog
<1>3. log' = p
  BY DEF Pass, StartRuns, Passed, Begun
<1>4. /\ begun' = [j \in Job |-> IF j \in started /\ begun[j] = Never THEN now ELSE begun[j]]
      /\ again' = again \cup {j \in started : begun[j] # Never}
      /\ ended' = [j \in Job |-> IF j \in Over /\ ended[j] = Never THEN now ELSE ended[j]]
      /\ now < MaxTime /\ now' = now + 1
      /\ UNCHANGED <<program, options, level, disturbed, requests>>
  BY DEF Pass, StartRuns
<1> HIDE DEF p
<1>5. started \subseteq Job
  <2>1. Due \in Seq(Entries)
    <3>1. Closed \in Seq(Records)
      BY ClosedKeeps DEF Inv
    <3> QED BY <1>1, <3>1, DueKeeps
  <2>2. \A i \in DOMAIN Due : Due[i].job \in Job
    BY <2>1, EntryOf DEF Entries
  <2> QED BY <2>2
<1>6. \A j : j \in started <=> \E i \in DOMAIN Due : j = Due[i].job
  OBVIOUS
<1> HIDE DEF started
<1>7. TypeOK'
  <2>1. now' \in 0..MaxTime
    BY <1>1, <1>4
  <2>2. begun' \in [Job -> 0..Never] /\ ended' \in [Job -> 0..Never]
    BY <1>1, <1>4 DEF TypeOK
  <2>3. log' \in Seq(Records) /\ again' \subseteq Job
    BY <1>1, <1>2, <1>3, <1>4, <1>5 DEF TypeOK
  <2> QED BY <1>1, <1>4, <2>1, <2>2, <2>3 DEF TypeOK
<1>8. Timely(log)'
  <2>1. ASSUME NEW i \in DOMAIN p
        PROVE  p[i].start <= now + 1 /\ (~p[i].active => p[i].end <= now + 1)
    <3>1. p[i] \in Records
      BY <1>2, RecordOf
    <3>2. p[i].start \in Int /\ p[i].end \in Int /\ now \in Int
      BY <1>1, <3>1 DEF Records
    <3>3. p[i].start <= now /\ (~p[i].active => p[i].end <= now)
      BY <1>2 DEF Timely
    <3> QED BY <3>2, <3>3
  <2> QED BY <1>3, <1>4, <2>1 DEF Timely
<1>9. ActiveOnce(log)'
  BY <1>2, <1>3 DEF ActiveOnce
<1>10. Remembered'
  <2>1. SUFFICES ASSUME options.run_log
                 PROVE  /\ again' = {}
                        /\ \A j \in Job : begun'[j] # Never => \E i \in DOMAIN p : p[i].job = j
    BY <1>3, <1>4 DEF Remembered
  <2>2. again = {} /\ \A j \in Job : begun[j] # Never => \E i \in DOMAIN log : log[i].job = j
    BY <2>1 DEF Inv, Remembered
  <2>3. \A j \in started : j \in Job /\ ~\E i \in DOMAIN log : log[i].job = j
    BY <1>2, <1>5, <1>6, <2>1
  <2>4. again' = {}
    BY <1>4, <2>2, <2>3
  <2>5. ASSUME NEW j \in Job, begun'[j] # Never PROVE \E i \in DOMAIN p : p[i].job = j
    <3>1. CASE j \in started
      BY <1>2, <1>6, <2>1, <3>1
    <3>2. CASE j \notin started
      <4>1. begun[j] # Never
        BY <1>4, <2>5, <3>2
      <4> QED BY <1>2, <2>1, <2>2, <4>1
    <3> QED BY <3>1, <3>2
  <2> QED BY <2>4, <2>5
<1>11. Limited'
  <2>1. options.program_pause = 0 /\ options.max_usage > 0
        => Total(program, Running(p)) <= options.max_usage
    BY <1>2
  <2> QED BY <1>3, <1>4, <2>1 DEF Limited
<1> QED BY <1>7, <1>8, <1>9, <1>10, <1>11 DEF Inv

LEMMA StopRunInv == \A j \in Job : Inv /\ StopRun(j) => Inv'
<1> SUFFICES ASSUME NEW j \in Job, Inv, StopRun(j) PROVE Inv'
  OBVIOUS
<1> DEFINE f == Finish(log, now, {j})
           p == Kept(f)
<1>1. /\ TypeOK /\ now \in 0..Never /\ log \in Seq(Records) /\ Timely(log) /\ ActiveOnce(log)
      /\ program \in [Job -> Programs] /\ Remembered /\ Limited
  BY Facts DEF Inv, TypeOK, Never
<1>2. /\ f \in Seq(Records) /\ DOMAIN f = DOMAIN log /\ Timely(f) /\ ActiveOnce(f)
      /\ \A i \in DOMAIN log : f[i].job = log[i].job /\ (f[i].active => f[i] = log[i])
  BY <1>1, FinishKeeps
<1>3. log' = p
  BY DEF StopRun
<1>4. /\ requests < MaxRequests /\ requests' = requests + 1
      /\ ended' = [ended EXCEPT ![j] = Min({@, now})] /\ disturbed' = TRUE
      /\ UNCHANGED <<now, program, options, level, begun, again>>
  BY DEF StopRun, Request
<1> HIDE DEF f
<1>5. /\ p \in Seq(Records) /\ From(p, f) /\ Timely(p) /\ ActiveOnce(p)
      /\ options.run_log => p = f
  BY <1>2, KeptKeeps
<1> HIDE DEF p
<1>6. TypeOK'
  <2>1. ended' \in [Job -> 0..Never]
    <3>1. \A x \in 0..Never : Min({x, now}) \in 0..Never
      <4>1. TAKE x \in 0..Never
      <4>2. IsFiniteSet({x, now}) /\ {x, now} \in SUBSET Int /\ {x, now} # {}
        <5>1. IsFiniteSet({x} \cup {now})
          BY FS_Singleton, FS_Union
        <5>2. {x, now} = {x} \cup {now}
          OBVIOUS
        <5> QED BY <1>1, <5>1, <5>2
      <4>3. Min({x, now}) \in {x, now}
        BY <4>2, Extremes
      <4> QED BY <1>1, <4>3
    <3>2. ended \in [Job -> 0..Never]
      BY <1>1 DEF TypeOK
    <3> QED BY <1>4, <3>1, <3>2
  <2>2. requests' \in 0..MaxRequests
    <3>1. requests \in 0..MaxRequests /\ MaxRequests \in Nat
      BY <1>1, ConstantsAssumption DEF TypeOK
    <3> QED BY <1>4, <3>1
  <2> QED BY <1>1, <1>3, <1>4, <1>5, <2>1, <2>2 DEF TypeOK
<1>7. Timely(log)' /\ ActiveOnce(log)'
  BY <1>3, <1>4, <1>5 DEF Timely, ActiveOnce
<1>8. Remembered'
  <2>1. SUFFICES ASSUME options.run_log
                 PROVE  /\ again = {}
                        /\ \A k \in Job : begun[k] # Never => \E i \in DOMAIN f : f[i].job = k
    BY <1>3, <1>4, <1>5 DEF Remembered
  <2> QED BY <1>1, <1>2, <2>1 DEF Remembered
<1>9. Limited'
  <2>1. \A e \in Running(p) : \E d \in Running(log) : d.job = e.job
    <3>1. TAKE e \in Running(p)
    <3>2. PICK i \in DOMAIN p : p[i].active /\ e = p[i]
      BY <1>5, RunningType
    <3>3. PICK k \in DOMAIN f : f[k] = p[i]
      BY <1>5 DEF From
    <3>4. e \in Running(log)
      BY <1>1, <1>2, <3>2, <3>3, RunningType
    <3> QED BY <3>4
  <2>2. Total(program, Running(p)) <= Total(program, Running(log))
    BY <1>1, <1>5, <2>1, RunningLess
  <2>3. Total(program, Running(p)) \in Nat /\ Total(program, Running(log)) \in Nat
    <3>1. /\ IsFiniteSet(Running(p)) /\ IsFiniteSet(Running(log))
          /\ \A e \in Running(p) : e.job \in Job
          /\ \A e \in Running(log) : e.job \in Job
      BY <1>1, <1>5, RunningType
    <3> QED BY <1>1, <3>1, TotalMonotone
  <2>4. options.program_pause = 0 /\ options.max_usage > 0
        => Total(program, Running(p)) <= options.max_usage
    BY <1>1, <2>2, <2>3, Option DEF Limited
  <2> QED BY <1>3, <1>4, <2>4 DEF Limited
<1> QED BY <1>6, <1>7, <1>8, <1>9 DEF Inv

LEMMA RequestOnceInv == \A j \in Once : Inv /\ RequestOnce(j) => Inv'
<1> SUFFICES ASSUME NEW j \in Once, Inv, RequestOnce(j) PROVE Inv'
  OBVIOUS
<1>1. /\ TypeOK /\ now \in 0..Never /\ log \in Seq(Records) /\ Timely(log) /\ ActiveOnce(log)
      /\ program \in [Job -> Programs] /\ Remembered /\ Limited
  BY Facts DEF Inv, TypeOK, Never
<1>2. /\ requests < MaxRequests /\ requests' = requests + 1
      /\ program' = [program EXCEPT ![j].start = now]
      /\ UNCHANGED <<now, options, level, log, begun, ended, again, disturbed>>
  BY DEF RequestOnce, Request
<1>3. program' \in [Job -> Programs] /\ \A k \in Job : program'[k].usage = program[k].usage
  BY <1>1, <1>2 DEF Programs
<1>4. TypeOK'
  <2>1. requests' \in 0..MaxRequests
    <3>1. requests \in 0..MaxRequests /\ MaxRequests \in Nat
      BY <1>1, ConstantsAssumption DEF TypeOK
    <3> QED BY <1>2, <3>1
  <2> QED BY <1>1, <1>2, <1>3, <2>1 DEF TypeOK
<1>5. Timely(log)' /\ ActiveOnce(log)' /\ Remembered'
  BY <1>1, <1>2 DEF Timely, ActiveOnce, Remembered
<1>6. Limited'
  <2> DEFINE P == program'
  <2>1. P \in [Job -> Programs] /\ \A k \in Job : P[k].usage = program[k].usage
    BY <1>3
  <2>2. Total(program', Running(log)) = Total(P, Running(log))
    OBVIOUS
  <2> HIDE DEF P
  <2>3. Total(P, Running(log)) <= Total(program, Running(log))
    BY <1>1, <2>1, RunningLess
  <2>4. Total(P, Running(log)) \in Nat /\ Total(program, Running(log)) \in Nat
    <3>1. IsFiniteSet(Running(log)) /\ \A e \in Running(log) : e.job \in Job
      BY <1>1, RunningType
    <3> QED BY <1>1, <2>1, <3>1, TotalMonotone
  <2>5. options.program_pause = 0 /\ options.max_usage > 0
        => Total(P, Running(log)) <= options.max_usage
    BY <1>1, <2>3, <2>4, Option DEF Limited
  <2> QED BY <1>2, <2>2, <2>5 DEF Limited
<1> QED BY <1>4, <1>5, <1>6 DEF Inv

LEMMA ChangeLevelInv == \A percent \in Levels : Inv /\ ChangeLevel(percent) => Inv'
<1> SUFFICES ASSUME NEW percent \in Levels, Inv, ChangeLevel(percent) PROVE Inv'
  OBVIOUS
<1>1. /\ requests < MaxRequests /\ requests' = requests + 1
      /\ level' = percent /\ disturbed' = TRUE
      /\ UNCHANGED <<now, program, options, log, begun, ended, again>>
  BY DEF ChangeLevel, Request
<1>2. TypeOK'
  <2>1. requests \in 0..MaxRequests /\ MaxRequests \in Nat
    BY ConstantsAssumption DEF Inv, TypeOK
  <2>2. requests' \in 0..MaxRequests
    BY <1>1, <2>1
  <2> QED BY <1>1, <2>2 DEF Inv, TypeOK
<1>3. Timely(log)' /\ ActiveOnce(log)' /\ Remembered' /\ Limited'
  BY <1>1 DEF Inv, Timely, ActiveOnce, Remembered, Limited
<1> QED BY <1>2, <1>3 DEF Inv

LEMMA Invariance == Spec => []Inv
<1>1. Init => Inv
  BY InitInv
<1>2. Inv /\ [Next]_vars => Inv'
  <2>1. SUFFICES ASSUME Inv, [Next]_vars PROVE Inv'
    OBVIOUS
  <2>2. CASE Pass
    BY <2>1, <2>2, PassInv
  <2>3. CASE \E j \in Job : StopRun(j)
    BY <2>1, <2>3, StopRunInv
  <2>4. CASE \E j \in Once : RequestOnce(j)
    BY <2>1, <2>4, RequestOnceInv
  <2>5. CASE \E percent \in Levels : ChangeLevel(percent)
    BY <2>1, <2>5, ChangeLevelInv
  <2>6. CASE UNCHANGED vars
    BY <2>1, <2>6 DEF vars, Inv, TypeOK, Timely, ActiveOnce, Remembered, Limited
  <2> QED BY <2>1, <2>2, <2>3, <2>4, <2>5, <2>6 DEF Next
<1> QED BY <1>1, <1>2, PTL DEF Spec

\* The log and the histories hold what they should: a run that is started has a start and
\* an end in the log, however it was moved.
THEOREM TypeCorrect == Spec => []TypeOK
<1>1. Inv => TypeOK
  BY DEF Inv
<1> QED BY <1>1, Invariance, PTL

\* Whatever programs there are, however often the plan is made anew and whatever users ask
\* for, stop or change in between: without a pause between programs, the stations that
\* are open use no more than max_usage (predicted_schedule, scheduler.py).
THEOREM UsageBounded == Spec => [](options.program_pause = 0 => UsageKept)
<1>1. Inv => (options.program_pause = 0 => UsageKept)
  BY UsageTotal DEF Inv, Limited, UsageKept, Running
<1> QED BY <1>1, Invariance, PTL

\* With a log of all runs, no occurrence of a program and no run that a user asked for is
\* started twice: no plan has a run that the log knows (scheduler.py, log.py).
THEOREM LoggedOnce == Spec => [](options.run_log => NothingRepeats)
<1>1. Inv => (options.run_log => NothingRepeats)
  BY DEF Inv, Remembered, NothingRepeats, EachRunOnce
<1> QED BY <1>1, Invariance, PTL
===============================================================================
