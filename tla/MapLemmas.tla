----------------------------- MODULE MapLemmas -----------------------------
(***************************************************************************)
(* What the updates of Maps do to the type, the size and the entries of a  *)
(* map, and that a filtered array is no longer than the array.             *)
(***************************************************************************)
EXTENDS Naturals, Sequences, FiniteSets, Maps, FiniteSetTheorems, TLAPS

\* A set of a key in K to a value in V keeps the map's type, and reads back.
LEMMA PutMap ==
  ASSUME NEW f, NEW K, NEW V, MapOf(f, K, V), NEW k \in K, NEW v \in V
  PROVE  /\ MapOf(Put(f, k, v), K, V)
         /\ DOMAIN Put(f, k, v) = DOMAIN f \cup {k}
         /\ Put(f, k, v)[k] = v
         /\ \A x \in DOMAIN f \ {k} : Put(f, k, v)[x] = f[x]
BY DEF MapOf, Put

\* Deletions keep the type and the remaining entries.
LEMMA WithoutMap ==
  ASSUME NEW f, NEW K, NEW V, MapOf(f, K, V), NEW S
  PROVE  /\ MapOf(Without(f, S), K, V)
         /\ DOMAIN Without(f, S) = DOMAIN f \ S
         /\ \A x \in DOMAIN f \ S : Without(f, S)[x] = f[x]
BY DEF MapOf, Without

\* The empty map has every type.
LEMMA EmptyIsMap == ASSUME NEW K, NEW V PROVE MapOf(EmptyMap, K, V) /\ DOMAIN EmptyMap = {}
BY DEF MapOf, EmptyMap

\* A set adds at most one key.
LEMMA PutCardinality ==
  ASSUME NEW f, IsFiniteSet(DOMAIN f), NEW k, NEW v
  PROVE  /\ IsFiniteSet(DOMAIN Put(f, k, v))
         /\ Cardinality(DOMAIN Put(f, k, v)) \in Nat
         /\ Cardinality(DOMAIN f) \in Nat
         /\ Cardinality(DOMAIN Put(f, k, v)) <= Cardinality(DOMAIN f) + 1
<1>1. DOMAIN Put(f, k, v) = DOMAIN f \cup {k}
  BY DEF Put
<1>2. IsFiniteSet(DOMAIN f \cup {k})
  BY FS_AddElement
<1>3. Cardinality(DOMAIN f) \in Nat /\ Cardinality(DOMAIN f \cup {k}) \in Nat
  BY <1>2, FS_CardinalityType
<1>4. Cardinality(DOMAIN f \cup {k}) = Cardinality(DOMAIN f)
      \/ Cardinality(DOMAIN f \cup {k}) = Cardinality(DOMAIN f) + 1
  BY FS_AddElement
<1>5. QED
  BY <1>1, <1>2, <1>3, <1>4

\* Deletions never add a key.
LEMMA SubsetCardinality ==
  ASSUME NEW S, IsFiniteSet(S), NEW T \in SUBSET S
  PROVE  /\ IsFiniteSet(T) /\ Cardinality(T) \in Nat
         /\ Cardinality(S) \in Nat /\ Cardinality(T) <= Cardinality(S)
BY FS_Subset, FS_CardinalityType

\* Filtering an array keeps its type and makes it no longer.
LEMMA FilteredSeq ==
  ASSUME NEW S, NEW s \in Seq(S), NEW I \in SUBSET DOMAIN s
  PROVE  /\ Filtered(s, I) \in Seq(S)
         /\ Len(Filtered(s, I)) <= Len(s)
         /\ Len(Filtered(s, I)) = Cardinality(I)
         /\ \A n \in DOMAIN Filtered(s, I) : \E i \in I : Filtered(s, I)[n] = s[i]
<1>1. IsFiniteSet(1..Len(s)) /\ Cardinality(1..Len(s)) = Len(s)
  <2>1. Len(s) \in Nat
    OBVIOUS
  <2>2. Cardinality(1..Len(s)) = IF 1 > Len(s) THEN 0 ELSE Len(s) - 1 + 1
    BY <2>1, FS_Interval
  <2>3. IsFiniteSet(1..Len(s))
    BY <2>1, FS_Interval
  <2>4. QED
    BY <2>1, <2>2, <2>3
<1>2. IsFiniteSet(I) /\ Cardinality(I) \in Nat /\ Cardinality(I) <= Len(s)
  <2>1. I \in SUBSET (1..Len(s))
    OBVIOUS
  <2>2. QED
    BY <1>1, <2>1, SubsetCardinality
<1>3. ASSUME NEW n \in 1..Cardinality(I)
      PROVE  \E i \in I : Filtered(s, I)[n] = s[i]
  <2>1. I # {}
    BY <1>2, FS_EmptySet
  <2>2. (CHOOSE i \in I : (\E j \in I : Rank(I, j) = n) => Rank(I, i) = n) \in I
    BY <2>1
  <2>3. QED
    BY <2>2 DEF Filtered
<1>4. DOMAIN Filtered(s, I) = 1..Cardinality(I)
  BY DEF Filtered
<1>5. \A n \in 1..Cardinality(I) : Filtered(s, I)[n] \in S
  BY <1>3
<1>6. Filtered(s, I) \in Seq(S) /\ Len(Filtered(s, I)) = Cardinality(I)
  BY <1>2, <1>4, <1>5 DEF Filtered
<1>7. QED
  BY <1>2, <1>3, <1>4, <1>6

\* Positions of a finite set of numbers, counted from its least: from 1 to its size.
LEMMA RankRange ==
  ASSUME NEW I, IsFiniteSet(I), I \subseteq Nat, NEW i \in I
  PROVE  Rank(I, i) \in 1..Cardinality(I)
<1> DEFINE below == {j \in I : j <= i}
<1>1. IsFiniteSet(below) /\ Cardinality(below) <= Cardinality(I)
  <2>1. below \in SUBSET I
    OBVIOUS
  <2>2. QED
    BY <2>1, FS_Subset
<1>2. Cardinality(below) \in Nat /\ Cardinality(I) \in Nat
  BY <1>1, FS_CardinalityType
<1>3. i \in below
  OBVIOUS
<1>4. Cardinality(below) # 0
  BY <1>1, <1>3, FS_EmptySet
<1>5. QED
  BY <1>1, <1>2, <1>4 DEF Rank

\* Two elements have different positions.
LEMMA RankInjective ==
  ASSUME NEW I, IsFiniteSet(I), I \subseteq Nat, NEW i \in I, NEW j \in I, i < j
  PROVE  Rank(I, i) # Rank(I, j)
<1> DEFINE S == {h \in I : h <= i}
           T == {h \in I : h <= j}
<1>1. S \in SUBSET T
  <2>1. \A h \in I : h \in Nat
    OBVIOUS
  <2>2. \A h \in I : h <= i => h <= j
    BY <2>1
  <2>3. QED
    BY <2>2
<1>2. j \in T /\ j \notin S
  OBVIOUS
<1>3. T \in SUBSET I
  OBVIOUS
<1>4. IsFiniteSet(T)
  BY <1>3, FS_Subset
<1>5. Cardinality(T) # Cardinality(S)
  BY <1>1, <1>2, <1>4, FS_Subset
<1>6. QED
  BY <1>5 DEF Rank

\* Every position is taken.
LEMMA RankSurjective ==
  ASSUME NEW I, IsFiniteSet(I), I \subseteq Nat, NEW n \in 1..Cardinality(I)
  PROVE  \E i \in I : Rank(I, i) = n
<1> SUFFICES ASSUME \A i \in I : Rank(I, i) # n
             PROVE  FALSE
  OBVIOUS
<1> DEFINE f == [i \in I |-> Rank(I, i)]
           T == (1..Cardinality(I)) \ {n}
<1>1. Cardinality(I) \in Nat
  BY FS_CardinalityType
<1>2. IsFiniteSet(1..Cardinality(I)) /\ Cardinality(1..Cardinality(I)) = Cardinality(I)
  BY <1>1, FS_Interval
<1>3. IsFiniteSet(T) /\ Cardinality(T) = Cardinality(I) - 1
  BY <1>2, FS_RemoveElement
<1>4. f \in [I -> T]
  BY RankRange
<1>5. Cardinality(T) < Cardinality(I)
  BY <1>1, <1>3
<1>6. PICK x \in I, y \in I : x # y /\ f[x] = f[y]
  <2> HIDE DEF f, T
  <2> QED
    BY <1>3, <1>4, <1>5, FS_PigeonHole
<1>7. x < y \/ y < x
  BY <1>6
<1>8. QED
  BY <1>6, <1>7, RankInjective

\* A set of indices that is not empty has a least one.
LEMMA LeastIndex ==
  ASSUME NEW I, IsFiniteSet(I), I \subseteq Nat, I # {}
  PROVE  (CHOOSE i \in I : \A h \in I : i <= h) \in I
<1>1. Cardinality(I) \in Nat /\ Cardinality(I) # 0
  BY FS_CardinalityType, FS_EmptySet
<1>2. PICK i \in I : Rank(I, i) = 1
  <2>1. 1 \in 1..Cardinality(I)
    BY <1>1
  <2>2. QED
    BY <2>1, RankSurjective
<1>3. ASSUME NEW h \in I, h < i PROVE FALSE
  <2> DEFINE low == {j \in I : j <= h}
             high == {j \in I : j <= i}
  <2>1. low \subseteq high /\ i \notin low /\ i \in high /\ h \in low
    <3>1. i \in Nat /\ h \in Nat /\ h < i
      BY <1>3
    <3>2. \A j \in I : j \in Nat /\ (j <= h => j <= i)
      BY <3>1
    <3>3. h <= h /\ i <= i /\ ~(i <= h)
      BY <3>1
    <3>4. QED
      BY <3>2, <3>3
  <2>2. IsFiniteSet(high) /\ high \in SUBSET I
    BY FS_Subset
  <2>3. IsFiniteSet(low) /\ Cardinality(low) <= Cardinality(high)
        /\ (Cardinality(low) = Cardinality(high) => low = high)
    BY <2>1, <2>2, FS_Subset
  <2>4. Cardinality(high) = 1 /\ Cardinality(low) \in Nat /\ Cardinality(low) # 0
    BY <1>2, <2>1, <2>3, FS_CardinalityType, FS_EmptySet DEF Rank
  <2>5. QED
    BY <2>1, <2>3, <2>4
<1>4. \A h \in I : i <= h
  BY <1>3
<1>5. QED
  BY <1>4

\* r holds the elements of s at the indices I, one for each.
Selects(r, s, I) ==
  \E at \in [DOMAIN r -> I] :
    /\ \A n \in DOMAIN r : r[n] = s[at[n]]
    /\ \A n, p \in DOMAIN r : at[n] = at[p] => n = p
    /\ \A i \in I : \E n \in DOMAIN r : at[n] = i

\* A filtered array holds the elements at the indices kept, each once.
LEMMA FilteredSelects ==
  ASSUME NEW S, NEW s \in Seq(S), NEW I \in SUBSET DOMAIN s
  PROVE  Selects(Filtered(s, I), s, I)
<1> DEFINE r == Filtered(s, I)
           Index(n) == CHOOSE i \in I : (\E j \in I : Rank(I, j) = n) => Rank(I, i) = n
           at == [n \in 1..Cardinality(I) |-> Index(n)]
<1>1. IsFiniteSet(I) /\ Cardinality(I) \in Nat /\ I \subseteq Nat
  <2>1. Len(s) \in Nat /\ I \in SUBSET (1..Len(s))
    OBVIOUS
  <2>2. IsFiniteSet(1..Len(s))
    BY <2>1, FS_Interval
  <2>3. QED
    BY <2>1, <2>2, SubsetCardinality
<1>2. DOMAIN r = 1..Cardinality(I) /\ \A n \in 1..Cardinality(I) : r[n] = s[Index(n)]
  BY DEF Filtered
<1>3. ASSUME NEW n \in 1..Cardinality(I)
      PROVE  Index(n) \in I /\ Rank(I, Index(n)) = n
  <2>1. \E i \in I : Rank(I, i) = n
    BY <1>1, RankSurjective
  <2>2. QED
    BY <2>1
<1>4. at \in [DOMAIN r -> I]
  BY <1>2, <1>3
<1>5. \A n \in DOMAIN r : r[n] = s[at[n]]
  BY <1>2
<1>6. \A n, p \in DOMAIN r : at[n] = at[p] => n = p
  BY <1>2, <1>3
<1>7. ASSUME NEW i \in I PROVE \E n \in DOMAIN r : at[n] = i
  <2> DEFINE n == Rank(I, i)
  <2>1. n \in 1..Cardinality(I)
    BY <1>1, RankRange
  <2>2. Index(n) \in I /\ Rank(I, Index(n)) = n
    BY <1>3, <2>1
  <2>3. Index(n) = i
    <3>1. ~(Index(n) < i) /\ ~(i < Index(n))
      BY <1>1, <2>2, RankInjective
    <3>2. Index(n) \in Nat /\ i \in Nat
      BY <1>1, <2>2
    <3>3. QED
      BY <3>1, <3>2
  <2>4. QED
    BY <1>2, <2>1, <2>3
<1>8. QED
  BY <1>4, <1>5, <1>6, <1>7 DEF Selects

\* So does an array without its head.
LEMMA TailSelects ==
  ASSUME NEW S, NEW s \in Seq(S), s # <<>>
  PROVE  Selects(Tail(s), s, DOMAIN s \ {1})
<1> DEFINE at == [n \in DOMAIN Tail(s) |-> n + 1]
<1>1. Len(s) \in Nat \ {0} /\ DOMAIN s = 1..Len(s)
  OBVIOUS
<1>2. DOMAIN Tail(s) = 1..(Len(s) - 1) /\ \A n \in 1..(Len(s) - 1) : Tail(s)[n] = s[n + 1]
  BY <1>1
<1>3. at \in [DOMAIN Tail(s) -> DOMAIN s \ {1}]
  BY <1>1, <1>2
<1>4. \A n \in DOMAIN Tail(s) : Tail(s)[n] = s[at[n]]
  BY <1>2
<1>5. \A n, p \in DOMAIN Tail(s) : at[n] = at[p] => n = p
  BY <1>2
<1>6. \A i \in DOMAIN s \ {1} : i - 1 \in DOMAIN Tail(s) /\ at[i - 1] = i
  BY <1>1, <1>2
<1>7. QED
  <2> HIDE DEF at
  <2> QED
    BY <1>3, <1>4, <1>5, <1>6 DEF Selects

\* r holds elements of s in the order they have in s.
Thins(r, s) ==
  \E at \in [DOMAIN r -> DOMAIN s] :
    /\ \A n \in DOMAIN r : r[n] = s[at[n]]
    /\ \A n, p \in DOMAIN r : n < p => at[n] < at[p]

\* A filtered array holds the elements kept in their order.
LEMMA FilteredThins ==
  ASSUME NEW S, NEW s \in Seq(S), NEW I \in SUBSET DOMAIN s
  PROVE  Thins(Filtered(s, I), s)
<1> DEFINE r == Filtered(s, I)
           Index(n) == CHOOSE i \in I : (\E j \in I : Rank(I, j) = n) => Rank(I, i) = n
           at == [n \in 1..Cardinality(I) |-> Index(n)]
<1>1. IsFiniteSet(I) /\ Cardinality(I) \in Nat /\ I \subseteq Nat
  <2>1. Len(s) \in Nat /\ I \in SUBSET (1..Len(s))
    OBVIOUS
  <2>2. IsFiniteSet(1..Len(s))
    BY <2>1, FS_Interval
  <2>3. QED
    BY <2>1, <2>2, SubsetCardinality
<1>2. DOMAIN r = 1..Cardinality(I) /\ \A n \in 1..Cardinality(I) : r[n] = s[Index(n)]
  BY DEF Filtered
<1>3. ASSUME NEW n \in 1..Cardinality(I)
      PROVE  Index(n) \in I /\ Rank(I, Index(n)) = n
  <2>1. \E i \in I : Rank(I, i) = n
    BY <1>1, RankSurjective
  <2>2. QED
    BY <2>1
<1>4. ASSUME NEW n \in 1..Cardinality(I), NEW p \in 1..Cardinality(I), n < p
      PROVE  Index(n) < Index(p)
  <2> SUFFICES ASSUME Index(p) <= Index(n)
               PROVE  FALSE
    BY <1>1, <1>3
  <2> DEFINE low == {j \in I : j <= Index(p)}
             high == {j \in I : j <= Index(n)}
  <2>1. low \in SUBSET high
    <3>1. Index(p) \in Nat /\ Index(n) \in Nat /\ \A j \in I : j \in Nat
      BY <1>1, <1>3
    <3> HIDE DEF Index
    <3>2. \A j \in I : j <= Index(p) => j <= Index(n)
      BY <3>1
    <3>3. QED
      BY <3>2
  <2>2. IsFiniteSet(high)
    BY <1>1, FS_Subset
  <2>3. Cardinality(low) <= Cardinality(high)
    <3> HIDE DEF low, high
    <3> QED
      BY <2>1, <2>2, FS_Subset
  <2>4. Cardinality(low) = p /\ Cardinality(high) = n
    BY <1>3 DEF Rank
  <2>5. QED
    BY <1>4, <2>3, <2>4
<1>5. at \in [DOMAIN r -> DOMAIN s]
  BY <1>2, <1>3
<1>6. \A n \in DOMAIN r : r[n] = s[at[n]]
  BY <1>2
<1>7. \A n, p \in DOMAIN r : n < p => at[n] < at[p]
  BY <1>2, <1>4
<1>8. QED
  <2> HIDE DEF r, at
  <2>1. Thins(r, s)
    BY <1>5, <1>6, <1>7 DEF Thins
  <2>2. QED
    BY <2>1 DEF r

=============================================================================
