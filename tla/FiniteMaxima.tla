---------------------------- MODULE FiniteMaxima ----------------------------
(***************************************************************************)
(* Ranks in a finite set whose elements carry different integers, and with *)
(* them the largest and the smallest element of a finite set of integers:  *)
(* what Max and Min of FiniteSetsExt return.                               *)
(***************************************************************************)
EXTENDS Integers, FiniteSetsExt, FiniteSetTheorems, TLAPS

\* The elements of S with a smaller key than a, how many they are, and the elements that
\* have fewer than n before them.
Before(S, key, a) == {b \in S : key[b] < key[a]}
First(S, key, n) == {a \in S : Cardinality(Before(S, key, a)) < n}
Ranking(S, key) == [a \in S |-> Cardinality(Before(S, key, a))]

\* The elements of S have the ranks 0 to Cardinality(S) - 1, each one once, in the order
\* of their keys.
LEMMA Ranks ==
  ASSUME NEW S, IsFiniteSet(S), NEW key \in [S -> Int],
         \A a, b \in S : key[a] = key[b] => a = b
  PROVE  /\ Cardinality(S) \in Nat
         /\ Ranking(S, key) \in [S -> 0..(Cardinality(S) - 1)]
         /\ \A a, b \in S : key[a] < key[b] => Ranking(S, key)[a] < Ranking(S, key)[b]
         /\ Ranking(S, key) \in Injection(S, 0..(Cardinality(S) - 1))
         /\ Ranking(S, key) \in Surjection(S, 0..(Cardinality(S) - 1))
<1> DEFINE N == Cardinality(S)
           Below(a) == {b \in S : key[b] < key[a]}
           rank == [a \in S |-> Cardinality(Below(a))]
<1>1. N \in Nat
  BY FS_CardinalityType
<1>2. \A a \in S : IsFiniteSet(Below(a)) /\ Cardinality(Below(a)) \in Nat
                   /\ Cardinality(Below(a)) < N
  <2> TAKE a \in S
  <2>1. Below(a) \in SUBSET S /\ a \notin Below(a)
    OBVIOUS
  <2>2. IsFiniteSet(Below(a)) /\ Cardinality(Below(a)) <= N /\ Cardinality(Below(a)) # N
    BY <2>1, FS_Subset
  <2>3. QED
    BY <1>1, <2>2, FS_CardinalityType
<1>3. rank \in [S -> 0..(N - 1)]
  <2> HIDE DEF N, Below
  <2> QED
    BY <1>1, <1>2
<1>4. \A a, b \in S : key[a] < key[b] => rank[a] < rank[b]
  <2> TAKE a, b \in S
  <2> HAVE key[a] < key[b]
  <2>1. key[a] \in Int /\ key[b] \in Int
        /\ \A c \in S : key[c] \in Int /\ (key[c] < key[a] => key[c] < key[b])
    OBVIOUS
  <2>2. Below(a) \in SUBSET Below(b) /\ a \in Below(b) /\ a \notin Below(a)
    <3>1. Below(a) \in SUBSET Below(b)
      BY <2>1
    <3>2. a \in Below(b) /\ a \notin Below(a)
      BY <2>1
    <3>3. QED
      BY <3>1, <3>2
  <2>3. Cardinality(Below(a)) # Cardinality(Below(b)) /\ Cardinality(Below(a)) <= Cardinality(Below(b))
    BY <1>2, <2>2, FS_Subset
  <2>4. Cardinality(Below(a)) \in Nat /\ Cardinality(Below(b)) \in Nat
    BY <1>2
  <2>5. Cardinality(Below(a)) < Cardinality(Below(b))
    <3> HIDE DEF Below
    <3> QED
      BY <2>3, <2>4
  <2>6. QED
    BY <2>5
<1>5. rank \in Injection(S, 0..(N - 1))
  <2>1. ASSUME NEW a \in S, NEW b \in S, rank[a] = rank[b] PROVE a = b
    <3>1. key[a] \in Int /\ key[b] \in Int /\ rank[a] \in Int /\ rank[b] \in Int
      BY <1>1, <1>3
    <3>2. ~(key[a] < key[b]) /\ ~(key[b] < key[a])
      BY <1>4, <2>1, <3>1
    <3>3. QED
      BY <3>1, <3>2
  <2>2. QED
    BY <1>3, <2>1 DEF Injection, IsInjective
<1>6. IsFiniteSet(0..(N - 1)) /\ Cardinality(0..(N - 1)) = N
  <2>1. CASE N = 0
    BY <2>1, FS_EmptySet, FS_Interval
  <2>2. CASE N # 0
    BY <1>1, <2>2, FS_Interval
  <2>3. QED
    BY <2>1, <2>2
<1>7. rank \in Surjection(S, 0..(N - 1))
  BY <1>5, <1>6, FS_Injection
<1>8. rank = Ranking(S, key)
  BY DEF Ranking, Before
<1>9. QED
  BY <1>1, <1>3, <1>4, <1>5, <1>7, <1>8

\* First(S, key, n) has at most n elements, with an element every one
\* that comes before it, and all of S when they are fewer than n.
LEMMA FirstN ==
  ASSUME NEW S, IsFiniteSet(S), NEW key \in [S -> Int],
         \A a, b \in S : key[a] = key[b] => a = b,
         NEW n \in Nat
  PROVE  LET F == First(S, key, n) IN
         /\ IsFiniteSet(F) /\ Cardinality(F) \in Nat /\ Cardinality(F) <= n
         /\ Cardinality(F) < n => F = S
         /\ \A a \in F : \A b \in S : key[b] <= key[a] => b \in F
<1> DEFINE F == First(S, key, n)
           N == Cardinality(S)
           rank == Ranking(S, key)
<1>1. /\ N \in Nat
      /\ rank \in [S -> 0..(N - 1)]
      /\ \A a, b \in S : key[a] < key[b] => rank[a] < rank[b]
      /\ \A a, b \in S : rank[a] = rank[b] => a = b
      /\ \A i \in 0..(N - 1) : \E a \in S : rank[a] = i
  BY Ranks DEF Injection, IsInjective, Surjection
<1>2. \A a \in S : rank[a] = Cardinality(Before(S, key, a))
  BY DEF Ranking
<1> HIDE DEF rank
<1>3. F = {a \in S : rank[a] < n}
  BY <1>2 DEF First
<1> HIDE DEF F
<1>4. IsFiniteSet(F) /\ Cardinality(F) \in Nat
  BY <1>3, FS_Subset, FS_CardinalityType
<1>5. IsFiniteSet(0..(n - 1)) /\ Cardinality(0..(n - 1)) = n
  <2>1. CASE n = 0
    BY <2>1, FS_EmptySet, FS_Interval
  <2>2. CASE n # 0
    BY <2>2, FS_Interval
  <2>3. QED
    BY <2>1, <2>2
<1> DEFINE inF == [a \in F |-> rank[a]]
<1>6. Cardinality(F) <= n
  <2>1. inF \in [F -> 0..(n - 1)]
    BY <1>1, <1>3
  <2>2. inF \in Injection(F, 0..(n - 1))
    BY <1>1, <1>3, <2>1 DEF Injection, IsInjective
  <2>3. QED
    BY <1>5, <2>2, FS_Injection
<1>7. ASSUME F # S PROVE Cardinality(F) = n
  <2>1. PICK c \in S : ~(rank[c] < n)
    BY <1>3, <1>7
  <2>2. rank[c] \in 0..(N - 1) /\ n < N /\ 0..(n - 1) \subseteq 0..(N - 1)
    BY <1>1, <2>1
  <2>3. \A i \in 0..(n - 1) : \E a \in F : inF[a] = i
    <3> TAKE i \in 0..(n - 1)
    <3>1. PICK a \in S : rank[a] = i
      BY <1>1, <2>2
    <3>2. a \in F
      BY <1>3, <3>1
    <3>3. QED
      BY <3>1, <3>2
  <2>4. inF \in [F -> 0..(n - 1)]
    BY <1>1, <1>3
  <2>5. inF \in Surjection(F, 0..(n - 1))
    BY <2>3, <2>4 DEF Surjection
  <2>6. n <= Cardinality(F)
    BY <1>4, <1>5, <2>5, FS_Surjection
  <2>7. QED
    BY <1>4, <1>6, <2>6
<1>8. ASSUME NEW a \in F, NEW b \in S, key[b] <= key[a] PROVE b \in F
  <2>1. a \in S /\ key[a] \in Int /\ key[b] \in Int /\ rank[a] \in Int /\ rank[b] \in Int /\ rank[a] < n
    BY <1>1, <1>3
  <2>2. key[b] = key[a] => b = a
    BY <2>1
  <2>3. key[b] < key[a] => rank[b] < rank[a]
    BY <1>1, <2>1
  <2>4. QED
    BY <1>3, <1>8, <2>1, <2>2, <2>3
<1>9. QED
  BY <1>4, <1>6, <1>7, <1>8 DEF F

\* The element with the last rank is the largest, the one with rank 0 the smallest.
LEMMA ExtremesExist ==
  ASSUME NEW S \in SUBSET Int, IsFiniteSet(S), S # {}
  PROVE  /\ \E m \in S : \A x \in S : m >= x
         /\ \E m \in S : \A x \in S : m <= x
<1> DEFINE N == Cardinality(S)
           key == [x \in S |-> x]
           rank == Ranking(S, key)
<1>1. N # 0
  BY FS_EmptySet
<1>2. key \in [S -> Int] /\ \A a, b \in S : key[a] = key[b] => a = b
  OBVIOUS
<1>3. /\ N \in Nat
      /\ rank \in [S -> 0..(N - 1)]
      /\ \A a, b \in S : key[a] < key[b] => rank[a] < rank[b]
      /\ \A i \in 0..(N - 1) : \E a \in S : rank[a] = i
  <2> HIDE DEF key
  <2>1. /\ Cardinality(S) \in Nat
        /\ Ranking(S, key) \in [S -> 0..(Cardinality(S) - 1)]
        /\ \A a, b \in S : key[a] < key[b] => Ranking(S, key)[a] < Ranking(S, key)[b]
        /\ Ranking(S, key) \in Surjection(S, 0..(Cardinality(S) - 1))
    BY <1>2, Ranks
  <2>2. QED
    BY <2>1 DEF Surjection
<1>4. \A a, b \in S : a < b => rank[a] < rank[b]
  <2> HIDE DEF rank
  <2> QED
    BY <1>3
<1> HIDE DEF rank
<1>5. \A x \in S : x \in Int /\ rank[x] \in 0..(N - 1)
  BY <1>3
<1>6. 0 \in 0..(N - 1) /\ N - 1 \in 0..(N - 1)
  BY <1>1, <1>3
<1>7. PICK m \in S : rank[m] = N - 1
  BY <1>3, <1>6
<1>8. PICK l \in S : rank[l] = 0
  BY <1>3, <1>6
<1> HIDE DEF N, key
<1>9. \A x \in S : m >= x /\ l <= x
  <2> TAKE x \in S
  <2>1. ~(m < x)
    BY <1>3, <1>4, <1>5, <1>7
  <2>2. ~(x < l)
    BY <1>3, <1>4, <1>5, <1>8
  <2>3. QED
    BY <1>5, <2>1, <2>2
<1>10. QED
  BY <1>9

\* Max and Min return them.
LEMMA MaxIsLargest ==
  ASSUME NEW S \in SUBSET Int, IsFiniteSet(S), S # {}
  PROVE  Max(S) \in S /\ \A x \in S : Max(S) >= x
BY ExtremesExist DEF Max

LEMMA MinIsSmallest ==
  ASSUME NEW S \in SUBSET Int, IsFiniteSet(S), S # {}
  PROVE  Min(S) \in S /\ \A x \in S : Min(S) <= x
BY ExtremesExist DEF Min

=============================================================================
