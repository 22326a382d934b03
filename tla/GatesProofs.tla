---------------------------- MODULE GatesProofs ----------------------------
(***************************************************************************)
(* Proofs that samples measure what they claim to, that quantiles keep     *)
(* within the edges and in order, resets or not, that a gate on latency    *)
(* never passes on silence, and that the means decide clear cases as the   *)
(* samples do: for every set of replicas, scope, list of edges and of      *)
(* gates, and all bounds.                                                  *)
(***************************************************************************)
EXTENDS Gates, TLAPS, SequenceTheorems, FiniteSetTheorems, WellFoundedInduction

-----------------------------------------------------------------------------
(* Arithmetic. *)

LEMMA LeastNat ==
  ASSUME NEW T, T \subseteq Nat, T # {}
  PROVE  \E n \in T : \A m \in T : n <= m
<1>1. PICK n \in T : \A m \in T : ~(<<m, n>> \in OpToRel(<, Nat))
  BY NatLessThanWellFounded, WFMin
<1>2. \A m \in T : ~(m < n)
  BY <1>1 DEF OpToRel
<1>3. QED
  BY <1>2

LEMMA DivFacts ==
  ASSUME NEW a \in Nat, NEW b \in Nat, b > 0
  PROVE  a \div b \in Nat /\ (a \div b) * b <= a /\ a < (a \div b) * b + b
OBVIOUS

LEMMA MulLess ==
  ASSUME NEW a \in Nat, NEW b \in Nat, NEW c \in Nat, a < b, c > 0
  PROVE  a * c + c <= b * c
OBVIOUS

LEMMA MulAtMost ==
  ASSUME NEW a \in Nat, NEW b \in Nat, NEW c \in Nat, a <= b
  PROVE  c * a \in Nat /\ c * b \in Nat /\ c * a <= c * b
OBVIOUS

\* The x / y-th part of w, rounded down, is at most w.
LEMMA PartOf ==
  ASSUME NEW w \in Nat, NEW x \in Nat, NEW y \in Nat, y > 0, x <= y
  PROVE  (w * x) \div y \in 0 .. w
<1> DEFINE d == (w * x) \div y
<1>1. d \in Nat /\ d * y <= w * x /\ w * x <= w * y
  BY MulAtMost, DivFacts
<1> HIDE DEF d
<1>2. d <= w
  <2> SUFFICES ASSUME d > w
               PROVE  FALSE
    BY <1>1
  <2>1. w * y + y <= d * y
    BY <1>1, MulLess
  <2>2. QED
    BY <1>1, <2>1
<1>3. d \in 0 .. w
  BY <1>1, <1>2
<1>4. QED
  BY <1>3 DEF d

LEMMA DivGrows ==
  ASSUME NEW a \in Nat, NEW b \in Nat, a <= b, NEW y \in Nat, y > 0
  PROVE  a \div y <= b \div y
<1> DEFINE d == a \div y
           e == b \div y
<1>1. d \in Nat /\ e \in Nat /\ d * y <= a /\ b < e * y + y
  BY DivFacts
<1> HIDE DEF d, e
<1>2. d <= e
  <2> SUFFICES ASSUME d > e
               PROVE  FALSE
    BY <1>1
  <2>1. e * y + y <= d * y
    BY <1>1, MulLess
  <2>2. QED
    BY <1>1, <2>1
<1>3. QED
  BY <1>2 DEF d, e

\* A rank rounded up is reached by a count when the exact rank is.
LEMMA RankRoundedUp ==
  ASSUME NEW n \in Nat, NEW m \in Int
  PROVE  /\ (n + 99) \div 100 <= m <=> n <= 100 * m
         /\ (n + 99) \div 100 \in Nat
OBVIOUS

-----------------------------------------------------------------------------
(* Sums over finite sets.  The fold of SumFunction is a function of the     *)
(* subsets, each of which gives up one element after another.               *)

Some(T) == CHOOSE x \in T : TRUE

\* The sum over T, given the sums h over smaller sets.
SumStep(w, h, T) == IF T = {} THEN 0 ELSE w[Some(T)] + h[T \ {Some(T)}]

IsSum(w, D, h) == h = [T \in D |-> SumStep(w, h, T)]

LEMMA SumIs ==
  ASSUME NEW w
  PROVE  SumFunction(w) = (CHOOSE h : IsSum(w, SUBSET DOMAIN w, h))[DOMAIN w]
BY DEF SumFunction, SumFunctionOnSet, FoldFunctionOnSet, MapThenFoldSet, IsSum, SumStep, Some

\* One element less.
LEMMA WithoutSome ==
  ASSUME NEW T, IsFiniteSet(T), T # {}
  PROVE  /\ Some(T) \in T
         /\ IsFiniteSet(T \ {Some(T)})
         /\ Cardinality(T) \in Nat \ {0}
         /\ Cardinality(T \ {Some(T)}) = Cardinality(T) - 1
<1>1. PICK x \in T : x = Some(T)
  BY DEF Some
<1>2. QED
  BY <1>1, FS_RemoveElement, FS_EmptySet, FS_CardinalityType

\* The function exists: from the sums over sets of fewer than n elements come
\* those over sets of n.
LEMMA SumExists ==
  ASSUME NEW S, IsFiniteSet(S), NEW w
  PROVE  \E h : IsSum(w, SUBSET S, h)
<1> DEFINE Small(n) == {T \in SUBSET S : Cardinality(T) <= n}
           Bad == {n \in Nat : ~ \E h : IsSum(w, Small(n), h)}
<1>1. \A T \in SUBSET S : IsFiniteSet(T) /\ Cardinality(T) \in Nat
  BY FS_Subset, FS_CardinalityType
<1>2. Bad = {}
  <2> SUFFICES ASSUME Bad # {}
               PROVE  FALSE
    OBVIOUS
  <2>1. PICK n \in Bad : \A k \in Bad : n <= k
    BY LeastNat
  <2>2. n # 0
    <3>1. \A T \in Small(0) : T = {}
      BY <1>1, FS_EmptySet
    <3>2. PICK h : h = [T \in Small(0) |-> 0]
      OBVIOUS
    <3>3. IsSum(w, Small(0), h)
      BY <3>1, <3>2 DEF IsSum, SumStep
    <3>4. QED
      BY <3>3
  <2>3. PICK k \in Nat : k = n - 1
    BY <2>2
  <2>4. PICK g : IsSum(w, Small(k), g)
    <3>1. ~(n <= k)
      BY <2>3
    <3>2. k \notin Bad
      BY <2>1, <3>1, Zenon
    <3>3. QED
      BY <3>2, Zenon
  <2>5. PICK h : h = [T \in Small(n) |-> SumStep(w, g, T)]
    OBVIOUS
  <2>6. \A T \in Small(k) : h[T] = g[T]
    <3>1. \A T \in Small(k) : T \in Small(n) /\ g[T] = SumStep(w, g, T)
      BY <1>1, <2>3, <2>4 DEF IsSum
    <3>2. QED
      BY <2>5, <3>1
  <2>7. \A T \in Small(n) : SumStep(w, g, T) = SumStep(w, h, T)
    <3> SUFFICES ASSUME NEW T \in Small(n), T # {}
                 PROVE  g[T \ {Some(T)}] = h[T \ {Some(T)}]
      BY DEF SumStep
    <3>1. T \ {Some(T)} \in Small(k)
      BY <1>1, <2>3, WithoutSome
    <3>2. QED
      BY <2>6, <3>1
  <2>8. IsSum(w, Small(n), h)
    BY <2>5, <2>7 DEF IsSum
  <2>9. QED
    BY <2>8
<1>3. Cardinality(S) \in Nat /\ Small(Cardinality(S)) = SUBSET S
  BY <1>1, FS_Subset
<1>4. QED
  BY <1>2, <1>3

\* The sum of n numbers from lo to hi is n * lo to n * hi.
LEMMA SumBounds ==
  ASSUME NEW S, IsFiniteSet(S), NEW w \in [S -> Int], NEW lo \in Int, NEW hi \in Int,
         \A s \in S : lo <= w[s] /\ w[s] <= hi
  PROVE  /\ SumFunction(w) \in Int
         /\ Cardinality(S) * lo <= SumFunction(w) /\ SumFunction(w) <= Cardinality(S) * hi
<1>1. PICK h : /\ IsSum(w, SUBSET S, h)
               /\ SumFunction(w) = h[S]
  BY SumExists, SumIs
<1> DEFINE Within(T) == h[T] \in Int /\ Cardinality(T) * lo <= h[T] /\ h[T] <= Cardinality(T) * hi
           Bad == {n \in Nat : \E T \in SUBSET S : Cardinality(T) = n /\ ~Within(T)}
<1>2. \A T \in SUBSET S : IsFiniteSet(T) /\ Cardinality(T) \in Nat
  BY FS_Subset, FS_CardinalityType
<1>3. Bad = {}
  <2> SUFFICES ASSUME Bad # {}
               PROVE  FALSE
    OBVIOUS
  <2>1. PICK n \in Bad : \A k \in Bad : n <= k
    BY LeastNat
  <2>2. PICK T \in SUBSET S : Cardinality(T) = n /\ ~Within(T)
    BY <2>1
  <2>3. h[T] = SumStep(w, h, T)
    BY <1>1 DEF IsSum
  <2>4. T # {}
    <3> SUFFICES ASSUME T = {}
                 PROVE  FALSE
      OBVIOUS
    <3>1. h[T] = 0 /\ Cardinality(T) = 0
      BY <2>3, FS_EmptySet DEF SumStep
    <3>2. QED
      BY <2>2, <3>1
  <2>5. PICK U \in SUBSET S : U = T \ {Some(T)}
    OBVIOUS
  <2>6. Cardinality(U) = n - 1 /\ n \in Nat /\ n # 0 /\ Some(T) \in S
    BY <1>2, <2>2, <2>4, <2>5, WithoutSome
  <2>7. Within(U)
    BY <1>2, <2>1, <2>6
  <2>8. PICK x \in Int : x = w[Some(T)]
    BY <2>6
  <2>9. lo <= x /\ x <= hi
    BY <2>6, <2>8
  <2>10. PICK u \in Int : u = h[U]
    BY <2>7
  <2>11. h[T] = x + u
    BY <2>3, <2>4, <2>5, <2>8, <2>10 DEF SumStep
  <2>12. (n - 1) * lo <= u /\ u <= (n - 1) * hi
    BY <2>6, <2>7, <2>10
  <2>13. n * lo = (n - 1) * lo + lo /\ n * hi = (n - 1) * hi + hi
    BY <2>6
  <2>14. n * lo <= x + u /\ x + u <= n * hi
    <3>1. PICK p \in Int, q \in Int : p = (n - 1) * lo /\ q = (n - 1) * hi
      BY <2>6
    <3>2. QED
      BY <2>9, <2>12, <2>13, <3>1
  <2>15. QED
    BY <2>2, <2>11, <2>14
<1>4. Within(S)
  BY <1>2, <1>3
<1>5. QED
  BY <1>1, <1>4

\* Of finitely many numbers, one is the least and one the greatest.
LEMMA LeastOf ==
  ASSUME NEW S, IsFiniteSet(S), S # {}, NEW w \in [S -> Int]
  PROVE  \E s \in S : \A t \in S : w[s] <= w[t]
<1> DEFINE Has(T) == \E s \in T : \A t \in T : w[s] <= w[t]
           Bad == {n \in Nat : \E T \in SUBSET S : Cardinality(T) = n /\ T # {} /\ ~Has(T)}
<1>1. \A T \in SUBSET S : IsFiniteSet(T) /\ Cardinality(T) \in Nat
  BY FS_Subset, FS_CardinalityType
<1>2. Bad = {}
  <2> SUFFICES ASSUME Bad # {}
               PROVE  FALSE
    OBVIOUS
  <2>1. PICK n \in Bad : \A k \in Bad : n <= k
    BY LeastNat
  <2>2. PICK T \in SUBSET S : Cardinality(T) = n /\ T # {} /\ ~Has(T)
    BY <2>1
  <2>3. PICK x \in T, U \in SUBSET S : U = T \ {x} /\ x = Some(T)
    <3>1. Some(T) \in T /\ T \ {Some(T)} \in SUBSET S
      BY <1>1, <2>2, WithoutSome
    <3>2. QED
      BY <3>1
  <2>4. Cardinality(U) = n - 1 /\ Cardinality(U) \in Nat
    BY <1>1, <2>2, <2>3, WithoutSome
  <2>5. w[x] \in Int /\ \A t \in T : w[t] \in Int
    OBVIOUS
  <2>6. U # {}
    BY <2>2, <2>3, <2>5
  <2>7. Has(U)
    BY <2>1, <2>4, <2>6
  <2>8. PICK s \in U : \A t \in U : w[s] <= w[t]
    BY <2>7
  <2>9. CASE w[x] <= w[s]
    <3>1. \A t \in T : w[x] <= w[t]
      BY <2>3, <2>5, <2>8, <2>9
    <3>2. QED
      BY <2>2, <3>1
  <2>10. CASE ~(w[x] <= w[s])
    <3>1. s \in T /\ \A t \in T : w[s] <= w[t]
      BY <2>3, <2>5, <2>8, <2>10
    <3>2. QED
      BY <2>2, <3>1
  <2>11. QED
    BY <2>9, <2>10
<1>3. QED
  BY <1>1, <1>2

LEMMA GreatestOf ==
  ASSUME NEW S, IsFiniteSet(S), S # {}, NEW w \in [S -> Int]
  PROVE  \E s \in S : \A t \in S : w[t] <= w[s]
<1>1. PICK v \in [S -> Int] : v = [s \in S |-> 0 - w[s]]
  <2>1. [s \in S |-> 0 - w[s]] \in [S -> Int]
    OBVIOUS
  <2>2. QED
    BY <2>1
<1>2. PICK s \in S : \A t \in S : v[s] <= v[t]
  BY LeastOf
<1>3. \A t \in S : w[t] <= w[s]
  BY <1>1, <1>2
<1>4. QED
  BY <1>3

-----------------------------------------------------------------------------
(* Buckets and edges. *)

LEMMA BucketFacts ==
  /\ Inf \in Nat /\ Inf > 1 /\ Inf \in Buckets /\ 1 \in Buckets
  /\ \A i \in Buckets : i \in Nat /\ 1 <= i /\ i <= Inf
  /\ \A i \in Buckets : i # 1 => i - 1 \in Buckets
BY GatesAssumption DEF Inf, Buckets

LEMMA EdgeFacts ==
  /\ \A i \in Buckets : Before(Edges, i) \in Nat
  /\ \A i \in Buckets : i # Inf => Edges[i] \in Nat /\ Before(Edges, i) < Edges[i]
  /\ \A i, j \in Buckets : i < j => Edges[i] <= Before(Edges, j)
  /\ Before(Edges, Inf) = Edges[Len(Edges)]
<1>1. /\ Len(Edges) \in Nat /\ Len(Edges) >= 1
      /\ \A i \in 1 .. Len(Edges) : Edges[i] \in Nat /\ Edges[i] > 0
      /\ \A i, j \in 1 .. Len(Edges) : i < j => Edges[i] < Edges[j]
  BY GatesAssumption
<1>2. Inf = Len(Edges) + 1 /\ Buckets = 1 .. Len(Edges) + 1
  BY DEF Buckets, Inf
<1>3. \A i \in Buckets : i # Inf => i \in 1 .. Len(Edges)
  BY <1>1, <1>2
<1>4. \A i \in Buckets : i # 1 => i - 1 \in 1 .. Len(Edges)
  BY <1>1, <1>2
<1>5. \A i \in Buckets : Before(Edges, i) \in Nat
  BY <1>1, <1>4 DEF Before
<1>6. ASSUME NEW i \in Buckets, i # Inf
      PROVE  Edges[i] \in Nat /\ Before(Edges, i) < Edges[i]
  <2>1. i \in 1 .. Len(Edges)
    BY <1>3, <1>6
  <2>2. i # 1 => Edges[i - 1] < Edges[i]
    BY <1>1, <1>4, <2>1
  <2>3. QED
    BY <1>1, <2>1, <2>2 DEF Before
<1>7. ASSUME NEW i \in Buckets, NEW j \in Buckets, i < j
      PROVE  Edges[i] <= Before(Edges, j)
  <2>1. i \in 1 .. Len(Edges) /\ j # 1 /\ j - 1 \in 1 .. Len(Edges)
    BY <1>1, <1>2, <1>7
  <2>2. i = j - 1 \/ i < j - 1
    BY <1>2, <1>7
  <2>3. Edges[i] <= Edges[j - 1]
    BY <1>1, <2>1, <2>2
  <2>4. QED
    BY <2>1, <2>3 DEF Before
<1>8. Before(Edges, Inf) = Edges[Len(Edges)]
  BY <1>1, <1>2 DEF Before
<1>9. QED
  BY <1>5, <1>6, <1>7, <1>8

\* The first bucket that reaches the rank exists, also when a reset has made
\* the counts of single buckets negative: all of them together reach it.
LEMMA ReachingIs ==
  ASSUME NEW q \in {50, 99}, NEW delta \in [Buckets -> Int], delta[Inf] > 0
  PROVE  /\ Reaching(q, delta) \in Buckets
         /\ 100 * delta[Reaching(q, delta)] >= q * delta[Inf]
         /\ \A j \in Buckets : j < Reaching(q, delta) => 100 * delta[j] < q * delta[Inf]
<1> DEFINE T == {i \in Buckets : 100 * delta[i] >= q * delta[Inf]}
<1>1. delta[Inf] \in Int /\ 100 * delta[Inf] >= q * delta[Inf]
  BY BucketFacts
<1>2. Inf \in T /\ T \subseteq Nat
  BY <1>1, BucketFacts
<1> HIDE DEF T
<1>3. PICK i \in T : \A j \in T : i <= j
  BY <1>2, LeastNat
<1>4. \A j \in Buckets : delta[j] \in Int /\ q * delta[Inf] \in Int
  BY <1>1
<1>5. /\ i \in Buckets /\ 100 * delta[i] >= q * delta[Inf]
      /\ \A j \in Buckets : j < i => 100 * delta[j] < q * delta[Inf]
  BY <1>3, <1>4, BucketFacts DEF T
<1>6. QED
  BY <1>5 DEF Reaching

-----------------------------------------------------------------------------
(* metrics.quantile. *)

\* The two terms of the interpolation: how far the rank is into its bucket,
\* and how many requests the bucket holds.
LEMMA RankWithin ==
  ASSUME NEW q \in {50, 99}, NEW delta \in [Buckets -> Int], delta[Inf] > 0
  PROVE  LET i == Reaching(q, delta)
             x == q * delta[Inf] - 100 * Before(delta, i)
             y == 100 * (delta[i] - Before(delta, i))
         IN x \in Nat /\ y \in Nat /\ 0 < x /\ x <= y
<1>1. PICK i \in Buckets : i = Reaching(q, delta)
  BY ReachingIs
<1>2. PICK n \in Int : n = delta[Inf]
  BY BucketFacts
<1>3. PICK c \in Int : c = delta[i]
  BY <1>1
<1>4. 100 * c >= q * n /\ n > 0
  BY <1>1, <1>2, <1>3, ReachingIs
<1>5. PICK b \in Int : b = Before(delta, i)
  BY <1>1, BucketFacts DEF Before
<1>6. 100 * b < q * n
  <2>1. CASE i = 1
    BY <1>4, <1>5, <2>1 DEF Before
  <2>2. CASE i # 1
    <3>1. i - 1 \in Buckets /\ i - 1 < i
      BY <2>2, BucketFacts
    <3>2. 100 * delta[i - 1] < q * delta[Inf]
      BY <1>1, <3>1, ReachingIs
    <3>3. QED
      BY <1>2, <1>5, <2>2, <3>2 DEF Before
  <2>3. QED
    BY <2>1, <2>2
<1>7. q * n - 100 * b \in Nat /\ 100 * (c - b) \in Nat /\ 0 < q * n - 100 * b
      /\ q * n - 100 * b <= 100 * (c - b)
  BY <1>4, <1>6
<1>8. QED
  BY <1>1, <1>2, <1>3, <1>5, <1>7

\* A quantile lies within the edges of the bucket that reaches its rank.
LEMMA QuantileWithin ==
  ASSUME NEW q \in {50, 99}, NEW delta \in [Buckets -> Int], delta[Inf] > 0
  PROVE  /\ quantile(q, delta) \in Nat
         /\ Before(Edges, Reaching(q, delta)) <= quantile(q, delta)
         /\ quantile(q, delta) <= UpperEdge(Reaching(q, delta))
<1>1. PICK i \in Buckets : i = Reaching(q, delta)
  BY ReachingIs
<1>2. PICK e \in Nat : e = Before(Edges, i)
  BY EdgeFacts
<1>3. CASE i = Inf
  <2>1. quantile(q, delta) = e
    BY <1>1, <1>2, <1>3 DEF quantile
  <2>2. UpperEdge(i) = e
    BY <1>2, <1>3, BucketFacts DEF UpperEdge, Before
  <2>3. QED
    BY <1>1, <1>2, <2>1, <2>2
<1>4. CASE i # Inf
  <2>1. PICK x \in Nat : x = q * delta[Inf] - 100 * Before(delta, i)
    BY <1>1, RankWithin
  <2>2. PICK y \in Nat : y = 100 * (delta[i] - Before(delta, i))
    BY <1>1, RankWithin
  <2>3. 0 < y /\ x <= y
    BY <1>1, <2>1, <2>2, RankWithin
  <2>4. PICK w \in Nat : w = Edges[i] - Before(Edges, i)
    BY <1>4, EdgeFacts
  <2>5. quantile(q, delta) = e + (w * x) \div y
    BY <1>1, <1>2, <1>4, <2>1, <2>2, <2>4 DEF quantile
  <2>6. (w * x) \div y \in 0 .. w
    BY <2>3, PartOf
  <2>7. UpperEdge(i) = e + w
    BY <1>2, <1>4, <2>4, EdgeFacts DEF UpperEdge
  <2>8. QED
    BY <1>1, <1>2, <2>5, <2>6, <2>7
<1>5. QED
  BY <1>3, <1>4

\* The 99th percentile is never below the 50th.
LEMMA QuantileGrows ==
  ASSUME NEW delta \in [Buckets -> Int], delta[Inf] > 0
  PROVE  quantile(50, delta) <= quantile(99, delta)
<1>1. PICK i \in Buckets : i = Reaching(50, delta)
  BY ReachingIs
<1>2. PICK j \in Buckets : j = Reaching(99, delta)
  BY ReachingIs
<1>3. PICK n \in Int : n = delta[Inf]
  BY BucketFacts
<1>4. i <= j
  <2>1. delta[j] \in Int /\ 100 * delta[j] >= 99 * n
    BY <1>2, <1>3, ReachingIs
  <2>2. ~(100 * delta[j] < 50 * n)
    BY <1>3, <2>1
  <2>3. ~(j < i)
    BY <1>1, <1>3, <2>2, ReachingIs
  <2>4. QED
    BY <2>3, BucketFacts
<1>5. CASE i < j
  <2>1. i # Inf
    BY <1>5, BucketFacts
  <2>2. quantile(50, delta) \in Nat /\ quantile(50, delta) <= Edges[i]
    BY <1>1, <2>1, QuantileWithin DEF UpperEdge
  <2>3. quantile(99, delta) \in Nat /\ Before(Edges, j) <= quantile(99, delta)
    BY <1>2, QuantileWithin
  <2>4. Edges[i] \in Nat /\ Before(Edges, j) \in Nat /\ Edges[i] <= Before(Edges, j)
    BY <1>5, <2>1, EdgeFacts
  <2>5. QED
    BY <2>2, <2>3, <2>4
<1>6. CASE i = j /\ i = Inf
  <2>1. quantile(50, delta) = Before(Edges, i) /\ quantile(99, delta) = Before(Edges, i)
    BY <1>1, <1>2, <1>6 DEF quantile
  <2>2. QED
    BY <2>1, EdgeFacts
<1>7. CASE i = j /\ i # Inf
  <2>1. PICK b \in Int : b = Before(delta, i)
    BY <1>1, BucketFacts DEF Before
  <2>2. /\ 50 * n - 100 * b \in Nat /\ 99 * n - 100 * b \in Nat
        /\ 50 * n - 100 * b <= 99 * n - 100 * b
    <3>1. 50 * n - 100 * b \in Nat /\ 99 * n - 100 * b \in Nat
      BY <1>1, <1>2, <1>3, <1>7, <2>1, RankWithin
    <3>2. QED
      BY <1>3, <2>1, <3>1
  <2>3. PICK x \in Nat : x = 50 * n - 100 * b
    BY <2>2
  <2>4. PICK z \in Nat : z = 99 * n - 100 * b
    BY <2>2
  <2>5. PICK y \in Nat : y = 100 * (delta[i] - b) /\ 0 < y
    <3>1. 100 * (delta[i] - b) \in Nat /\ 0 < 100 * (delta[i] - b)
      BY <1>1, <2>1, <2>3, RankWithin
    <3>2. QED
      BY <3>1
  <2>6. PICK w \in Nat : w = Edges[i] - Before(Edges, i)
    BY <1>7, EdgeFacts
  <2>7. /\ quantile(50, delta) = Before(Edges, i) + (w * x) \div y
        /\ quantile(99, delta) = Before(Edges, i) + (w * z) \div y
    BY <1>1, <1>2, <1>3, <1>7, <2>1, <2>3, <2>4, <2>5, <2>6 DEF quantile
  <2>8. w * x \in Nat /\ w * z \in Nat /\ w * x <= w * z
    BY <2>2, <2>3, <2>4, MulAtMost
  <2>9. (w * x) \div y \in Nat /\ (w * z) \div y \in Nat /\ (w * x) \div y <= (w * z) \div y
    BY <2>5, <2>8, DivGrows, DivFacts
  <2>10. QED
    BY <2>7, <2>9, EdgeFacts
<1>8. QED
  BY <1>4, <1>5, <1>6, <1>7, BucketFacts

\* No quantile leaves the edges.
LEMMA QuantileInRange ==
  ASSUME NEW q \in {50, 99}, NEW delta \in [Buckets -> Int], delta[Inf] > 0
  PROVE  quantile(q, delta) \in Nat /\ quantile(q, delta) <= Edges[Len(Edges)]
<1>1. PICK i \in Buckets : i = Reaching(q, delta)
  BY ReachingIs
<1>2. quantile(q, delta) \in Nat /\ quantile(q, delta) <= UpperEdge(i)
  BY <1>1, QuantileWithin
<1>3. UpperEdge(i) \in Nat /\ UpperEdge(i) <= Edges[Len(Edges)]
  <2>1. CASE i = Inf
    BY <2>1, EdgeFacts, BucketFacts DEF UpperEdge, Before
  <2>2. CASE i # Inf
    <3>1. i < Inf /\ Inf \in Buckets
      BY <2>2, BucketFacts
    <3>2. Edges[i] \in Nat /\ Edges[i] <= Before(Edges, Inf)
      BY <2>2, <3>1, EdgeFacts
    <3>3. QED
      BY <2>2, <3>2, EdgeFacts DEF UpperEdge
  <2>3. QED
    BY <2>1, <2>2
<1>4. Edges[Len(Edges)] \in Nat
  BY EdgeFacts, BucketFacts
<1>5. QED
  BY <1>2, <1>3, <1>4

\* Where nothing was reset, the bucket that reaches the rank is the bucket of
\* the request that has it.
LEMMA TrueBucketIs ==
  ASSUME NEW q \in {50, 99}, NEW b \in [Buckets -> Nat], Cumulative(b), b[Inf] > 0
  PROVE  TrueBucket(q, b) = Reaching(q, b)
<1> DEFINE k == (q * b[Inf] + 99) \div 100
           Holds(i) == Before(b, i) < k /\ k <= b[i]
<1>1. b \in [Buckets -> Int] /\ q * b[Inf] \in Nat /\ q * b[Inf] > 0
  BY BucketFacts
<1>2. k \in Nat /\ \A m \in Int : k <= m <=> q * b[Inf] <= 100 * m
  BY <1>1, RankRoundedUp
<1> HIDE DEF k
<1>3. PICK r \in Buckets : r = Reaching(q, b)
  BY <1>1, ReachingIs
<1>4. /\ \A j \in Buckets : j < r => b[j] < k
      /\ k <= b[r] /\ k > 0
  <2>1. ASSUME NEW j \in Buckets
        PROVE  b[j] \in Int /\ 100 * b[j] \in Int /\ (k <= b[j] <=> q * b[Inf] <= 100 * b[j])
    BY <1>2
  <2>2. k > 0
    BY <1>1, <1>2
  <2>3. k <= b[r]
    BY <1>1, <1>3, <2>1, ReachingIs
  <2>4. ASSUME NEW j \in Buckets, j < r
        PROVE  b[j] < k
    <3>1. 100 * b[j] < q * b[Inf]
      BY <1>1, <1>3, <2>4, ReachingIs
    <3>2. QED
      BY <1>1, <1>2, <2>1, <3>1
  <2>5. QED
    BY <2>2, <2>3, <2>4
<1>5. Holds(r)
  BY <1>4, BucketFacts DEF Before
<1>6. ASSUME NEW i \in Buckets, Holds(i)
      PROVE  i = r
  <2>1. ~(i < r)
    BY <1>2, <1>4, <1>6
  <2>2. ~(r < i)
    <3> SUFFICES ASSUME r < i
                 PROVE  FALSE
      OBVIOUS
    <3>1. i # 1 /\ i - 1 \in Buckets /\ r <= i - 1
      BY BucketFacts
    <3>2. b[r] <= b[i - 1] /\ b[i - 1] < k
      BY <1>6, <3>1 DEF Cumulative, Before
    <3>3. QED
      BY <1>2, <1>4, <3>1, <3>2
  <2>3. QED
    BY <2>1, <2>2, BucketFacts
<1>7. TrueBucket(q, b) = CHOOSE i \in Buckets : Holds(i)
  BY DEF TrueBucket, k
<1>8. QED
  BY <1>3, <1>5, <1>6, <1>7

-----------------------------------------------------------------------------
(* PrometheusMetrics.sample. *)

LEMMA MetricNames ==
  /\ Quantiles = {"p50", "p99"} /\ Metrics = {"throughput", "requests", "p50", "p99"}
  /\ Percent["p50"] = 50 /\ Percent["p99"] = 99
BY DEF Quantiles, Metrics, Percent

\* The first page of a replica yields nothing.
LEMMA FirstSample ==
  ASSUME NEW page
  PROVE  sample({}, page) \in SampleSet /\ DOMAIN sample({}, page) = {}
<1>1. sample({}, page) = [m \in {} |-> 0]
  BY DEF sample
<1>2. QED
  BY <1>1 DEF SampleSet

\* A later one yields rates, and quantiles if the count has grown.
LEMMA LaterSample ==
  ASSUME NEW p \in Page, NEW page \in Page, NEW delta \in [Buckets -> Int],
         \A i \in Buckets : delta[i] = page.buckets[i] - p.buckets[i]
  PROVE  LET s == sample({p}, page) IN
         /\ s \in SampleSet
         /\ DOMAIN s = IF delta[Inf] > 0 THEN Metrics ELSE {"throughput"}
         /\ s["throughput"] = page.tokens - p.tokens
         /\ delta[Inf] > 0 => s["p50"] = quantile(50, delta) /\ s["p99"] = quantile(99, delta)
<1> DEFINE M == {"throughput"} \cup (IF delta[Inf] > 0 THEN Quantiles \cup {"requests"} ELSE {})
           s == [m \in M |-> CASE m = "throughput" -> page.tokens - p.tokens
                                [] m = "requests" -> delta[Inf]
                                [] OTHER -> quantile(Percent[m], delta)]
<1>1. delta = [i \in Buckets |-> page.buckets[i] - p.buckets[i]]
  OBVIOUS
<1>2. (CHOOSE o \in {p} : TRUE) = p
  OBVIOUS
<1>3. sample({p}, page) = s
  BY <1>1, <1>2, SMTT(30) DEF sample
<1>4. page.tokens - p.tokens \in Int /\ delta[Inf] \in Int
  BY BucketFacts DEF Page
<1>5. M = IF delta[Inf] > 0 THEN Metrics ELSE {"throughput"}
  BY MetricNames
<1>6. /\ s["throughput"] = page.tokens - p.tokens
      /\ delta[Inf] > 0 => /\ s["requests"] = delta[Inf]
                           /\ s["p50"] = quantile(50, delta)
                           /\ s["p99"] = quantile(99, delta)
  BY MetricNames
<1>7. delta[Inf] > 0 => quantile(50, delta) \in Int /\ quantile(99, delta) \in Int
  BY QuantileWithin
<1>8. s \in SampleSet
  <2>1. DOMAIN s = M /\ s = [m \in M |-> s[m]]
    OBVIOUS
  <2> HIDE DEF s, M
  <2>2. \A m \in M : s[m] \in Int
    BY <1>4, <1>5, <1>6, <1>7, MetricNames
  <2>3. s \in [M -> Int]
    BY <2>1, <2>2
  <2>4. QED
    BY <1>5, <2>3 DEF SampleSet
<1>9. QED
  BY <1>3, <1>5, <1>6, <1>8

-----------------------------------------------------------------------------
(* The initial state, and what later steps keep. *)

LEMMA FreshIs == Fresh \in Page /\ Fresh.tokens = 0 /\ \A i \in Buckets : Fresh.buckets[i] = 0
BY GatesAssumption DEF Fresh, Page

LEMMA FreshCounts ==
  /\ Cumulative(Fresh.buckets) /\ Fresh.tokens = Fresh.buckets[Inf]
  /\ \A n \in Nat : Fresh.buckets[Inf] <= n
<1>1. Fresh.tokens = 0 /\ Fresh.buckets[Inf] = 0
  BY FreshIs, BucketFacts
<1>2. Cumulative(Fresh.buckets)
  BY FreshIs DEF Cumulative
<1>3. QED
  BY <1>1, <1>2

LEMMA GatesInitInv == Init => GatesInv
<1> SUFFICES ASSUME Init
             PROVE  GatesInv
  OBVIOUS
<1>1. Fresh.buckets \in [Buckets -> 0 .. MaxRequests]
  BY FreshIs DEF Page
<1>2. Replicas # {} /\ 0 \in 0 .. Samples /\ 0 \in 0 .. MaxFaults /\ 0 \in 0 .. MaxRequests
  BY GatesAssumption
<1>3. /\ engine \in [Replicas -> Page] /\ prev \in [Replicas -> SUBSET Page]
      /\ fresh \in [Replicas -> [Buckets -> 0 .. MaxRequests]]
  BY <1>1, FreshIs DEF Init
<1>4. /\ samples \in [Replicas -> Seq(SampleSet)] /\ truth \in [Replicas -> Seq(Truth)]
      /\ \A r \in Replicas : samples[r] = <<>> /\ truth[r] = <<>> /\ Len(samples[r]) = 0
                            /\ Len(truth[r]) = 0 /\ DOMAIN samples[r] = {}
  BY DEF Init
<1>5. TypeOK
  BY <1>2, <1>3, <1>4 DEF Init, TypeOK
<1>6. PagesAgree /\ AheadOfPage
  BY FreshIs, BucketFacts DEF Init, PagesAgree, AheadOfPage, Cumulative
<1>7. SamplesBacked /\ SampleMeasures /\ QuantilesOrdered
  BY <1>4 DEF Init, SamplesBacked, SampleMeasures, QuantilesOrdered
<1>8. SilentNeverPasses
  BY DEF Init, SilentNeverPasses
<1>9. Judged
  BY DEF Init, Judged
<1>10. QED
  BY <1>5, <1>6, <1>7, <1>8, <1>9 DEF GatesInv

\* What is said of the samples is kept by every step but Sample.
LEMMA SamplesStay ==
  ASSUME GatesInv, UNCHANGED <<prev, samples, truth>>
  PROVE  SamplesBacked' /\ SampleMeasures' /\ QuantilesOrdered'
BY DEF GatesInv, SamplesBacked, SampleMeasures, QuantilesOrdered

LEMMA EngineShape ==
  ASSUME TypeOK, NEW r \in Replicas
  PROVE  /\ engine[r] \in Page
         /\ engine[r].tokens \in 0 .. MaxRequests
         /\ engine[r].buckets \in [Buckets -> 0 .. MaxRequests]
         /\ fresh[r] \in [Buckets -> 0 .. MaxRequests]
         /\ \A i \in Buckets : engine[r].buckets[i] \in Nat /\ fresh[r][i] \in Nat
         /\ \A p \in prev[r] : p \in Page /\ \A i \in Buckets : p.buckets[i] \in Nat
         /\ samples[r] \in Seq(SampleSet) /\ truth[r] \in Seq(Truth)
         /\ Len(truth[r]) = Len(samples[r])
<1>1. /\ engine[r] \in Page /\ fresh[r] \in [Buckets -> 0 .. MaxRequests]
      /\ prev[r] \subseteq Page
      /\ samples[r] \in Seq(SampleSet) /\ truth[r] \in Seq(Truth)
      /\ Len(truth[r]) = Len(samples[r])
  BY DEF TypeOK
<1>2. \A p \in Page : /\ p.tokens \in 0 .. MaxRequests
                      /\ p.buckets \in [Buckets -> 0 .. MaxRequests]
  BY DEF Page
<1>3. \A n \in 0 .. MaxRequests : n \in Nat
  BY GatesAssumption
<1>4. \A p \in Page : \A i \in Buckets : p.buckets[i] \in Nat
  BY <1>2, <1>3
<1>5. \A i \in Buckets : fresh[r][i] \in Nat
  BY <1>1, <1>3
<1>6. QED
  BY <1>1, <1>2, <1>4, <1>5

-----------------------------------------------------------------------------
(* Engines serve and restart. *)

\* One more request keeps a histogram cumulative, and counts as one.
LEMMA CountedIs ==
  ASSUME NEW b \in [Buckets -> 0 .. MaxRequests], Cumulative(b), b[Inf] < MaxRequests,
         NEW i \in Buckets
  PROVE  /\ Counted(b, i) \in [Buckets -> 0 .. MaxRequests]
         /\ Cumulative(Counted(b, i))
         /\ Counted(b, i)[Inf] = b[Inf] + 1
         /\ \A j \in Buckets : Counted(b, i)[j] = IF j >= i THEN b[j] + 1 ELSE b[j]
<1>1. \A j \in Buckets : b[j] \in Nat /\ b[j] <= b[Inf]
  BY BucketFacts, GatesAssumption DEF Cumulative
<1>2. \A j \in Buckets : Counted(b, i)[j] = IF j >= i THEN b[j] + 1 ELSE b[j]
  BY DEF Counted
<1>3. \A j \in Buckets : Counted(b, i)[j] \in 0 .. MaxRequests
  <2> SUFFICES ASSUME NEW j \in Buckets
               PROVE  Counted(b, i)[j] \in 0 .. MaxRequests
    OBVIOUS
  <2>1. b[j] \in Nat /\ b[j] <= b[Inf] /\ b[Inf] \in Nat /\ MaxRequests \in Nat
    BY <1>1, BucketFacts, GatesAssumption
  <2>2. Counted(b, i)[j] \in {b[j], b[j] + 1}
    BY <1>2
  <2>3. QED
    BY <2>1, <2>2
<1>4. Counted(b, i) \in [Buckets -> 0 .. MaxRequests]
  BY <1>3 DEF Counted
<1>5. Cumulative(Counted(b, i))
  BY <1>1, <1>2, BucketFacts DEF Cumulative
<1>6. Counted(b, i)[Inf] = b[Inf] + 1
  BY <1>2, BucketFacts
<1>7. QED
  BY <1>2, <1>4, <1>5, <1>6

LEMMA ServeInv ==
  ASSUME GatesInv, NEW r \in Replicas, NEW i \in Buckets, Serve(r, i)
  PROVE  GatesInv'
<1> DEFINE e == [tokens |-> engine[r].tokens + 1, buckets |-> Counted(engine[r].buckets, i)]
           f == Counted(fresh[r], i)
<1>1. TypeOK /\ PagesAgree /\ AheadOfPage
  BY DEF GatesInv
<1>2. /\ served < MaxRequests /\ served' = served + 1 /\ served \in Nat
      /\ engine' = [engine EXCEPT ![r] = e]
      /\ fresh' = [fresh EXCEPT ![r] = f]
      /\ UNCHANGED <<gates, prev, todo, round, samples, verdict, findings, reset, truth, faults>>
  BY <1>1 DEF Serve, TypeOK
<1>3. /\ engine[r].tokens \in 0 .. MaxRequests /\ engine[r].tokens = engine[r].buckets[Inf]
      /\ engine[r].buckets \in [Buckets -> 0 .. MaxRequests] /\ fresh[r] \in [Buckets -> 0 .. MaxRequests]
      /\ Cumulative(engine[r].buckets) /\ Cumulative(fresh[r])
      /\ engine[r].buckets[Inf] <= served /\ fresh[r][Inf] <= served
      /\ engine[r].buckets[Inf] \in Nat /\ fresh[r][Inf] \in Nat
  BY <1>1, EngineShape, BucketFacts DEF PagesAgree
<1>4. MaxRequests \in Nat
  BY GatesAssumption
<1>5. /\ e.buckets \in [Buckets -> 0 .. MaxRequests] /\ f \in [Buckets -> 0 .. MaxRequests]
      /\ Cumulative(e.buckets) /\ Cumulative(f)
      /\ e.buckets[Inf] = engine[r].buckets[Inf] + 1 /\ f[Inf] = fresh[r][Inf] + 1
      /\ \A j \in Buckets : /\ e.buckets[j] = engine[r].buckets[j] + (IF j >= i THEN 1 ELSE 0)
                            /\ f[j] = fresh[r][j] + (IF j >= i THEN 1 ELSE 0)
  <2>1. engine[r].buckets[Inf] < MaxRequests /\ fresh[r][Inf] < MaxRequests
    BY <1>2, <1>3, <1>4
  <2>2. \A j \in Buckets : engine[r].buckets[j] \in Nat /\ fresh[r][j] \in Nat
    BY <1>1, EngineShape
  <2>3. QED
    BY <1>3, <2>1, <2>2, CountedIs
<1>6. e \in Page /\ e.tokens = e.buckets[Inf]
  BY <1>2, <1>3, <1>4, <1>5 DEF Page
<1> HIDE DEF e, f
<1>7. /\ engine' \in [Replicas -> Page] /\ fresh' \in [Replicas -> [Buckets -> 0 .. MaxRequests]]
      /\ engine'[r] = e /\ fresh'[r] = f
      /\ \A q \in Replicas \ {r} : engine'[q] = engine[q] /\ fresh'[q] = fresh[q]
  BY <1>1, <1>2, <1>5, <1>6 DEF TypeOK
<1>8. TypeOK'
  BY <1>1, <1>2, <1>4, <1>7 DEF TypeOK
<1>9. PagesAgree'
  <2> SUFFICES ASSUME NEW q \in Replicas
               PROVE  /\ Cumulative(engine'[q].buckets) /\ engine'[q].tokens = engine'[q].buckets[Inf]
                      /\ Cumulative(fresh'[q])
                      /\ engine'[q].buckets[Inf] <= served' /\ fresh'[q][Inf] <= served'
    BY <1>1, <1>2 DEF PagesAgree, Cumulative
  <2>1. CASE q = r
    BY <1>2, <1>3, <1>5, <1>6, <1>7, <2>1
  <2>2. CASE q # r
    <3>1. engine[q].buckets[Inf] \in Nat /\ fresh[q][Inf] \in Nat
      BY <1>1, EngineShape, BucketFacts
    <3>2. QED
      BY <1>1, <1>2, <1>7, <2>2, <3>1 DEF PagesAgree
  <2>3. QED
    BY <2>1, <2>2
<1>10. AheadOfPage'
  <2> SUFFICES ASSUME NEW q \in Replicas, NEW p \in prev[q], NEW j \in Buckets
               PROVE  /\ engine'[q].buckets[j] <= p.buckets[j] + fresh'[q][j]
                      /\ q \notin reset => engine'[q].buckets[j] = p.buckets[j] + fresh'[q][j]
    BY <1>2 DEF AheadOfPage
  <2>1. /\ p.buckets[j] \in Nat /\ engine[q].buckets[j] \in Nat /\ fresh[q][j] \in Nat
        /\ engine[q].buckets[j] <= p.buckets[j] + fresh[q][j]
        /\ q \notin reset => engine[q].buckets[j] = p.buckets[j] + fresh[q][j]
    BY <1>1, EngineShape DEF AheadOfPage
  <2>2. CASE q = r
    BY <1>5, <1>7, <2>1, <2>2
  <2>3. CASE q # r
    BY <1>7, <2>1, <2>3
  <2>4. QED
    BY <2>2, <2>3
<1>11. SilentNeverPasses'
  BY <1>2 DEF GatesInv, SilentNeverPasses
<1>12. Judged'
  BY <1>2 DEF GatesInv, Judged, Serve, Observing
<1>13. QED
  BY <1>2, <1>12, <1>8, <1>9, <1>10, <1>11, SamplesStay DEF GatesInv

\* A restarted engine is behind its last page, but not ahead of what it did.
LEMMA RestartInv ==
  ASSUME GatesInv, NEW r \in Replicas, Restart(r)
  PROVE  GatesInv'
<1>1. TypeOK /\ PagesAgree /\ AheadOfPage
  BY DEF GatesInv
<1>2. /\ faults < MaxFaults /\ faults' = faults + 1
      /\ engine' = [engine EXCEPT ![r] = Fresh]
      /\ reset' = reset \cup {r}
      /\ UNCHANGED <<gates, prev, todo, round, samples, verdict, findings, fresh, truth, served>>
  BY DEF Restart
<1>3. /\ engine' \in [Replicas -> Page] /\ engine'[r] = Fresh
      /\ \A q \in Replicas \ {r} : engine'[q] = engine[q]
  BY <1>1, <1>2, FreshIs DEF TypeOK
<1>4. TypeOK'
  BY <1>1, <1>2, <1>3, GatesAssumption DEF TypeOK
<1>5. PagesAgree'
  <2>1. /\ Cumulative(Fresh.buckets) /\ Fresh.tokens = Fresh.buckets[Inf]
        /\ Fresh.buckets[Inf] <= served
    <3>1. served \in Nat
      BY <1>1 DEF TypeOK
    <3>2. QED
      BY <3>1, FreshCounts
  <2>2. QED
    BY <1>1, <1>2, <1>3, <2>1 DEF PagesAgree, Cumulative
<1>6. AheadOfPage'
  <2> SUFFICES ASSUME NEW q \in Replicas, NEW p \in prev[q], NEW j \in Buckets
               PROVE  /\ engine'[q].buckets[j] <= p.buckets[j] + fresh[q][j]
                      /\ q \notin reset' => engine'[q].buckets[j] = p.buckets[j] + fresh[q][j]
    BY <1>2 DEF AheadOfPage
  <2>1. CASE q = r
    BY <1>1, <1>2, <1>3, <2>1, FreshIs, EngineShape
  <2>2. CASE q # r
    BY <1>1, <1>2, <1>3, <2>2 DEF AheadOfPage
  <2>3. QED
    BY <2>1, <2>2
<1>7. SilentNeverPasses'
  BY <1>2 DEF GatesInv, SilentNeverPasses
<1>8. Judged'
  BY <1>2 DEF GatesInv, Judged, Restart, Observing
<1>9. QED
  BY <1>2, <1>8, <1>4, <1>5, <1>6, <1>7, SamplesStay DEF GatesInv

-----------------------------------------------------------------------------
(* A sample is taken. *)

\* What Sample(r) appends for r, and that it says what was served since.
Taking(r) == sample(prev[r], engine[r])
Happened(r) == [fresh |-> fresh[r], reset |-> r \in reset]

LEMMA TakingIs ==
  ASSUME GatesInv, NEW r \in Replicas
  PROVE  LET s == Taking(r)
             b == fresh[r]
         IN /\ s \in SampleSet
            /\ samples[r] = <<>> => DOMAIN s = {}
            /\ samples[r] # <<>> =>
                 /\ Quantiles \cap DOMAIN s # {} => b[Inf] > 0
                 /\ r \notin reset => Measures(s, b)
            /\ Ordered(s)
<1>1. TypeOK /\ PagesAgree /\ AheadOfPage /\ SamplesBacked
  BY DEF GatesInv
<1>2. CASE prev[r] = {}
  <2>1. samples[r] = <<>> /\ Taking(r) \in SampleSet /\ DOMAIN Taking(r) = {}
    BY <1>1, <1>2, FirstSample DEF SamplesBacked, Taking
  <2>2. QED
    BY <2>1, MetricNames DEF Ordered
<1>3. CASE prev[r] # {}
  <2>1. samples[r] # <<>>
    BY <1>1, <1>3 DEF SamplesBacked
  <2>2. PICK p \in Page : prev[r] = {p}
    BY <1>1, <1>3 DEF TypeOK
  <2>3. PICK delta : delta = [i \in Buckets |-> engine[r].buckets[i] - p.buckets[i]]
    OBVIOUS
  <2>4. /\ delta \in [Buckets -> Int]
        /\ \A i \in Buckets : delta[i] = engine[r].buckets[i] - p.buckets[i]
    BY <1>1, <2>2, <2>3, EngineShape
  <2>5. \A i \in Buckets : /\ delta[i] <= fresh[r][i]
                           /\ r \notin reset => delta[i] = fresh[r][i]
    <3>1. p \in prev[r]
      BY <2>2
    <3>2. /\ \A i \in Buckets : engine[r].buckets[i] <= p.buckets[i] + fresh[r][i]
          /\ r \notin reset => \A i \in Buckets : engine[r].buckets[i] = p.buckets[i] + fresh[r][i]
      BY <1>1, <3>1 DEF AheadOfPage
    <3>3. \A i \in Buckets : /\ engine[r].buckets[i] \in Int /\ p.buckets[i] \in Int
                             /\ fresh[r][i] \in Int
      BY <1>1, <3>1, EngineShape
    <3>4. QED
      BY <2>4, <3>2, <3>3
  <2>6. PICK s : s = Taking(r)
    OBVIOUS
  <2>7. /\ s \in SampleSet
        /\ DOMAIN s = IF delta[Inf] > 0 THEN Metrics ELSE {"throughput"}
        /\ s["throughput"] = engine[r].tokens - p.tokens
        /\ delta[Inf] > 0 => s["p50"] = quantile(50, delta) /\ s["p99"] = quantile(99, delta)
    BY <1>1, <2>2, <2>4, <2>6, LaterSample, EngineShape DEF Taking
  <2>8. Quantiles \cap DOMAIN s # {} => delta[Inf] > 0 /\ fresh[r][Inf] > 0
    <3>1. delta[Inf] \in Int /\ fresh[r][Inf] \in Nat /\ delta[Inf] <= fresh[r][Inf]
      BY <1>1, <2>4, <2>5, BucketFacts, EngineShape
    <3>2. QED
      BY <2>7, <3>1, MetricNames
  <2>9. Ordered(s)
    <3> SUFFICES ASSUME delta[Inf] > 0
                 PROVE  0 <= s["p50"] /\ s["p50"] <= s["p99"] /\ s["p99"] <= Edges[Len(Edges)]
      BY <2>8, MetricNames DEF Ordered
    <3>1. quantile(50, delta) \in Nat /\ quantile(50, delta) <= quantile(99, delta)
          /\ quantile(99, delta) <= Edges[Len(Edges)]
      BY <2>4, QuantileGrows, QuantileInRange
    <3>2. QED
      BY <2>7, <3>1
  <2>10. ASSUME r \notin reset
         PROVE  Measures(s, fresh[r])
    <3>1. /\ fresh[r] \in [Buckets -> Nat] /\ delta = fresh[r]
          /\ Cumulative(fresh[r]) /\ fresh[r][Inf] \in Nat
      <4>1. fresh[r] \in [Buckets -> Nat]
        BY <1>1, EngineShape
      <4>2. QED
        BY <1>1, <2>3, <2>4, <2>5, <2>10, <4>1, BucketFacts DEF PagesAgree
    <3>2. s["throughput"] = fresh[r][Inf]
      <4>1. s["throughput"] = engine[r].buckets[Inf] - p.buckets[Inf]
        BY <1>1, <2>2, <2>7 DEF PagesAgree
      <4>2. QED
        BY <2>4, <3>1, <4>1, BucketFacts
    <3>3. CASE fresh[r][Inf] = 0
      BY <2>7, <3>1, <3>2, <3>3, MetricNames DEF Measures
    <3>4. CASE fresh[r][Inf] > 0
      <4>1. ASSUME NEW q \in {50, 99}
            PROVE  LET k == TrueBucket(q, fresh[r])
                   IN Before(Edges, k) <= quantile(q, delta) /\ quantile(q, delta) <= UpperEdge(k)
        <5>1. TrueBucket(q, fresh[r]) = Reaching(q, delta)
          BY <3>1, <3>4, TrueBucketIs
        <5>2. QED
          BY <2>4, <3>1, <3>4, <5>1, QuantileWithin
      <4>2. QED
        BY <2>7, <3>1, <3>2, <3>4, <4>1, MetricNames DEF Measures
    <3>5. QED
      BY <3>1, <3>3, <3>4
  <2>11. QED
    BY <2>1, <2>6, <2>7, <2>8, <2>9, <2>10
<1>4. QED
  BY <1>2, <1>3

\* Rounds: everybody is sampled once before anybody is sampled again.
LEMMA RoundStep ==
  ASSUME TypeOK, NEW r \in Replicas, Observing, Turn(r), NextRound(r)
  PROVE  /\ todo' \subseteq Replicas /\ todo' # {}
         /\ round' \in 0 .. Samples
         /\ \A q \in Replicas :
              (IF round' < Samples /\ q \notin todo' THEN round' + 1 ELSE round')
                = (IF round < Samples /\ q \notin todo THEN round + 1 ELSE round)
                    + (IF q = r THEN 1 ELSE 0)
<1>1. /\ round \in Nat /\ Samples \in Nat /\ round < Samples
      /\ r \in todo /\ todo \subseteq Replicas
  BY GatesAssumption DEF TypeOK, Observing, Turn
<1>2. CASE todo = {r}
  <2>1. todo' = Replicas /\ round' = round + 1
    BY <1>2 DEF NextRound
  <2>2. QED
    BY <1>1, <1>2, <2>1
<1>3. CASE todo # {r}
  <2>1. todo' = todo \ {r} /\ round' = round
    BY <1>3 DEF NextRound
  <2>2. QED
    BY <1>1, <1>3, <2>1
<1>4. QED
  BY <1>2, <1>3

LEMMA HappenedIs ==
  ASSUME TypeOK, NEW r \in Replicas
  PROVE  /\ Happened(r) \in Truth /\ Happened(r).fresh = fresh[r]
         /\ (Happened(r).reset <=> r \in reset)
<1>1. fresh[r] \in [Buckets -> 0 .. MaxRequests]
  BY DEF TypeOK
<1>2. CASE r \in reset
  <2>1. (r \in reset) = TRUE
    BY <1>2
  <2>2. Happened(r) = [fresh |-> fresh[r], reset |-> TRUE]
    BY <2>1, Zenon DEF Happened
  <2>3. QED
    BY <1>1, <1>2, <2>2 DEF Truth
<1>3. CASE r \notin reset
  <2>1. (r \in reset) = FALSE
    BY <1>3
  <2>2. Happened(r) = [fresh |-> fresh[r], reset |-> FALSE]
    BY <2>1, Zenon DEF Happened
  <2>3. QED
    BY <1>1, <1>3, <2>2 DEF Truth
<1>4. QED
  BY <1>2, <1>3

\* What appending leaves and adds.
LEMMA AppendedRow ==
  ASSUME NEW S, NEW s \in Seq(S), NEW e \in S
  PROVE  /\ Append(s, e) \in Seq(S) /\ Len(Append(s, e)) = Len(s) + 1 /\ Len(s) \in Nat
         /\ DOMAIN Append(s, e) = 1 .. Len(s) + 1 /\ DOMAIN s = 1 .. Len(s)
         /\ \A i \in 1 .. Len(s) : Append(s, e)[i] = s[i]
         /\ Append(s, e)[Len(s) + 1] = e
         /\ s = <<>> <=> Len(s) = 0
         /\ Append(s, e) # <<>>
BY AppendProperties, LenProperties, EmptySeq

LEMMA SampleInv ==
  ASSUME GatesInv, NEW r \in Replicas, Sample(r)
  PROVE  GatesInv'
<1>1. TypeOK /\ PagesAgree /\ AheadOfPage /\ SamplesBacked /\ SampleMeasures /\ QuantilesOrdered
  BY DEF GatesInv
<1>2. PICK s \in SampleSet : s = Taking(r)
  BY TakingIs
<1>3. PICK t \in Truth : t = Happened(r) /\ t.fresh = fresh[r] /\ (t.reset <=> r \in reset)
  BY <1>1, HappenedIs
<1>4. /\ Observing /\ Turn(r) /\ NextRound(r)
      /\ samples' = [samples EXCEPT ![r] = Append(samples[r], s)]
      /\ prev' = [prev EXCEPT ![r] = {engine[r]}]
      /\ truth' = [truth EXCEPT ![r] = Append(truth[r], t)]
      /\ fresh' = [fresh EXCEPT ![r] = Fresh.buckets]
      /\ reset' = reset \ {r}
      /\ UNCHANGED <<gates, engine, verdict, findings, faults, served>>
  BY <1>2, <1>3 DEF Sample, Taking, Happened
<1>5. PICK n \in Nat : n = Len(samples[r]) /\ n = Len(truth[r])
  BY <1>1, EngineShape, LenProperties
<1>6. /\ Append(samples[r], s) \in Seq(SampleSet) /\ Append(truth[r], t) \in Seq(Truth)
      /\ Len(Append(samples[r], s)) = n + 1 /\ Len(Append(truth[r], t)) = n + 1
      /\ DOMAIN Append(samples[r], s) = 1 .. n + 1 /\ DOMAIN samples[r] = 1 .. n
      /\ \A i \in 1 .. n : Append(samples[r], s)[i] = samples[r][i] /\ Append(truth[r], t)[i] = truth[r][i]
      /\ Append(samples[r], s)[n + 1] = s /\ Append(truth[r], t)[n + 1] = t
      /\ samples[r] = <<>> <=> n = 0
      /\ Append(samples[r], s) # <<>>
  <2>1. samples[r] \in Seq(SampleSet) /\ truth[r] \in Seq(Truth)
    BY <1>1, EngineShape
  <2>2. /\ Append(samples[r], s) \in Seq(SampleSet) /\ Len(Append(samples[r], s)) = n + 1
        /\ DOMAIN Append(samples[r], s) = 1 .. n + 1 /\ DOMAIN samples[r] = 1 .. n
        /\ \A i \in 1 .. n : Append(samples[r], s)[i] = samples[r][i]
        /\ Append(samples[r], s)[n + 1] = s
        /\ samples[r] = <<>> <=> n = 0
        /\ Append(samples[r], s) # <<>>
    <3>1. PICK a : a = samples[r] /\ a \in Seq(SampleSet)
      BY <2>1
    <3>2. n = Len(a)
      BY <1>5, <3>1
    <3>3. /\ Append(a, s) \in Seq(SampleSet) /\ Len(Append(a, s)) = n + 1
          /\ DOMAIN Append(a, s) = 1 .. n + 1 /\ DOMAIN a = 1 .. n
          /\ \A i \in 1 .. n : Append(a, s)[i] = a[i]
          /\ Append(a, s)[n + 1] = s /\ Append(a, s) # <<>>
      BY <3>1, <3>2, AppendedRow
    <3>4. a = <<>> <=> n = 0
      BY <3>1, <3>2, AppendedRow
    <3>5. QED
      BY <3>1, <3>3, <3>4
  <2>3. /\ Append(truth[r], t) \in Seq(Truth) /\ Len(Append(truth[r], t)) = n + 1
        /\ \A i \in 1 .. n : Append(truth[r], t)[i] = truth[r][i]
        /\ Append(truth[r], t)[n + 1] = t
    BY <1>5, <2>1, AppendedRow
  <2>4. QED
    BY <2>2, <2>3
<1>7. /\ samples' \in [Replicas -> Seq(SampleSet)] /\ truth' \in [Replicas -> Seq(Truth)]
      /\ samples'[r] = Append(samples[r], s) /\ truth'[r] = Append(truth[r], t)
      /\ \A q \in Replicas \ {r} : samples'[q] = samples[q] /\ truth'[q] = truth[q]
  BY <1>1, <1>4, <1>6 DEF TypeOK
<1>8. /\ prev' \in [Replicas -> SUBSET Page] /\ prev'[r] = {engine[r]}
      /\ fresh' \in [Replicas -> [Buckets -> 0 .. MaxRequests]] /\ fresh'[r] = Fresh.buckets
      /\ \A q \in Replicas \ {r} : prev'[q] = prev[q] /\ fresh'[q] = fresh[q]
  <2>1. engine[r] \in Page /\ Fresh.buckets \in [Buckets -> 0 .. MaxRequests]
    BY <1>1, EngineShape, FreshIs DEF Page
  <2>2. QED
    BY <1>1, <1>4, <2>1 DEF TypeOK
<1>9. TypeOK'
  <2>1. /\ todo' \subseteq Replicas /\ todo' # {} /\ round' \in 0 .. Samples
        /\ \A q \in Replicas :
             (IF round' < Samples /\ q \notin todo' THEN round' + 1 ELSE round')
               = (IF round < Samples /\ q \notin todo THEN round + 1 ELSE round)
                   + (IF q = r THEN 1 ELSE 0)
    BY <1>1, <1>4, RoundStep
  <2>2. \A q \in Replicas :
          Len(samples'[q]) = IF round' < Samples /\ q \notin todo' THEN round' + 1 ELSE round'
    <3> SUFFICES ASSUME NEW q \in Replicas
                 PROVE  Len(samples'[q]) = IF round' < Samples /\ q \notin todo' THEN round' + 1 ELSE round'
      OBVIOUS
    <3>1. Len(samples[q]) = IF round < Samples /\ q \notin todo THEN round + 1 ELSE round
      BY <1>1 DEF TypeOK
    <3>2. Len(samples[q]) \in Nat
      BY <1>1, EngineShape, LenProperties
    <3>3. Len(samples'[q]) = Len(samples[q]) + (IF q = r THEN 1 ELSE 0)
      <4>1. CASE q = r
        BY <1>5, <1>6, <1>7, <4>1
      <4>2. CASE q # r
        BY <1>7, <3>2, <4>2
      <4>3. QED
        BY <4>1, <4>2
    <3>4. QED
      BY <2>1, <3>1, <3>3
  <2>3. \A q \in Replicas : Len(truth'[q]) = Len(samples'[q])
    BY <1>1, <1>6, <1>7, EngineShape
  <2>4. \A q \in Replicas : \A p, p2 \in prev'[q] : p = p2
    <3> SUFFICES ASSUME NEW q \in Replicas, NEW p \in prev'[q], NEW p2 \in prev'[q]
                 PROVE  p = p2
      OBVIOUS
    <3>1. CASE q = r
      BY <1>8, <3>1
    <3>2. CASE q # r
      BY <1>1, <1>8, <3>2 DEF TypeOK
    <3>3. QED
      BY <3>1, <3>2
  <2>5. QED
    BY <1>1, <1>4, <1>7, <1>8, <2>1, <2>2, <2>3, <2>4 DEF TypeOK
<1>10. PagesAgree'
  <2>1. Cumulative(Fresh.buckets) /\ Fresh.buckets[Inf] <= served
    <3>1. served \in Nat
      BY <1>1 DEF TypeOK
    <3>2. QED
      BY <3>1, FreshCounts
  <2>2. QED
    BY <1>1, <1>4, <1>8, <2>1 DEF PagesAgree, Cumulative
<1>11. AheadOfPage'
  <2> SUFFICES ASSUME NEW q \in Replicas, NEW p \in prev'[q], NEW j \in Buckets
               PROVE  /\ engine[q].buckets[j] <= p.buckets[j] + fresh'[q][j]
                      /\ q \notin reset' => engine[q].buckets[j] = p.buckets[j] + fresh'[q][j]
    BY <1>4 DEF AheadOfPage
  <2>1. CASE q = r
    BY <1>1, <1>8, <2>1, FreshIs, EngineShape
  <2>2. CASE q # r
    BY <1>1, <1>4, <1>8, <2>2 DEF AheadOfPage
  <2>3. QED
    BY <2>1, <2>2
<1>12. SamplesBacked'
  <2> SUFFICES ASSUME NEW q \in Replicas
               PROVE  /\ prev'[q] = {} <=> samples'[q] = <<>>
                      /\ samples'[q] # <<>> => DOMAIN samples'[q][1] = {}
                      /\ \A i \in DOMAIN samples'[q] \ {1} :
                           Quantiles \cap DOMAIN samples'[q][i] # {} => truth'[q][i].fresh[Inf] > 0
    BY DEF SamplesBacked
  <2>1. CASE q # r
    BY <1>1, <1>7, <1>8, <2>1 DEF SamplesBacked
  <2>2. CASE q = r
    <3>1. prev'[r] # {} /\ samples'[r] # <<>>
      BY <1>6, <1>7, <1>8
    <3>2. DOMAIN samples'[r][1] = {}
      BY <1>1, <1>2, <1>5, <1>6, <1>7, TakingIs DEF SamplesBacked
    <3>3. ASSUME NEW i \in DOMAIN samples'[r] \ {1}, Quantiles \cap DOMAIN samples'[r][i] # {}
          PROVE  truth'[r][i].fresh[Inf] > 0
      <4>1. CASE i \in 1 .. n
        <5>1. i \in DOMAIN samples[r] \ {1} /\ samples'[r][i] = samples[r][i] /\ truth'[r][i] = truth[r][i]
          BY <1>6, <1>7, <3>3, <4>1
        <5>2. Quantiles \cap DOMAIN samples[r][i] # {}
          BY <3>3, <5>1
        <5>3. truth[r][i].fresh[Inf] > 0
          BY <1>1, <5>1, <5>2 DEF SamplesBacked
        <5>4. QED
          BY <5>1, <5>3
      <4>2. CASE i = n + 1
        <5>1. samples[r] # <<>> /\ samples'[r][i] = s /\ truth'[r][i] = t
          BY <1>6, <1>7, <3>3, <4>2
        <5>2. fresh[r][Inf] > 0
          BY <1>2, <3>3, <5>1, TakingIs
        <5>3. QED
          BY <1>3, <5>1, <5>2
      <4>3. QED
        BY <1>6, <1>7, <3>3, <4>1, <4>2
    <3>4. QED
      BY <2>2, <3>1, <3>2, <3>3
  <2>3. QED
    BY <2>1, <2>2
<1>13. SampleMeasures'
  <2> SUFFICES ASSUME NEW q \in Replicas, NEW i \in DOMAIN samples'[q] \ {1}, ~truth'[q][i].reset
               PROVE  Measures(samples'[q][i], truth'[q][i].fresh)
    BY DEF SampleMeasures
  <2>1. CASE q # r
    BY <1>1, <1>7, <2>1 DEF SampleMeasures
  <2>2. CASE q = r /\ i \in 1 .. n
    <3>1. /\ i \in DOMAIN samples[r] \ {1}
          /\ samples'[q][i] = samples[r][i] /\ truth'[q][i] = truth[r][i]
      BY <1>6, <1>7, <2>2
    <3>2. Measures(samples[r][i], truth[r][i].fresh)
      BY <1>1, <3>1 DEF SampleMeasures
    <3>3. QED
      BY <3>1, <3>2
  <2>3. CASE q = r /\ i = n + 1
    <3>1. samples[r] # <<>> /\ samples'[q][i] = s /\ truth'[q][i] = t
      BY <1>6, <1>7, <2>3
    <3>2. r \notin reset
      BY <1>3, <3>1
    <3>3. Measures(s, fresh[r])
      BY <1>2, <3>1, <3>2, TakingIs
    <3>4. QED
      BY <1>3, <3>1, <3>3
  <2>4. QED
    BY <1>6, <1>7, <2>1, <2>2, <2>3
<1>14. QuantilesOrdered'
  <2> SUFFICES ASSUME NEW q \in Replicas, NEW i \in DOMAIN samples'[q]
               PROVE  Ordered(samples'[q][i])
    BY DEF QuantilesOrdered
  <2>1. CASE q # r
    BY <1>1, <1>7, <2>1 DEF QuantilesOrdered
  <2>2. CASE q = r /\ i \in 1 .. n
    BY <1>1, <1>6, <1>7, <2>2 DEF QuantilesOrdered
  <2>3. CASE q = r /\ i = n + 1
    BY <1>2, <1>6, <1>7, <2>3, TakingIs
  <2>4. QED
    BY <1>6, <1>7, <2>1, <2>2, <2>3
<1>15. SilentNeverPasses'
  BY <1>4 DEF Observing, SilentNeverPasses
<1>16. Judged'
  BY <1>4 DEF GatesInv, Observing, Judged
<1>17. QED
  BY <1>16, <1>9, <1>10, <1>11, <1>12, <1>13, <1>14, <1>15 DEF GatesInv

-----------------------------------------------------------------------------
(* The verdict. *)

\* A mean exists only of a metric that some sample has.
LEMMA MeanHas ==
  ASSUME NEW R, NEW m \in DOMAIN mean(R)
  PROVE  \E r \in R : \E i \in DOMAIN samples[r] : m \in DOMAIN samples[r][i]
<1>1. With(m, R) # {}
  BY DEF mean
<1>2. PICK s \in Taken(R) : m \in DOMAIN samples[s[1]][s[2]]
  BY <1>1 DEF With
<1>3. PICK r \in R : \E i \in DOMAIN samples[r] : s = <<r, i>>
  BY <1>2 DEF Taken
<1>4. QED
  BY <1>2, <1>3

\* A gate on a metric nobody reported is not "ok".
LEMMA OkHasMean ==
  ASSUME NEW g, NEW c, NEW b, evaluate(g, c, b) = "ok"
  PROVE  g.metric \in DOMAIN c
<1> SUFFICES ASSUME g.metric \notin DOMAIN c
             PROVE  evaluate(g, c, b) = "no canary sample"
  BY DEF evaluate
<1>1. QED
  BY DEF evaluate

LEMMA MeanStays ==
  ASSUME NEW R, samples' = samples
  PROVE  mean(R)' = mean(R)
BY DEF mean, With, Taken

LEMMA DecideInv ==
  ASSUME GatesInv, Decide
  PROVE  GatesInv'
<1>1. TypeOK /\ SamplesBacked
  BY DEF GatesInv
<1>2. PICK c, b : c = mean(Scope) /\ b = mean(Replicas \ Scope)
  OBVIOUS
<1>3. /\ gates' \in GateLists
      /\ findings' = [i \in DOMAIN gates' |-> evaluate(gates'[i], c, b)]
      /\ verdict' = IF \A i \in DOMAIN gates' : findings'[i] = "ok" THEN "promoted" ELSE "reverted"
      /\ UNCHANGED <<engine, prev, todo, round, samples, fresh, reset, truth, faults, served>>
  BY <1>2 DEF Decide
<1>4. TypeOK'
  <2>1. DOMAIN findings' = DOMAIN gates' /\ verdict' \in {"promoted", "reverted"}
    BY <1>3
  <2>2. QED
    BY <1>1, <1>3, <2>1 DEF TypeOK
<1>5. PagesAgree' /\ AheadOfPage'
  BY <1>3 DEF GatesInv, PagesAgree, AheadOfPage
<1>6. SilentNeverPasses'
  <2> SUFFICES ASSUME verdict' = "promoted", NEW i \in DOMAIN gates', gates'[i].metric \in Quantiles
               PROVE  \E r \in Scope : \E j \in DOMAIN truth[r] \ {1} : truth[r][j].fresh[Inf] > 0
    BY <1>3 DEF SilentNeverPasses
  <2>1. evaluate(gates'[i], c, b) = "ok"
    BY <1>3
  <2>2. PICK m \in Quantiles : m = gates'[i].metric
    OBVIOUS
  <2>3. m \in DOMAIN mean(Scope)
    BY <1>2, <2>1, <2>2, OkHasMean
  <2>4. PICK r \in Scope : \E j \in DOMAIN samples[r] : m \in DOMAIN samples[r][j]
    BY <2>3, MeanHas
  <2>5. PICK j \in DOMAIN samples[r] : m \in DOMAIN samples[r][j]
    BY <2>4
  <2>6. r \in Replicas
    BY GatesAssumption
  <2>7. samples[r] \in Seq(SampleSet) /\ truth[r] \in Seq(Truth) /\ Len(truth[r]) = Len(samples[r])
    BY <1>1, <2>6, EngineShape DEF TypeOK
  <2>8. samples[r] # <<>> /\ DOMAIN truth[r] = DOMAIN samples[r]
    <3>1. DOMAIN samples[r] = 1 .. Len(samples[r]) /\ DOMAIN truth[r] = 1 .. Len(truth[r])
      BY <2>7, LenProperties
    <3>2. QED
      BY <2>5, <2>7, <3>1, EmptySeq
  <2>9. j # 1
    BY <1>1, <2>5, <2>6, <2>8 DEF SamplesBacked
  <2>10. truth[r][j].fresh[Inf] > 0
    BY <1>1, <2>5, <2>6, <2>8, <2>9 DEF SamplesBacked
  <2>11. QED
    BY <2>4, <2>5, <2>8, <2>9, <2>10
<1>7. Judged'
  <2>1. c = mean(Scope)' /\ b = mean(Replicas \ Scope)'
    BY <1>2, <1>3, MeanStays
  <2>2. verdict' \in {"promoted", "reverted"}
    BY <1>3
  <2>3. findings' = [i \in DOMAIN gates' |-> evaluate(gates'[i], mean(Scope)', mean(Replicas \ Scope)')]
    BY <1>3, <2>1
  <2>4. verdict' = "promoted" => \A i \in DOMAIN findings' : findings'[i] = "ok"
    BY <1>3
  <2>5. QED
    BY <2>2, <2>3, <2>4 DEF Judged
<1>8. QED
  BY <1>3, <1>7, <1>4, <1>5, <1>6, SamplesStay DEF GatesInv

\* The scraper raises: only the verdict changes.
LEMMA RaiseInv ==
  ASSUME GatesInv, SampleRaises
  PROVE  GatesInv'
<1>1. /\ verdict' = "raised"
      /\ UNCHANGED <<gates, engine, prev, todo, round, samples, findings, fresh, reset, truth, faults, served>>
  BY DEF SampleRaises
<1>2. TypeOK'
  BY <1>1 DEF GatesInv, TypeOK
<1>3. PagesAgree' /\ AheadOfPage' /\ SilentNeverPasses' /\ Judged'
  BY <1>1 DEF SampleRaises, Observing, Judged, GatesInv, PagesAgree, AheadOfPage, SilentNeverPasses
<1>4. QED
  BY <1>1, <1>2, <1>3, SamplesStay DEF GatesInv

LEMMA GatesStutters ==
  ASSUME GatesInv, UNCHANGED vars
  PROVE  GatesInv'
<1>1. TypeOK' /\ PagesAgree' /\ AheadOfPage' /\ SilentNeverPasses'
  BY DEF GatesInv, vars, TypeOK, PagesAgree, AheadOfPage, SilentNeverPasses
<1>2. Judged'
  <2>1. mean(Scope)' = mean(Scope) /\ mean(Replicas \ Scope)' = mean(Replicas \ Scope)
    BY MeanStays DEF vars
  <2>2. QED
    BY <2>1 DEF GatesInv, Judged, vars
<1>3. QED
  BY <1>1, <1>2, SamplesStay DEF GatesInv, vars

-----------------------------------------------------------------------------
(* Ratios of means. *)

LEMMA MulMono ==
  ASSUME NEW a \in Int, NEW b \in Int, NEW c \in Nat, a <= b
  PROVE  c * a \in Int /\ c * b \in Int /\ c * a <= c * b
OBVIOUS

\* B * Y, for Y between multiples of y and z and a B of either sign.
LEMMA ScaledBounds ==
  ASSUME NEW B \in Int, NEW Y \in Int, NEW y \in Int, NEW z \in Int, NEW n \in Nat \ {0},
         n * y <= Y, Y <= n * z
  PROVE  B * Y <= n * (B * y) \/ B * Y <= n * (B * z)
<1>1. CASE B >= 0
  <2>1. PICK u \in Int : u = n * z
    OBVIOUS
  <2>2. B * Y <= B * u
    BY <1>1, <2>1, MulMono
  <2>3. B * u = n * (B * z)
    BY <2>1
  <2>4. QED
    BY <2>2, <2>3
<1>2. CASE B < 0
  <2>1. PICK u \in Int : u = n * y
    OBVIOUS
  <2>2. PICK d \in Nat : d = 0 - B
    BY <1>2
  <2>3. d * u <= d * Y
    BY <2>1, MulMono
  <2>4. d * u = 0 - B * u /\ d * Y = 0 - B * Y
    BY <2>2
  <2>5. B * u = n * (B * y)
    BY <2>1
  <2>6. PICK q \in Int, r \in Int : q = B * u /\ r = B * Y
    OBVIOUS
  <2>7. r <= q
    BY <2>3, <2>4, <2>6
  <2>8. QED
    BY <2>5, <2>6, <2>7
<1>3. QED
  BY <1>1, <1>2

\* If even the least of the x, times 100, exceeds the greatest B * y, the ratio
\* of the means is above B.
LEMMA RatioOfAbove ==
  ASSUME NEW X \in Int, NEW Y \in Int, NEW B \in Int, NEW x \in Int, NEW p \in Int,
         NEW nx \in Nat \ {0}, NEW ny \in Nat \ {0},
         nx * x <= X, B * Y <= ny * p, 100 * x > p
  PROVE  100 * X * ny > B * nx * Y
<1>1. PICK u \in Int, v \in Int : u = nx * x /\ v = B * Y
  OBVIOUS
<1>2. nx * p + nx <= 100 * u
  <2>1. nx * (p + 1) <= nx * (100 * x)
    BY MulMono
  <2>2. nx * (p + 1) = nx * p + nx /\ nx * (100 * x) = 100 * u
    BY <1>1
  <2>3. QED
    BY <2>1, <2>2
<1>3. PICK q \in Int : q = nx * p
  OBVIOUS
<1>4. ny * (q + nx) <= ny * (100 * X)
  BY <1>1, <1>2, <1>3, MulMono
<1>5. nx * v <= nx * (ny * p)
  BY <1>1, MulMono
<1>6. nx * (ny * p) = ny * q /\ nx * v = B * nx * Y
  BY <1>1, <1>3
<1>7. ny * (q + nx) = ny * q + ny * nx /\ ny * nx > 0 /\ ny * (100 * X) = 100 * X * ny
  BY <1>3
<1>8. PICK s \in Int, d \in Int : s = ny * q /\ d = ny * nx
  BY <1>3
<1>9. PICK g \in Int, h \in Int : g = 100 * X * ny /\ h = B * nx * Y
  OBVIOUS
<1>10. s + d <= g /\ h <= s /\ d > 0
  BY <1>4, <1>5, <1>6, <1>7, <1>8, <1>9
<1>11. QED
  BY <1>9, <1>10

\* If no x exceeds any y, the ratio of the means is not above B >= 100.
LEMMA RatioOfAtMost ==
  ASSUME NEW X \in Int, NEW Y \in Int, NEW B \in Int, NEW x \in Int, NEW y \in Int,
         NEW nx \in Nat \ {0}, NEW ny \in Nat \ {0},
         X <= nx * x, ny * y <= Y, x <= y, 100 <= B, 0 <= Y
  PROVE  100 * X * ny <= B * nx * Y
<1>1. nx * x <= nx * y
  BY MulMono
<1>2. PICK u \in Int : u = nx * y
  OBVIOUS
<1>3. X <= u
  BY <1>1, <1>2
<1>4. ny * X <= ny * u
  BY <1>3, MulMono
<1>5. nx * (ny * y) <= nx * Y
  BY MulMono
<1>6. ny * u = nx * (ny * y)
  BY <1>2
<1>7. PICK v \in Nat : v = nx * Y
  OBVIOUS
<1>8. v * 100 <= v * B
  BY MulMono
<1>9. PICK z \in Int : z = ny * X
  OBVIOUS
<1>10. 100 * z <= v * B
  BY <1>4, <1>5, <1>6, <1>7, <1>8, <1>9
<1>11. 100 * X * ny = 100 * z /\ B * nx * Y = v * B
  BY <1>7, <1>9
<1>12. QED
  BY <1>10, <1>11

\* The ratio of two means, where every pair of samples is on the same side.
LEMMA ClearRatios ==
  ASSUME NEW C, IsFiniteSet(C), C # {}, NEW v \in [C -> Int],
         NEW D, IsFiniteSet(D), D # {}, NEW w \in [D -> Int], \A s \in D : w[s] > 0,
         NEW B \in Int
  PROVE  LET X == SumFunction(v)
             Y == SumFunction(w)
             nx == Cardinality(C)
             ny == Cardinality(D)
         IN /\ Y > 0
            /\ (\A s \in C, t \in D : 100 * v[s] > B * w[t]) => 100 * X * ny > B * nx * Y
            /\ (B >= 100 /\ \A s \in C, t \in D : v[s] <= w[t]) => ~(100 * X * ny > B * nx * Y)
<1>1. PICK nx \in Nat \ {0}, ny \in Nat \ {0} : nx = Cardinality(C) /\ ny = Cardinality(D)
  BY FS_EmptySet, FS_CardinalityType
<1>2. PICK s1 \in C : \A s \in C : v[s1] <= v[s]
  BY LeastOf
<1>3. PICK s2 \in C : \A s \in C : v[s] <= v[s2]
  BY GreatestOf
<1>4. PICK t1 \in D : \A t \in D : w[t1] <= w[t]
  BY LeastOf
<1>5. PICK t2 \in D : \A t \in D : w[t] <= w[t2]
  BY GreatestOf
<1>6. PICK x1 \in Int, x2 \in Int, y1 \in Int, y2 \in Int :
         x1 = v[s1] /\ x2 = v[s2] /\ y1 = w[t1] /\ y2 = w[t2]
  OBVIOUS
<1>7. PICK X \in Int : X = SumFunction(v) /\ nx * x1 <= X /\ X <= nx * x2
  <2>1. \A s \in C : x1 <= v[s] /\ v[s] <= x2
    BY <1>2, <1>3, <1>6
  <2>2. SumFunction(v) \in Int /\ nx * x1 <= SumFunction(v) /\ SumFunction(v) <= nx * x2
    BY <1>1, <2>1, SumBounds, Zenon
  <2>3. QED
    BY <2>2
<1>8. PICK Y \in Int : Y = SumFunction(w) /\ ny * y1 <= Y /\ Y <= ny * y2
  <2>1. \A t \in D : y1 <= w[t] /\ w[t] <= y2
    BY <1>4, <1>5, <1>6
  <2>2. SumFunction(w) \in Int /\ ny * y1 <= SumFunction(w) /\ SumFunction(w) <= ny * y2
    BY <1>1, <2>1, SumBounds, Zenon
  <2>3. QED
    BY <2>2
<1>9. Y > 0
  <2>1. 1 <= y1
    BY <1>6
  <2>2. ny * 1 <= ny * y1
    BY <2>1, MulMono
  <2>3. PICK z \in Int : z = ny * y1
    OBVIOUS
  <2>4. QED
    BY <1>8, <2>2, <2>3
<1>10. ASSUME \A s \in C, t \in D : 100 * v[s] > B * w[t]
       PROVE  100 * X * ny > B * nx * Y
  <2>1. 100 * x1 > B * y1 /\ 100 * x1 > B * y2
    BY <1>6, <1>10
  <2>2. B * Y <= ny * (B * y1) \/ B * Y <= ny * (B * y2)
    BY <1>8, ScaledBounds, Zenon
  <2>3. PICK p \in Int : B * Y <= ny * p /\ 100 * x1 > p
    <3>1. B * y1 \in Int /\ B * y2 \in Int
      OBVIOUS
    <3>2. QED
      BY <2>1, <2>2, <3>1, Zenon
  <2>4. nx \in Nat /\ nx * x1 <= X /\ X \in Int /\ Y \in Int /\ x1 \in Int
    BY <1>7
  <2>5. QED
    BY <2>3, <2>4, RatioOfAbove, Zenon
<1>11. ASSUME B >= 100, \A s \in C, t \in D : v[s] <= w[t]
       PROVE  ~(100 * X * ny > B * nx * Y)
  <2>1. x2 <= y1 /\ 100 <= B /\ 0 <= Y
    BY <1>6, <1>9, <1>11
  <2>2. 100 * X * ny <= B * nx * Y
    BY <1>7, <1>8, <2>1, RatioOfAtMost, Zenon
  <2>3. QED
    BY <2>2
<1>12. QED
  BY <1>1, <1>7, <1>8, <1>9, <1>10, <1>11

\* The samples of a side that have metric m, and their mean.
LEMMA MeanIs ==
  ASSUME TypeOK, NEW R \in SUBSET Replicas, NEW m, With(m, R) # {}
  PROVE  /\ IsFiniteSet(With(m, R))
         /\ Cardinality(With(m, R)) \in Nat \ {0}
         /\ [s \in With(m, R) |-> samples[s[1]][s[2]][m]] \in [With(m, R) -> Int]
         /\ m \in DOMAIN mean(R)
         /\ mean(R)[m].sum = SumFunction([s \in With(m, R) |-> samples[s[1]][s[2]][m]])
         /\ mean(R)[m].n = Cardinality(With(m, R))
<1>1. \A s \in With(m, R) : /\ s \in R \X (1 .. Samples)
                            /\ samples[s[1]][s[2]][m] \in Int /\ m \in Metrics
  <2> SUFFICES ASSUME NEW s \in With(m, R)
               PROVE  /\ s \in R \X (1 .. Samples)
                      /\ samples[s[1]][s[2]][m] \in Int /\ m \in Metrics
    OBVIOUS
  <2>1. PICK r \in R : \E i \in DOMAIN samples[r] : s = <<r, i>>
    BY DEF With, Taken
  <2>2. PICK i \in DOMAIN samples[r] : s = <<r, i>>
    BY <2>1
  <2>3. /\ samples[r] \in Seq(SampleSet) /\ Len(samples[r]) \in Nat /\ Len(samples[r]) <= Samples
        /\ DOMAIN samples[r] = 1 .. Len(samples[r])
    <3>1. samples[r] \in Seq(SampleSet)
      BY DEF TypeOK
    <3>2. Len(samples[r]) \in Nat /\ DOMAIN samples[r] = 1 .. Len(samples[r])
      BY <3>1, LenProperties
    <3>3. Len(samples[r]) <= Samples
      BY GatesAssumption DEF TypeOK
    <3>4. QED
      BY <3>1, <3>2, <3>3
  <2>4. samples[r][i] \in SampleSet
    BY <2>3
  <2>5. m \in DOMAIN samples[r][i]
    BY <2>2 DEF With
  <2>6. samples[r][i][m] \in Int /\ m \in Metrics
    BY <2>4, <2>5 DEF SampleSet, Metrics
  <2>7. QED
    BY <2>2, <2>3, <2>6, GatesAssumption
<1>2. IsFiniteSet(With(m, R))
  <2>1. IsFiniteSet(R) /\ IsFiniteSet(1 .. Samples)
    <3>1. IsFiniteSet(Replicas) /\ Samples \in Int /\ 1 \in Int
      BY GatesAssumption
    <3>2. IsFiniteSet(R)
      BY <3>1, FS_Subset
    <3>3. IsFiniteSet(1 .. Samples)
      BY <3>1, FS_Interval
    <3>4. QED
      BY <3>2, <3>3
  <2>2. IsFiniteSet(R \X (1 .. Samples))
    BY <2>1, FS_Product
  <2>3. With(m, R) \in SUBSET (R \X (1 .. Samples))
    BY <1>1
  <2>4. QED
    BY <2>2, <2>3, FS_Subset
<1>3. Cardinality(With(m, R)) \in Nat \ {0}
  BY <1>2, FS_EmptySet, FS_CardinalityType
<1>4. [s \in With(m, R) |-> samples[s[1]][s[2]][m]] \in [With(m, R) -> Int]
  BY <1>1
<1>5. m \in {k \in Metrics : With(k, R) # {}}
  BY <1>1
<1>6. QED
  BY <1>2, <1>3, <1>4, <1>5 DEF mean

\* What evaluate finds on a gate with a max_ratio, when both sides have a mean.
LEMMA RatioJudged ==
  ASSUME NEW g, NEW c, NEW b, "max_ratio" \in DOMAIN g,
         g.metric \in DOMAIN c, g.metric \in DOMAIN b, b[g.metric].sum > 0
  PROVE  /\ RatioAbove(c[g.metric], b[g.metric], g.max_ratio) => evaluate(g, c, b) # "ok"
         /\ DOMAIN g = {"metric", "max_ratio"} /\ ~RatioAbove(c[g.metric], b[g.metric], g.max_ratio)
              => evaluate(g, c, b) = "ok"
BY DEF evaluate

LEMMA ClearJudged ==
  ASSUME GatesInv
  PROVE  ClearCases
<1> SUFFICES ASSUME NEW i \in DOMAIN findings
             PROVE  LET g == gates[i]
                        m == g.metric
                        c == Values(m, Scope)
                        b == Values(m, Replicas \ Scope)
                    IN ("max_ratio" \in DOMAIN g /\ c # {} /\ b # {} /\ \A y \in b : y > 0) =>
                         /\ (\A x \in c, y \in b : 100 * x > g.max_ratio * y) => verdict # "promoted"
                         /\ (g.max_ratio >= 100 /\ DOMAIN g = {"metric", "max_ratio"}
                               /\ \A x \in c, y \in b : x <= y) => findings[i] = "ok"
  BY DEF ClearCases
<1>1. TypeOK /\ Judged
  BY DEF GatesInv
<1>2. PICK g, c, b : g = gates[i] /\ c = mean(Scope) /\ b = mean(Replicas \ Scope)
  OBVIOUS
<1>3. PICK m, P, Q : m = g.metric /\ P = Values(m, Scope) /\ Q = Values(m, Replicas \ Scope)
  OBVIOUS
<1>0. SUFFICES ASSUME "max_ratio" \in DOMAIN g, P # {}, Q # {}, \A y \in Q : y > 0
               PROVE  /\ (\A x \in P, y \in Q : 100 * x > g.max_ratio * y) => verdict # "promoted"
                      /\ (g.max_ratio >= 100 /\ DOMAIN g = {"metric", "max_ratio"}
                            /\ \A x \in P, y \in Q : x <= y) => findings[i] = "ok"
  BY <1>2, <1>3
<1>4. /\ verdict \in {"promoted", "reverted"}
      /\ i \in DOMAIN gates /\ findings[i] = evaluate(g, c, b)
      /\ verdict = "promoted" => findings[i] = "ok"
  <2>1. verdict \in {"none", "promoted", "reverted", "raised"} /\ findings # <<>>
    BY <1>1 DEF TypeOK
  <2>2. verdict \in {"promoted", "reverted"}
    BY <1>1, <2>1 DEF Judged
  <2>3. findings = [k \in DOMAIN gates |-> evaluate(gates[k], c, b)]
    BY <1>1, <1>2, <2>2 DEF Judged
  <2>4. i \in DOMAIN gates /\ findings[i] = evaluate(g, c, b)
    BY <1>2, <2>3
  <2>5. verdict = "promoted" => findings[i] = "ok"
    BY <1>1 DEF Judged
  <2>6. QED
    BY <2>2, <2>4, <2>5
<1>5. PICK B \in Int : B = g.max_ratio
  <2>1. gates \in GateLists
    BY <1>1, <1>4 DEF TypeOK
  <2>2. QED
    BY <1>0, <1>2, <1>4, <2>1, GatesAssumption
<1>6. PICK C, D : C = With(m, Scope) /\ D = With(m, Replicas \ Scope)
  OBVIOUS
<1>7. PICK v, w : /\ v = [s \in C |-> samples[s[1]][s[2]][m]]
                  /\ w = [s \in D |-> samples[s[1]][s[2]][m]]
  OBVIOUS
<1>8. Scope \in SUBSET Replicas /\ Replicas \ Scope \in SUBSET Replicas /\ C # {} /\ D # {}
  <2>1. P = {samples[s[1]][s[2]][m] : s \in C} /\ Q = {samples[s[1]][s[2]][m] : s \in D}
    BY <1>3, <1>6 DEF Values
  <2>2. QED
    BY <1>0, <2>1, GatesAssumption
<1>9. /\ IsFiniteSet(C) /\ v \in [C -> Int]
      /\ m \in DOMAIN c /\ c[m].sum = SumFunction(v) /\ c[m].n = Cardinality(C)
  BY <1>1, <1>2, <1>6, <1>7, <1>8, MeanIs
<1>10. /\ IsFiniteSet(D) /\ w \in [D -> Int]
       /\ m \in DOMAIN b /\ b[m].sum = SumFunction(w) /\ b[m].n = Cardinality(D)
  BY <1>1, <1>2, <1>6, <1>7, <1>8, MeanIs
<1>11. /\ \A s \in C : v[s] \in P
       /\ \A s \in D : w[s] \in Q /\ w[s] > 0
  <2>1. \A s \in C : v[s] \in P
    BY <1>3, <1>6, <1>7 DEF Values
  <2>2. \A s \in D : w[s] \in Q
    BY <1>3, <1>6, <1>7 DEF Values
  <2>3. QED
    BY <1>0, <2>1, <2>2
<1>12. /\ SumFunction(w) > 0
       /\ (\A s \in C, t \in D : 100 * v[s] > B * w[t]) => RatioAbove(c[m], b[m], B)
       /\ (B >= 100 /\ \A s \in C, t \in D : v[s] <= w[t]) => ~RatioAbove(c[m], b[m], B)
  <2>1. PICK nx, ny, X, Y : nx = Cardinality(C) /\ ny = Cardinality(D) /\ X = SumFunction(v) /\ Y = SumFunction(w)
    OBVIOUS
  <2>2. Y > 0
    BY <1>8, <1>9, <1>10, <1>11, <2>1, ClearRatios
  <2>3. RatioAbove(c[m], b[m], B) <=> 100 * X * ny > B * nx * Y
    BY <1>9, <1>10, <2>1, <2>2 DEF RatioAbove
  <2>4. QED
    BY <1>8, <1>9, <1>10, <1>11, <2>1, <2>2, <2>3, ClearRatios
<1>13. /\ RatioAbove(c[m], b[m], B) => findings[i] # "ok"
       /\ DOMAIN g = {"metric", "max_ratio"} /\ ~RatioAbove(c[m], b[m], B) => findings[i] = "ok"
  <2>1. "max_ratio" \in DOMAIN g /\ b[m].sum > 0
    BY <1>0, <1>2, <1>10, <1>12
  <2>2. QED
    BY <1>3, <1>4, <1>5, <1>9, <1>10, <2>1, RatioJudged
<1>14. QED
  BY <1>4, <1>5, <1>11, <1>12, <1>13

-----------------------------------------------------------------------------
(* The theorems. *)

\* The inductive invariant of a canary's evidence: what a sample is made of is
\* what the engine did since the sample before, whatever is served and whoever
\* restarts in between.
THEOREM GatesInductive == Spec => []GatesInv
<1>1. Init => GatesInv
  BY GatesInitInv
<1>2. ASSUME GatesInv, [Next]_vars
      PROVE  GatesInv'
  <2>1. ASSUME NEW r \in Replicas, NEW i \in Buckets, Serve(r, i)
        PROVE  GatesInv'
    BY <1>2, <2>1, ServeInv
  <2>2. ASSUME NEW r \in Replicas, Restart(r)
        PROVE  GatesInv'
    BY <1>2, <2>2, RestartInv
  <2>3. ASSUME NEW r \in Replicas, Sample(r)
        PROVE  GatesInv'
    BY <1>2, <2>3, SampleInv
  <2>4. CASE SampleRaises
    BY <1>2, <2>4, RaiseInv
  <2>5. CASE Decide
    BY <1>2, <2>5, DecideInv
  <2>6. CASE UNCHANGED vars
    BY <1>2, <2>6, GatesStutters
  <2>7. QED
    BY <1>2, <2>1, <2>2, <2>3, <2>4, <2>5, <2>6 DEF Next
<1>3. QED
  BY <1>1, <1>2, PTL DEF Spec

\* Every variable keeps its type, and every side is sampled in every round, the
\* scope ahead of the others (Canary.observe, the loop over both lists).
THEOREM GatesTyped == Spec => []TypeOK
<1>1. GatesInv => TypeOK
  BY DEF GatesInv
<1>2. QED
  BY <1>1, GatesInductive, PTL

\* A sample measures its replica between two scrapes (PrometheusMetrics.sample):
\* its count is exact and a quantile lies in the bucket of the request of that
\* rank, unless the engine restarted.
THEOREM MeasuresHolds == Spec => []SampleMeasures
<1>1. GatesInv => SampleMeasures
  BY DEF GatesInv
<1>2. QED
  BY <1>1, GatesInductive, PTL

\* The interpolation of metrics.quantile stays within the edges and is monotone
\* in q, also on the deltas of a restarted engine, which need not be cumulative.
THEOREM OrderedHolds == Spec => []QuantilesOrdered
<1>1. GatesInv => QuantilesOrdered
  BY DEF GatesInv
<1>2. QED
  BY <1>1, GatesInductive, PTL

\* A canary whose engines finish no request after their first sample passes no
\* gate on a latency (evaluate, "no canary sample").
THEOREM SilentHolds == Spec => []SilentNeverPasses
<1>1. GatesInv => SilentNeverPasses
  BY DEF GatesInv
<1>2. QED
  BY <1>1, GatesInductive, PTL

\* The verdict of evaluate over means agrees with the samples where these leave
\* nothing to judge: for any number of replicas and samples, and although each
\* side's mean is taken over the samples that have the metric.
THEOREM ClearHolds == Spec => []ClearCases
<1>1. GatesInv => ClearCases
  BY ClearJudged
<1>2. QED
  BY <1>1, GatesInductive, PTL
=============================================================================
