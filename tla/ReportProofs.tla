----------------------------- MODULE ReportProofs -----------------------------
(***************************************************************************)
(* Proofs about what a report tells, as Figures asks for it: that          *)
(* summaries, drift and traversal rates describe what completed, and that  *)
(* every engine, label and reading of a lineage is in its tables once, in  *)
(* order and as it was measured, for every run and lineage the harness can *)
(* write.                                                                  *)
(***************************************************************************)
EXTENDS FiguresProofs

-----------------------------------------------------------------------------
(* The summaries.                                                            *)

LEMMA SameCount == \A Z : S!Cardinality(Z) = Cardinality(Z)
  BY DEF S!Cardinality, Cardinality

LEMMA TotalIs ==
  ASSUME NEW f PROVE S!Total(f) = Cardinality(Q!Units(DOMAIN f, f))
  BY SameCount DEF S!Total, Q!Units

LEMMA SumsCover ==
  ASSUME NEW I, NEW f, Counts(I, f), NEW c \in Nat, \A q \in I : c <= f[q]
  PROVE  Cardinality(I) * c <= Cardinality(Q!Units(I, f))
<1>1. IsFiniteSet(1..c) /\ Cardinality(1..c) = c
  <2>1. 1 \in Int /\ c \in Int
    OBVIOUS
  <2>2. IsFiniteSet(1..c) /\ Cardinality(1..c) = IF 1 > c THEN 0 ELSE c - 1 + 1
    BY <2>1, FS_Interval
  <2> QED
    BY <2>2
<1>2. Cardinality(I \X (1..c)) = Cardinality(I) * c
  BY <1>1, FS_Product DEF Counts
<1>3. I \X (1..c) \in SUBSET Q!Units(I, f)
  <2> SUFFICES ASSUME NEW q \in I, NEW k \in 1..c
               PROVE  <<q, k>> \in Q!Units(I, f)
    OBVIOUS
  <2>1. k \in 1..f[q]
    BY DEF Counts
  <2> QED
    BY <2>1, UnitIn
<1>4. IsFiniteSet(Q!Units(I, f))
  BY UnitsAreFew
<1> QED
  BY <1>2, <1>3, <1>4, FS_Subset

\* Latencies of what completed: finitely many numbers.
Readings(lat) == IsFiniteSet(DOMAIN lat) /\ \A i \in DOMAIN lat : lat[i] \in Nat

Under(lat, v) == Cardinality({i \in DOMAIN lat : lat[i] < v})
AtMost(lat, v) == Cardinality({i \in DOMAIN lat : lat[i] <= v})

\* The n-th of finitely many numbers.
LEMMA NthIs ==
  ASSUME NEW lat, Readings(lat), NEW n \in 1..Cardinality(DOMAIN lat)
  PROVE  /\ \E i \in DOMAIN lat : S!NthLeast(lat, n) = lat[i]
         /\ S!NthLeast(lat, n) \in Nat
         /\ Under(lat, S!NthLeast(lat, n)) < n /\ n <= AtMost(lat, S!NthLeast(lat, n))
<1> DEFINE I == DOMAIN lat
           T == {p \in I \X I : lat[p[1]] <= lat[p[2]]}
<1>1. IsFiniteSet(I) /\ \A i \in I : lat[i] \in Nat
  BY DEF Readings
<1>2. \A i, j \in I : <<i, j>> \in T <=> lat[i] <= lat[j]
  OBVIOUS
<1> HIDE DEF T
<1>3. Ranking(I, T)
  <2>1. \A i, j \in I : lat[i] <= lat[j] \/ lat[j] <= lat[i]
    BY <1>1
  <2>2. \A i, j, k \in I : lat[i] <= lat[j] /\ lat[j] <= lat[k] => lat[i] <= lat[k]
    BY <1>1
  <2> QED
    BY <1>1, <1>2, <2>1, <2>2 DEF Ranking
<1>4. PICK k \in I : Cardinality(Below(I, T, k)) < n /\ n <= Cardinality(NotAbove(I, T, k))
  BY <1>1, <1>3, RankExists
<1>5. /\ Below(I, T, k) = {i \in I : lat[i] < lat[k]}
      /\ NotAbove(I, T, k) = {i \in I : lat[i] <= lat[k]}
  <2>1. \A i \in I : (lat[i] < lat[k] <=> ~(lat[k] <= lat[i]))
    BY <1>1
  <2> QED
    BY <1>2, <2>1 DEF Below, NotAbove
<1> DEFINE its(v) == Under(lat, v) < n /\ n <= AtMost(lat, v)
           V == {lat[i] : i \in I}
<1>6. its(lat[k]) /\ lat[k] \in V
  BY <1>4, <1>5 DEF Under, AtMost
<1>7. S!NthLeast(lat, n) = CHOOSE v \in V : its(v)
  BY SameCount DEF S!NthLeast, Under, AtMost
<1> HIDE DEF its, V
<1>8. S!NthLeast(lat, n) \in V /\ its(S!NthLeast(lat, n))
  BY <1>6, <1>7
<1> QED
  BY <1>1, <1>8 DEF its, V

\* Fewer are below a number than are not above it, and none more than all.
LEMMA CountsRise ==
  ASSUME NEW lat, Readings(lat)
  PROVE  /\ \A v : Under(lat, v) \in Nat /\ AtMost(lat, v) \in Nat
         /\ \A u, v \in Nat : u < v => AtMost(lat, u) <= Under(lat, v)
<1> DEFINE I == DOMAIN lat
           Y(v) == {i \in I : lat[i] < v}
           Z(v) == {i \in I : lat[i] <= v}
<1>1. \A v : Y(v) \in SUBSET I /\ Z(v) \in SUBSET I
  OBVIOUS
<1>2. \A u, v \in Nat : u < v => Z(u) \in SUBSET Y(v)
  BY DEF Readings
<1>3. \A v : Under(lat, v) = Cardinality(Y(v)) /\ AtMost(lat, v) = Cardinality(Z(v))
  BY DEF Under, AtMost
<1> HIDE DEF Y, Z
<1>4. \A v : IsFiniteSet(Y(v)) /\ IsFiniteSet(Z(v))
  BY <1>1, FS_Subset DEF Readings
<1>5. \A v : Cardinality(Y(v)) \in Nat /\ Cardinality(Z(v)) \in Nat
  BY <1>4, FS_CardinalityType
<1>6. \A u, v \in Nat : u < v => Cardinality(Z(u)) <= Cardinality(Y(v))
  BY <1>2, <1>4, FS_Subset
<1> QED
  BY <1>3, <1>5, <1>6

\* The rank that is the least to reach a percentage is the nearest rank.
LEMMA NearestIs ==
  ASSUME NEW lat, Readings(lat), NEW r \in 1..Cardinality(DOMAIN lat), NEW need \in Nat, NEW pct,
         need = pct * Cardinality(DOMAIN lat), 100 * r >= need, 100 * (r - 1) < need
  PROVE  S!IsNearestRank(S!NthLeast(lat, r), lat, pct)
<1> DEFINE v == S!NthLeast(lat, r)
<1>1. /\ \E i \in DOMAIN lat : v = lat[i]
      /\ v \in Nat /\ Under(lat, v) < r /\ r <= AtMost(lat, v)
  BY NthIs
<1>2. r \in Nat
  BY FS_CardinalityType DEF Readings
<1> HIDE DEF v
<1>3. 100 * AtMost(lat, v) >= need
  <2>1. AtMost(lat, v) \in Nat /\ r <= AtMost(lat, v)
    BY <1>1, CountsRise
  <2> QED
    BY <1>2, <2>1
<1>4. ASSUME NEW i \in DOMAIN lat, lat[i] < v
      PROVE  100 * AtMost(lat, lat[i]) < need
  <2>1. lat[i] \in Nat
    BY DEF Readings
  <2>2. AtMost(lat, lat[i]) \in Nat /\ Under(lat, v) \in Nat /\ AtMost(lat, lat[i]) <= Under(lat, v)
    BY <1>1, <1>4, <2>1, CountsRise
  <2> QED
    BY <1>1, <1>2, <2>2
<1> QED
  <2> USE DEF v
  <2>1. \A x : S!Cardinality({i \in DOMAIN lat : lat[i] <= x}) = AtMost(lat, x)
    BY SameCount DEF AtMost
  <2>2. S!Cardinality(DOMAIN lat) = Cardinality(DOMAIN lat)
    BY SameCount
  <2> HIDE DEF v
  <2>3. S!IsNearestRank(v, lat, pct)
    BY <1>1, <1>3, <1>4, <2>1, <2>2 DEF S!IsNearestRank
  <2> QED
    BY <2>3 DEF v

\* percentile: the rank, rounded up.
LEMMA RankRoundsUp ==
  ASSUME NEW y \in Nat
  PROVE  LET r == (y * 10000 + 999999) \div 1000000
         IN r \in Nat /\ 100 * r >= y /\ 100 * (r - 1) < y
  BY SMT

LEMMA PercentileIs ==
  ASSUME NEW lat, Readings(lat), DOMAIN lat # {}, NEW pct \in 1..100
  PROVE  /\ S!IsNearestRank(S!Percentile(lat, pct), lat, pct)
         /\ S!Percentile(lat, pct) \in Nat
         /\ \E i \in DOMAIN lat : S!Percentile(lat, pct) = lat[i]
<1> DEFINE n == Cardinality(DOMAIN lat)
           y == n * pct
           r == (y * 10000 + 999999) \div 1000000
<1>1. n \in Nat \ {0} /\ IsFiniteSet(DOMAIN lat)
  BY FS_CardinalityType, FS_EmptySet DEF Readings
<1>2. y \in Nat /\ y >= 1 /\ y <= 100 * n /\ pct * n = y
  <2> HIDE DEF n
  <2>1. n * 1 <= n * pct /\ n * pct <= n * 100 /\ n * pct \in Nat /\ n * pct = pct * n
    BY <1>1, ProductsGrow, Distributes
  <2> QED
    BY <1>1, <2>1
<1> HIDE DEF y
<1>3. r \in Nat /\ 100 * r >= y /\ 100 * (r - 1) < y
  BY <1>2, RankRoundsUp
<1>4. S!Percentile(lat, pct) = S!NthLeast(lat, CASE r < 1 -> 1 [] r > n -> n [] OTHER -> r)
  BY <1>1, SameCount DEF S!Percentile, y
<1> HIDE DEF r, n
<1>5. r \in 1..n
  BY <1>1, <1>2, <1>3
<1>6. S!Percentile(lat, pct) = S!NthLeast(lat, r)
  BY <1>1, <1>4, <1>5
<1>7. S!IsNearestRank(S!NthLeast(lat, r), lat, pct)
  <2>1. y \in Nat /\ y = pct * Cardinality(DOMAIN lat) /\ r \in 1..Cardinality(DOMAIN lat)
    BY <1>2, <1>5 DEF n
  <2> QED
    BY <1>3, <2>1, NearestIs
<1>8. S!NthLeast(lat, r) \in Nat /\ \E i \in DOMAIN lat : S!NthLeast(lat, r) = lat[i]
  BY <1>1, <1>5, NthIs DEF n
<1> QED
  BY <1>6, <1>7, <1>8

\* The last of them is the greatest, the first the least.
LEMMA EndsAre ==
  ASSUME NEW lat, Readings(lat), DOMAIN lat # {}
  PROVE  LET n == Cardinality(DOMAIN lat)  hi == S!NthLeast(lat, n)  lo == S!NthLeast(lat, 1)
         IN /\ S!IsNearestRank(hi, lat, 100)
            /\ hi \in Nat /\ lo \in Nat
            /\ \A i \in DOMAIN lat : lo <= lat[i] /\ lat[i] <= hi
            /\ \E i \in DOMAIN lat : lat[i] = lo
            /\ \E i \in DOMAIN lat : lat[i] = hi
<1> DEFINE n == Cardinality(DOMAIN lat)
           hi == S!NthLeast(lat, n)
           lo == S!NthLeast(lat, 1)
<1>1. IsFiniteSet(DOMAIN lat) /\ \A i \in DOMAIN lat : lat[i] \in Nat
  BY DEF Readings
<1>2. n \in Nat /\ n >= 1
  BY <1>1, FS_CardinalityType, FS_EmptySet
<1>3. n \in 1..n /\ 1 \in 1..n
  BY <1>2
<1>4. /\ \E i \in DOMAIN lat : hi = lat[i]
      /\ hi \in Nat /\ n <= AtMost(lat, hi)
  BY <1>3, NthIs
<1>5. /\ \E i \in DOMAIN lat : lo = lat[i]
      /\ lo \in Nat /\ Under(lat, lo) < 1
  BY <1>3, NthIs
<1>6. S!IsNearestRank(hi, lat, 100)
  <2> DEFINE need == 100 * n
  <2>1. need \in Nat /\ 100 * n >= need /\ 100 * (n - 1) < need
    BY <1>2
  <2> QED
    BY <1>3, <2>1, NearestIs
<1> HIDE DEF hi, lo
<1>7. \A i \in DOMAIN lat : lat[i] <= hi
  <2> DEFINE Z == {i \in DOMAIN lat : lat[i] <= hi}
  <2>1. Z \in SUBSET DOMAIN lat /\ Cardinality(Z) = AtMost(lat, hi)
    BY DEF AtMost
  <2>2. \A i \in DOMAIN lat : i \in Z => lat[i] <= hi
    OBVIOUS
  <2> HIDE DEF Z
  <2>3. Cardinality(Z) \in Nat /\ Cardinality(Z) <= n
    BY <1>1, <2>1, FS_Subset, FS_CardinalityType
  <2>4. Cardinality(Z) = n
    BY <1>2, <1>4, <2>1, <2>3
  <2>5. Z = DOMAIN lat
    BY <1>1, <2>1, <2>4, FS_Subset
  <2> QED
    BY <2>2, <2>5
<1>8. \A i \in DOMAIN lat : lo <= lat[i]
  <2> DEFINE Y == {i \in DOMAIN lat : lat[i] < lo}
  <2>1. Y \in SUBSET DOMAIN lat /\ Cardinality(Y) = Under(lat, lo)
    BY DEF Under
  <2>2. \A i \in DOMAIN lat : lat[i] < lo => i \in Y
    OBVIOUS
  <2> HIDE DEF Y
  <2>3. IsFiniteSet(Y)
    BY <1>1, <2>1, FS_Subset
  <2>4. Cardinality(Y) = 0
    BY <1>5, <2>1, <2>3, FS_CardinalityType
  <2>5. Y = {}
    BY <2>3, <2>4, FS_EmptySet
  <2> QED
    BY <1>1, <1>5, <2>2, <2>5
<1> QED
  BY <1>4, <1>5, <1>6, <1>7, <1>8 DEF hi, lo

\* The sum is between so many times a lower and so many times an upper bound.
LEMMA TotalBounds ==
  ASSUME NEW f, Readings(f), NEW a \in Nat, NEW b \in Nat,
         \A i \in DOMAIN f : a <= f[i] /\ f[i] <= b
  PROVE  /\ S!Total(f) \in Nat
         /\ Cardinality(DOMAIN f) * a <= S!Total(f)
         /\ S!Total(f) <= Cardinality(DOMAIN f) * b
<1>1. Counts(DOMAIN f, f)
  BY DEF Readings, Counts
<1>2. S!Total(f) = Cardinality(Q!Units(DOMAIN f, f))
  BY TotalIs
<1>3. S!Total(f) \in Nat
  BY <1>1, <1>2, UnitsAreFew, FS_CardinalityType
<1>4. Cardinality(DOMAIN f) * a <= S!Total(f)
  BY <1>1, <1>2, SumsCover
<1>5. S!Total(f) <= Cardinality(DOMAIN f) * b
  BY <1>1, <1>2, SumsBound
<1> QED
  BY <1>3, <1>4, <1>5

LEMMA AverageIs ==
  ASSUME NEW f, Readings(f), DOMAIN f # {}, NEW a \in Nat, NEW b \in Nat,
         \A i \in DOMAIN f : a <= f[i] /\ f[i] <= b
  PROVE  LET m == S!Total(f) \div Cardinality(DOMAIN f) IN m \in Nat /\ a <= m /\ m <= b
<1> DEFINE n == Cardinality(DOMAIN f)
           t == S!Total(f)
           m == t \div n
           low == n * a
           high == n * b
<1>1. n \in Nat \ {0}
  BY FS_CardinalityType, FS_EmptySet DEF Readings
<1>2. t \in Nat /\ low <= t /\ t <= high
  BY TotalBounds
<1>3. n * (b + 1) = high + n /\ high \in Int /\ low \in Int
  <2>1. n * (b + 1) = n * b + n * 1 /\ n * b \in Int /\ n * a \in Int
    BY <1>1, Distributes
  <2> QED
    BY <1>1, <2>1
<1>4. m \in Nat
  <2> HIDE DEF n, t
  <2> QED
    BY <1>1, <1>2, DivMod
<1>5. a <= m <=> low <= t
  <2> HIDE DEF n, t
  <2> QED
    BY <1>1, <1>2, QuotientBounds
<1>6. b + 1 <= m <=> n * (b + 1) <= t
  <2>1. b + 1 \in Int
    OBVIOUS
  <2> HIDE DEF n, t
  <2> QED
    BY <1>1, <1>2, <2>1, QuotientBounds
<1> HIDE DEF n, t, m, low, high
<1>7. ~(b + 1 <= m)
  BY <1>1, <1>2, <1>3, <1>6
<1>8. a <= m /\ m <= b
  BY <1>2, <1>4, <1>5, <1>7
<1> QED
  BY <1>4, <1>8 DEF m, n, t

LEMMA RootIs ==
  ASSUME NEW v \in Nat
  PROVE  LET r == S!SquareRoot(v) IN r \in Nat /\ r * r <= v
<1> DEFINE Z == {r \in 0..v : r * r <= v}
<1>1. Z \in SUBSET Int /\ IsFiniteSet(Z) /\ Z # {}
  <2>1. 0 \in Z
    OBVIOUS
  <2>2. IsFiniteSet(0..v)
    BY FS_Interval
  <2>3. Z \in SUBSET (0..v)
    OBVIOUS
  <2> HIDE DEF Z
  <2>4. IsFiniteSet(Z)
    BY <2>2, <2>3, FS_Subset
  <2> QED
    BY <2>1, <2>3, <2>4
<1>2. PICK m \in Z : \A x \in Z : x <= m
  <2> HIDE DEF Z
  <2> QED
    BY <1>1, HasMost
<1>3. m \in 0..v /\ m * m <= v
  OBVIOUS
<1>4. v < (m + 1) * (m + 1)
  <2> SUFFICES ASSUME ~(v < (m + 1) * (m + 1)) PROVE FALSE
    OBVIOUS
  <2> DEFINE k == m + 1
             kk == k * k
  <2>1. k \in Nat /\ k >= 1
    BY <1>3
  <2>2. k * 1 <= kk /\ kk \in Nat
    <3> HIDE DEF k
    <3> QED
      BY <2>1, ProductsGrow
  <2>3. kk <= v
    BY <2>2
  <2>4. k \in 0..v /\ kk <= v
    <3> HIDE DEF kk
    <3>1. k * 1 = k
      BY <2>1
    <3> HIDE DEF k
    <3> QED
      BY <2>1, <2>2, <2>3, <3>1
  <2>5. k \in Z
    BY <2>4
  <2>6. k <= m
    <3> HIDE DEF Z, k
    <3> QED
      BY <1>2, <2>5
  <2> QED
    BY <1>3, <2>6
<1> DEFINE its(r) == r * r <= v /\ v < (r + 1) * (r + 1)
<1>5. S!SquareRoot(v) = CHOOSE r \in 0..v : its(r)
  BY DEF S!SquareRoot
<1>6. its(m)
  BY <1>3, <1>4
<1>7. S!SquareRoot(v) \in 0..v /\ its(S!SquareRoot(v))
  <2> HIDE DEF its
  <2> QED
    BY <1>3, <1>5, <1>6
<1> QED
  BY <1>7

LEMMA SquaresRise ==
  ASSUME NEW r \in Nat, NEW w \in Nat, r * r <= w * w
  PROVE  r <= w
<1> SUFFICES ASSUME ~(r <= w) PROVE FALSE
  OBVIOUS
<1>1. w + 1 \in Nat /\ w + 1 <= r
  OBVIOUS
<1>2. (w + 1) * (w + 1) <= r * r /\ r * r \in Nat
  BY <1>1, ProductsGrow
<1>3. (w + 1) * (w + 1) = w * w + 2 * w + 1 /\ w * w \in Nat
  OBVIOUS
<1> DEFINE rr == r * r
           ww == w * w
           uu == (w + 1) * (w + 1)
<1>4. rr \in Nat /\ ww \in Nat /\ rr <= ww /\ uu <= rr /\ uu = ww + 2 * w + 1
  BY <1>2, <1>3
<1> HIDE DEF rr, ww, uu
<1> QED
  BY <1>4

\* The deviation is within what separates the extremes.
LEMMA DeviationIs ==
  ASSUME NEW lat, Readings(lat), DOMAIN lat # {}, NEW lo \in Nat, NEW hi \in Nat,
         \A i \in DOMAIN lat : lo <= lat[i] /\ lat[i] <= hi,
         NEW mean \in Nat, lo <= mean, mean <= hi
  PROVE  S!StdDev(lat, mean) \in Nat /\ S!StdDev(lat, mean) <= hi - lo
<1> DEFINE w == hi - lo
           ww == w * w
           squares == [i \in DOMAIN lat |-> (lat[i] - mean) * (lat[i] - mean)]
           v == S!Total(squares) \div Cardinality(DOMAIN lat)
<1>1. w \in Nat
  OBVIOUS
<1>2. ww \in Nat
  <2> HIDE DEF w
  <2> QED
    BY <1>1, ProductsGrow
<1>3. \A i \in DOMAIN lat : squares[i] \in Nat /\ 0 <= squares[i] /\ squares[i] <= ww
  <2> SUFFICES ASSUME NEW i \in DOMAIN lat
               PROVE  (lat[i] - mean) * (lat[i] - mean) \in Nat /\ (lat[i] - mean) * (lat[i] - mean) <= ww
    OBVIOUS
  <2>1. lat[i] \in Nat /\ lo <= lat[i] /\ lat[i] <= hi
    BY DEF Readings
  <2>2. PICK e \in Nat : e <= w /\ (lat[i] - mean = e \/ lat[i] - mean = 0 - e)
    <3>1. CASE lat[i] >= mean
      <4>1. lat[i] - mean \in Nat /\ lat[i] - mean <= w
        BY <2>1, <3>1
      <4> QED
        BY <4>1
    <3>2. CASE lat[i] < mean
      <4>1. mean - lat[i] \in Nat /\ mean - lat[i] <= w /\ lat[i] - mean = 0 - (mean - lat[i])
        BY <2>1, <3>2
      <4> QED
        BY <4>1
    <3> QED
      BY <2>1, <3>1, <3>2
  <2>3. e * e <= ww /\ e * e \in Nat
    <3> HIDE DEF w
    <3> QED
      BY <1>1, <2>2, ProductsGrow
  <2>4. (0 - e) * (0 - e) = e * e
    BY <2>2
  <2> HIDE DEF ww
  <2> QED
    BY <2>2, <2>3, <2>4
<1>4. Readings(squares) /\ DOMAIN squares = DOMAIN lat
  BY <1>3 DEF Readings
<1>5. v \in Nat /\ v <= ww
  <2> HIDE DEF squares, ww
  <2>1. DOMAIN squares # {} /\ 0 \in Nat
    BY <1>4
  <2>2. \A i \in DOMAIN squares : 0 <= squares[i] /\ squares[i] <= ww
    BY <1>3, <1>4
  <2>3. LET m == S!Total(squares) \div Cardinality(DOMAIN squares) IN m \in Nat /\ 0 <= m /\ m <= ww
    BY <1>2, <1>4, <2>1, <2>2, AverageIs
  <2> QED
    BY <1>4, <2>3
<1> DEFINE r == S!SquareRoot(v)
<1>6. r \in Nat /\ r * r <= v
  <2> HIDE DEF v
  <2> QED
    BY <1>5, RootIs
<1>7. r <= w
  <2>1. r * r <= w * w
    <3> DEFINE rr == r * r
    <3>1. rr \in Nat /\ rr <= v
      <4> HIDE DEF r, v
      <4> QED
        BY <1>6, ProductsGrow
    <3> HIDE DEF rr, v, ww
    <3>2. rr <= ww
      BY <1>2, <1>5, <3>1
    <3> QED
      BY <3>2 DEF rr, ww
  <2> HIDE DEF r, w
  <2> QED
    BY <1>1, <1>6, <2>1, SquaresRise
<1>8. S!StdDev(lat, mean) = IF Cardinality(DOMAIN lat) < 2 THEN 0 ELSE r
  BY SameCount DEF S!StdDev
<1> HIDE DEF r, w
<1>9. S!StdDev(lat, mean) \in Nat /\ S!StdDev(lat, mean) <= w
  BY <1>1, <1>6, <1>7, <1>8
<1> QED
  BY <1>9 DEF w

LEMMA LeastIs ==
  ASSUME NEW Z \in SUBSET Int, IsFiniteSet(Z), Z # {}
  PROVE  S!Min(Z) \in Z /\ \A y \in Z : S!Min(Z) <= y
<1>1. \E m \in Z : \A y \in Z : m <= y
  BY HasLeast
<1> QED
  BY <1>1 DEF S!Min

LEMMA GreatestIs ==
  ASSUME NEW Z \in SUBSET Int, IsFiniteSet(Z), Z # {}
  PROVE  S!Max(Z) \in Z /\ \A y \in Z : y <= S!Max(Z)
<1>1. \E m \in Z : \A y \in Z : y <= m
  BY HasMost
<1> QED
  BY <1>1 DEF S!Max

LEMMA SamplesAre ==
  ASSUME NEW samples, S!IsSamples(samples)
  PROVE  /\ Len(samples) \in Nat /\ DOMAIN samples = 1..Len(samples)
         /\ IsFiniteSet(DOMAIN samples) /\ Cardinality(DOMAIN samples) = Len(samples)
         /\ \A i \in DOMAIN samples :
              samples[i].latency \in Nat /\ samples[i].rows \in Nat /\ samples[i].start \in Nat
<1>1. /\ Len(samples) \in Nat /\ DOMAIN samples = 1..Len(samples)
      /\ \A i \in DOMAIN samples :
           samples[i].latency \in Nat /\ samples[i].rows \in Nat /\ samples[i].start \in Nat
  BY DEF S!IsSamples
<1> DEFINE n == Len(samples)
<1>2. IsFiniteSet(1..n) /\ Cardinality(1..n) = n
  <2>1. 1 \in Int /\ n \in Int /\ n \in Nat
    BY <1>1
  <2> HIDE DEF n
  <2>2. IsFiniteSet(1..n) /\ Cardinality(1..n) = IF 1 > n THEN 0 ELSE n - 1 + 1
    BY <2>1, FS_Interval
  <2> QED
    BY <2>1, <2>2
<1> QED
  BY <1>1, <1>2

\* The queries of a group that completed, and those that did not.
LEMMA GroupIs ==
  ASSUME NEW samples, S!IsSamples(samples), NEW group \in SUBSET DOMAIN samples
  PROVE  /\ IsFiniteSet(group) /\ Cardinality(group) \in Nat
         /\ S!Done(samples, group) \in SUBSET group
         /\ Readings(S!Latencies(samples, group))
         /\ DOMAIN S!Latencies(samples, group) = S!Done(samples, group)
         /\ Cardinality(S!Done(samples, group)) \in Nat
         /\ Cardinality(S!Done(samples, group)) <= Cardinality(group)
         /\ S!FirstError(samples, group) = None <=>
              Cardinality(group) - Cardinality(S!Done(samples, group)) = 0
<1> DEFINE done == S!Done(samples, group)
           failed == group \ done
<1>1. done = {i \in group : samples[i].err = None}
  BY DEF S!Done
<1>2. done \in SUBSET group /\ failed \in SUBSET group
  BY <1>1
<1>3. DOMAIN S!Latencies(samples, group) = done /\ \A i \in done : S!Latencies(samples, group)[i] \in Nat
  <2>1. \A i \in done : samples[i].latency \in Nat
    BY <1>2, SamplesAre
  <2> QED
    BY <2>1 DEF S!Latencies
<1>4. \A i \in failed : samples[i].err # None
  BY <1>1
<1>5. S!FirstError(samples, group) = IF failed = {} THEN None ELSE samples[S!Min(failed)].err
  BY DEF S!FirstError
<1> HIDE DEF done, failed
<1>6. IsFiniteSet(group) /\ IsFiniteSet(done) /\ IsFiniteSet(failed)
  BY <1>2, SamplesAre, FS_Subset
<1>7. Cardinality(group) \in Nat /\ Cardinality(done) \in Nat /\ Cardinality(failed) \in Nat
  BY <1>6, FS_CardinalityType
<1>8. Cardinality(failed) = Cardinality(group) - Cardinality(done)
  <2>1. group \cap done = done /\ group \ done = failed
    BY <1>2 DEF failed
  <2>2. Cardinality(group \ done) = Cardinality(group) - Cardinality(group \cap done)
    BY <1>6, FS_Difference
  <2> QED
    BY <2>1, <2>2
<1>9. S!FirstError(samples, group) = None <=> failed = {}
  <2>1. failed # {} => S!Min(failed) \in failed
    <3>1. DOMAIN samples \in SUBSET Int
      BY SamplesAre
    <3>2. failed \in SUBSET Int
      BY <1>2, <3>1
    <3> QED
      BY <1>6, <3>2, LeastIs
  <2> QED
    BY <1>4, <1>5, <2>1
<1>10. failed = {} <=> Cardinality(failed) = 0
  BY <1>6, FS_EmptySet
<1>11. S!FirstError(samples, group) = None <=> Cardinality(group) - Cardinality(done) = 0
  BY <1>8, <1>9, <1>10
<1>12. Cardinality(done) <= Cardinality(group)
  BY <1>7, <1>8
<1> QED
  BY <1>2, <1>3, <1>6, <1>7, <1>11, <1>12 DEF done, Readings

\* summarizeGroup: the numbers of a group describe what completed of it.
LEMMA GroupDescribed ==
  ASSUME NEW samples, S!IsSamples(samples), NEW group \in SUBSET DOMAIN samples, NEW class, NEW window
  PROVE  LET stat == S!SummarizeGroup(class, samples, group, window)
             lat == S!Latencies(samples, group)
         IN /\ S!DescribesCompleted(stat, samples, group)
            /\ stat.count = Cardinality(group)
            /\ stat.p99 = S!Percentile(lat, 99)
<1> DEFINE lat == S!Latencies(samples, group)
           n == Cardinality(DOMAIN lat)
           mean == IF n = 0 THEN 0 ELSE S!Total(lat) \div n
           stat == S!SummarizeGroup(class, samples, group, window)
           hi == S!NthLeast(lat, n)
           lo == S!NthLeast(lat, 1)
<1>1. /\ stat.count = Cardinality(group) /\ stat.errors = Cardinality(group) - n
      /\ stat.firstError = S!FirstError(samples, group)
      /\ stat.p50 = S!Percentile(lat, 50) /\ stat.p90 = S!Percentile(lat, 90)
      /\ stat.p95 = S!Percentile(lat, 95) /\ stat.p99 = S!Percentile(lat, 99)
      /\ stat.min = (IF n = 0 THEN 0 ELSE lo) /\ stat.max = (IF n = 0 THEN 0 ELSE hi)
      /\ stat.mean = mean /\ stat.stdDev = S!StdDev(lat, mean)
  BY SameCount DEF S!SummarizeGroup
<1>2. /\ Cardinality(group) \in Nat /\ n \in Nat /\ Readings(lat)
      /\ stat.firstError = None <=> stat.errors = 0
      /\ DOMAIN lat = {} <=> n = 0
  <2>1. Readings(lat) /\ Cardinality(group) \in Nat /\ n \in Nat
    BY GroupIs
  <2>2. S!FirstError(samples, group) = None <=> Cardinality(group) - n = 0
    BY GroupIs
  <2>3. DOMAIN lat = {} <=> n = 0
    BY <2>1, FS_EmptySet DEF Readings
  <2> QED
    BY <1>1, <2>1, <2>2, <2>3
<1>3. ASSUME DOMAIN lat # {}
      PROVE  /\ \A pq \in {<<stat.p50, 50>>, <<stat.p90, 90>>, <<stat.p95, 95>>, <<stat.p99, 99>>,
                           <<stat.max, 100>>} : S!IsNearestRank(pq[1], lat, pq[2])
             /\ \A i \in DOMAIN lat : stat.min <= lat[i]
             /\ stat.min <= stat.mean /\ stat.mean <= stat.max
             /\ stat.stdDev <= stat.max - stat.min
             /\ stat.stdDev = 0 \/ stat.min < stat.max
  <2> HIDE DEF stat
  <2>1. stat.min = lo /\ stat.max = hi /\ mean = S!Total(lat) \div n
    BY <1>1, <1>2, <1>3
  <2>2. /\ S!IsNearestRank(hi, lat, 100) /\ hi \in Nat /\ lo \in Nat
        /\ \A i \in DOMAIN lat : lo <= lat[i] /\ lat[i] <= hi
    BY <1>2, <1>3, EndsAre
  <2>3. mean \in Nat /\ lo <= mean /\ mean <= hi
    <3>1. LET m == S!Total(lat) \div n IN m \in Nat /\ lo <= m /\ m <= hi
      <4> HIDE DEF lo, hi, lat
      <4> QED
        BY <1>2, <1>3, <2>2, AverageIs
    <3> QED
      BY <2>1, <3>1
  <2>4. S!StdDev(lat, mean) \in Nat /\ S!StdDev(lat, mean) <= hi - lo
    <3> HIDE DEF lo, hi, lat, mean
    <3> QED
      BY <1>2, <1>3, <2>2, <2>3, DeviationIs
  <2>5. /\ S!IsNearestRank(stat.p50, lat, 50) /\ S!IsNearestRank(stat.p90, lat, 90)
        /\ S!IsNearestRank(stat.p95, lat, 95) /\ S!IsNearestRank(stat.p99, lat, 99)
    <3> HIDE DEF lat
    <3> QED
      BY <1>1, <1>2, <1>3, PercentileIs
  <2> DEFINE its == {<<stat.p50, 50>>, <<stat.p90, 90>>, <<stat.p95, 95>>, <<stat.p99, 99>>,
                     <<stat.max, 100>>}
  <2>6. \A pq \in its : S!IsNearestRank(pq[1], lat, pq[2])
    <3>1. S!IsNearestRank(stat.max, lat, 100)
      BY <2>1, <2>2
    <3> HIDE DEF lat
    <3> QED
      BY <2>5, <3>1
  <2> HIDE DEF lo, hi, mean, lat
  <2>7. /\ \A i \in DOMAIN lat : stat.min <= lat[i]
        /\ stat.min <= stat.mean /\ stat.mean <= stat.max
        /\ stat.stdDev <= stat.max - stat.min
        /\ stat.stdDev = 0 \/ stat.min < stat.max
    BY <1>1, <2>1, <2>2, <2>3, <2>4
  <2> QED
    BY <2>6, <2>7
<1>4. ASSUME DOMAIN lat = {}
      PROVE  {stat.p50, stat.p99, stat.max, stat.stdDev} = {0}
  <2>1. n = 0
    BY <1>2, <1>4
  <2> HIDE DEF stat, hi, lo, mean
  <2>2. stat.p50 = 0 /\ stat.p99 = 0
    BY <1>1, <2>1, SameCount DEF S!Percentile
  <2>3. stat.stdDev = 0 /\ stat.max = 0
    BY <1>1, <2>1, SameCount DEF S!StdDev
  <2> QED
    BY <2>2, <2>3
<1>5. stat.count = stat.errors + n
  <2> HIDE DEF stat, n
  <2> QED
    BY <1>1, <1>2
<1>6. S!DescribesCompleted(stat, samples, group)
  <2> HIDE DEF stat, lat
  <2>1. S!Cardinality(group) = Cardinality(group) /\ S!Cardinality(DOMAIN lat) = n
    BY SameCount
  <2>2. /\ stat.count = Cardinality(group) /\ stat.count = stat.errors + n
        /\ (stat.firstError = None) <=> (stat.errors = 0)
    BY <1>1, <1>2, <1>5
  <2> HIDE DEF n
  <2> QED
    BY <1>3, <1>4, <2>1, <2>2 DEF S!DescribesCompleted, lat
<1> QED
  BY <1>1, <1>6

\* A set that is parted has as many members as its parts have together.
LEMMA PartsCover ==
  ASSUME NEW Z, IsFiniteSet(Z), NEW I, IsFiniteSet(I), NEW its, NEW f, DOMAIN f = I,
         \A c \in I : its[c] \in SUBSET Z /\ f[c] = Cardinality(its[c]),
         \A z \in Z : \E c \in I : z \in its[c],
         \A z \in Z : \A c, d \in I : z \in its[c] /\ z \in its[d] => c = d
  PROVE  S!Total(f) = Cardinality(Z)
<1> DEFINE U == Q!Units(I, f)
           b == [c \in I |-> CHOOSE g : g \in Bijection(1..f[c], its[c])]
           h == [u \in U |-> b[u[1]][u[2]]]
<1>1. \A c \in I : f[c] \in Nat /\ b[c] \in Bijection(1..f[c], its[c])
  <2> SUFFICES ASSUME NEW c \in I
               PROVE  f[c] \in Nat /\ \E g : g \in Bijection(1..f[c], its[c])
    OBVIOUS
  <2>1. IsFiniteSet(its[c])
    BY FS_Subset
  <2>2. Cardinality(its[c]) \in Nat /\ ExistsBijection(1..Cardinality(its[c]), its[c])
    BY <2>1, FS_CardinalityType
  <2> QED
    BY <2>2 DEF ExistsBijection
<1>2. Counts(I, f)
  BY <1>1 DEF Counts
<1>3. IsFiniteSet(U) /\ S!Total(f) = Cardinality(U)
  BY <1>2, UnitsAreFew, TotalIs
<1>4. /\ \A c, k : <<c, k>> \in U <=> c \in I /\ k \in 1..f[c]
      /\ \A u \in U : u = <<u[1], u[2]>> /\ u[1] \in I /\ u[2] \in 1..f[u[1]]
  BY UnitIn
<1> HIDE DEF b, U
<1>5. /\ \A c \in I : \A k \in 1..f[c] : b[c][k] \in its[c]
      /\ \A c \in I : \A j, k \in 1..f[c] : b[c][j] = b[c][k] => j = k
      /\ \A c \in I : \A z \in its[c] : \E k \in 1..f[c] : b[c][k] = z
  BY <1>1 DEF Bijection, Injection, Surjection, IsInjective
<1>6. \A u \in U : h[u] = b[u[1]][u[2]] /\ h[u] \in its[u[1]] /\ h[u] \in Z
  <2> SUFFICES ASSUME NEW u \in U PROVE b[u[1]][u[2]] \in its[u[1]] /\ its[u[1]] \in SUBSET Z
    OBVIOUS
  <2>1. u[1] \in I /\ u[2] \in 1..f[u[1]]
    BY <1>4
  <2>2. PICK c, k : c = u[1] /\ k = u[2]
    OBVIOUS
  <2>3. c \in I /\ k \in 1..f[c]
    BY <2>1, <2>2
  <2> HIDE DEF h
  <2>4. b[c][k] \in its[c] /\ its[c] \in SUBSET Z
    BY <1>5, <2>3
  <2> QED
    BY <2>2, <2>4
<1>7. h \in [U -> Z]
  BY <1>6
<1>8. \A u, v \in U : h[u] = h[v] => u = v
  <2> SUFFICES ASSUME NEW u \in U, NEW v \in U, h[u] = h[v] PROVE u = v
    OBVIOUS
  <2>1. /\ u[1] \in I /\ u[2] \in 1..f[u[1]] /\ v[1] \in I /\ v[2] \in 1..f[v[1]]
        /\ h[u] \in Z /\ h[u] \in its[u[1]] /\ h[u] \in its[v[1]]
        /\ b[u[1]][u[2]] = b[v[1]][v[2]]
    BY <1>4, <1>6
  <2>2. u[1] = v[1]
    BY <2>1
  <2>3. u[2] = v[2]
    <3>1. PICK c, j, k : c = u[1] /\ j = u[2] /\ k = v[2]
      OBVIOUS
    <3>2. c \in I /\ j \in 1..f[c] /\ k \in 1..f[c] /\ b[c][j] = b[c][k]
      BY <2>1, <2>2, <3>1
    <3> HIDE DEF h
    <3>3. j = k
      BY <1>5, <3>2
    <3> QED
      BY <3>1, <3>3
  <2> QED
    BY <1>4, <2>2, <2>3
<1>9. \A z \in Z : \E u \in U : h[u] = z
  <2> SUFFICES ASSUME NEW z \in Z PROVE \E u \in U : h[u] = z
    OBVIOUS
  <2>1. PICK c \in I : z \in its[c]
    OBVIOUS
  <2>2. PICK k \in 1..f[c] : b[c][k] = z
    BY <1>5, <2>1
  <2>3. <<c, k>> \in U
    BY <1>4
  <2>4. h[<<c, k>>] = z
    BY <1>6, <2>2, <2>3
  <2> QED
    BY <2>3, <2>4
<1> HIDE DEF h
<1>10. h \in Bijection(U, Z)
  BY <1>7, <1>8, <1>9 DEF Bijection, Injection, Surjection, IsInjective
<1> QED
  BY <1>3, <1>10, FS_Bijection DEF ExistsBijection

\* summarize: the summary of a run describes what completed of every class and query, and
\* counts each sample once.
LEMMA RunDescribed ==
  ASSUME NEW samples, S!IsSamples(samples), NEW window
  PROVE  S!IsSummaryOf(S!Summarize(samples, window), samples)
<1> DEFINE C == {samples[i].class : i \in DOMAIN samples}
           queries == {samples[i].query : i \in DOMAIN samples} \ {S!NoQuery}
           byClass == [c \in C |-> S!SummarizeGroup(c, samples, S!OfClass(samples, c), window)]
           byQuery == [q \in queries |->
                        S!SummarizeGroup(samples[S!Min(S!OfQuery(samples, q))].class, samples,
                                         S!OfQuery(samples, q), window)]
           sum == S!Summarize(samples, window)
           counted == [c \in C |-> byClass[c].count]
           its == [c \in C |-> S!OfClass(samples, c)]
<1>1. sum.byClass = byClass /\ sum.byQuery = byQuery
  BY DEF S!Summarize
<1> HIDE DEF sum
<1>2. /\ \A c : S!OfClass(samples, c) \in SUBSET DOMAIN samples
      /\ \A q : S!OfQuery(samples, q) \in SUBSET DOMAIN samples
      /\ \A c : \A i \in DOMAIN samples : i \in S!OfClass(samples, c) <=> samples[i].class = c
  BY DEF S!OfClass, S!OfQuery
<1>3. \A c \in C : /\ S!DescribesCompleted(byClass[c], samples, S!OfClass(samples, c))
                   /\ byClass[c].count = Cardinality(S!OfClass(samples, c))
  <2> SUFFICES ASSUME NEW c \in C
               PROVE  LET stat == S!SummarizeGroup(c, samples, S!OfClass(samples, c), window)
                      IN /\ S!DescribesCompleted(stat, samples, S!OfClass(samples, c))
                         /\ stat.count = Cardinality(S!OfClass(samples, c))
    OBVIOUS
  <2> HIDE DEF C
  <2> QED
    BY <1>2, GroupDescribed
<1>4. \A q \in queries : S!DescribesCompleted(byQuery[q], samples, S!OfQuery(samples, q))
  <2> SUFFICES ASSUME NEW q \in queries, NEW class
               PROVE  S!DescribesCompleted(
                        S!SummarizeGroup(class, samples, S!OfQuery(samples, q), window),
                        samples, S!OfQuery(samples, q))
    OBVIOUS
  <2> HIDE DEF queries
  <2> QED
    BY <1>2, GroupDescribed
<1>5. DOMAIN byClass = C /\ DOMAIN byQuery = queries
  OBVIOUS
<1>6. \A c : S!OfClass(samples, c) = {} => c \notin C
  BY <1>2
<1>7. \A c : S!OfClass(samples, c) # {} => c \in C
  BY <1>2
<1>8. S!Total(counted) = Len(samples)
  <2>1. IsFiniteSet(C)
    <3> DEFINE class == [i \in DOMAIN samples |-> samples[i].class]
    <3>1. class = [i \in DOMAIN samples |-> class[i]] /\ C = {class[i] : i \in DOMAIN samples}
      OBVIOUS
    <3>2. IsFiniteSet(DOMAIN samples)
      BY SamplesAre
    <3> HIDE DEF class, C
    <3> QED
      BY <3>1, <3>2, FewValues
  <2>2. DOMAIN counted = C /\ \A c \in C : its[c] \in SUBSET DOMAIN samples /\ counted[c] = Cardinality(its[c])
    BY <1>2, <1>3
  <2>3. \A i \in DOMAIN samples : \E c \in C : i \in its[c]
    <3> SUFFICES ASSUME NEW i \in DOMAIN samples
                 PROVE  samples[i].class \in C /\ i \in S!OfClass(samples, samples[i].class)
      OBVIOUS
    <3> QED
      BY <1>2
  <2>4. \A i \in DOMAIN samples : \A c, d \in C : i \in its[c] /\ i \in its[d] => c = d
    BY <1>2
  <2>5. IsFiniteSet(DOMAIN samples) /\ Cardinality(DOMAIN samples) = Len(samples)
    BY SamplesAre
  <2> HIDE DEF C, its, counted
  <2> QED
    BY <2>1, <2>2, <2>3, <2>4, <2>5, PartsCover
<1>9. counted = [c \in DOMAIN byClass |-> byClass[c].count]
  OBVIOUS
<1> HIDE DEF C, queries, byClass, byQuery, counted, its
<1>10. S!IsSummaryOf(sum, samples)
  <2>1. DOMAIN sum.byClass = C /\ DOMAIN sum.byQuery = queries
    BY <1>1, <1>5
  <2>2. \A c : IF S!OfClass(samples, c) = {} THEN c \notin DOMAIN sum.byClass
               ELSE S!DescribesCompleted(sum.byClass[c], samples, S!OfClass(samples, c))
    BY <1>1, <1>3, <1>6, <1>7, <2>1
  <2>3. \A q \in DOMAIN sum.byQuery :
          S!DescribesCompleted(sum.byQuery[q], samples, S!OfQuery(samples, q))
    BY <1>1, <1>4, <2>1
  <2>4. S!Total([c \in DOMAIN sum.byClass |-> sum.byClass[c].count]) = Len(samples)
    BY <1>1, <1>8, <1>9
  <2> QED
    BY <2>2, <2>3, <2>4 DEF S!IsSummaryOf
<1> QED
  BY <1>10 DEF sum

-----------------------------------------------------------------------------
(* The drift.                                                                *)

IsReadings(xs, n) == DOMAIN xs = 1..n /\ Len(xs) = n /\ \A i \in 1..n : xs[i] \in Nat

\* A median is a reading, or what lies between two.
LEMMA MedianIs ==
  ASSUME NEW n \in Nat \ {0}, NEW xs, IsReadings(xs, n)
  PROVE  \E i, j \in 1..n :
           S!Median(xs) = IF n % 2 = 1 THEN xs[j] ELSE (xs[i] + xs[j]) \div 2
<1> DEFINE h == n \div 2
           high == S!NthLeast(xs, h + 1)
           low == S!NthLeast(xs, h)
<1>1. n = 2 * h + (n % 2) /\ h \in Nat /\ n % 2 \in 0..1
  <2>1. 2 \in Nat \ {0}
    OBVIOUS
  <2> QED
    BY <2>1, DivMod
<1>2. Readings(xs) /\ Cardinality(DOMAIN xs) = n
  <2>1. DOMAIN xs = 1..n
    BY DEF IsReadings
  <2>2. 1 \in Int /\ n \in Int
    OBVIOUS
  <2>3. IsFiniteSet(1..n) /\ Cardinality(1..n) = IF 1 > n THEN 0 ELSE n - 1 + 1
    BY <2>2, FS_Interval
  <2> QED
    BY <2>1, <2>3 DEF IsReadings, Readings
<1>3. S!Median(xs) = IF n % 2 = 1 THEN high ELSE (low + high) \div 2
  BY DEF S!Median, IsReadings
<1> DEFINE rest == n % 2
<1> HIDE DEF h, rest
<1>4. h + 1 \in 1..Cardinality(DOMAIN xs)
  <2>1. n = 2 * h + rest /\ h \in Nat /\ rest \in 0..1
    BY <1>1 DEF rest
  <2>2. h + 1 \in 1..n
    BY <2>1
  <2> QED
    BY <1>2, <2>2
<1>5. PICK j \in 1..n : high = xs[j]
  BY <1>2, <1>4, NthIs DEF IsReadings
<1>6. CASE n % 2 = 1
  BY <1>3, <1>5, <1>6
<1>7. CASE n % 2 # 1
  <2>1. h \in 1..Cardinality(DOMAIN xs)
    <3>1. n = 2 * h + rest /\ h \in Nat /\ rest = 0
      BY <1>1, <1>7 DEF rest
    <3>2. h \in 1..n
      BY <3>1
    <3> QED
      BY <1>2, <3>2
  <2>2. PICK i \in 1..n : low = xs[i]
    BY <1>2, <2>1, NthIs DEF IsReadings
  <2> HIDE DEF high, low
  <2> QED
    BY <1>3, <1>5, <1>7, <2>2
<1> QED
  BY <1>6, <1>7

LEMMA HalvesRise ==
  ASSUME NEW a \in Nat, NEW b \in Nat, NEW c \in Nat, NEW d \in Nat
  PROVE  /\ (a + b) \div 2 \in Nat
         /\ a > 0 /\ b > 0 => (a + b) \div 2 > 0
         /\ a < c /\ b < d => (a + b) \div 2 < (c + d) \div 2
  BY SMT

LEMMA MediansCompare ==
  ASSUME NEW n \in Nat \ {0}, NEW xs, NEW ys, IsReadings(xs, n), IsReadings(ys, n)
  PROVE  /\ S!Median(xs) \in Nat
         /\ (\A i \in 1..n : xs[i] > 0) => S!Median(xs) > 0
         /\ (\A i, j \in 1..n : xs[i] < ys[j]) => S!Median(xs) < S!Median(ys)
<1>1. PICK i, j \in 1..n : S!Median(xs) = IF n % 2 = 1 THEN xs[j] ELSE (xs[i] + xs[j]) \div 2
  BY MedianIs
<1>2. PICK k, l \in 1..n : S!Median(ys) = IF n % 2 = 1 THEN ys[l] ELSE (ys[k] + ys[l]) \div 2
  BY MedianIs
<1>3. xs[i] \in Nat /\ xs[j] \in Nat /\ ys[k] \in Nat /\ ys[l] \in Nat
  BY DEF IsReadings
<1> DEFINE a == xs[i]
           b == xs[j]
           c == ys[k]
           d == ys[l]
           x == (a + b) \div 2
           y == (c + d) \div 2
<1>4. /\ x \in Nat
      /\ a > 0 /\ b > 0 => x > 0
      /\ a < c /\ b < d => x < y
  <2> HIDE DEF a, b, c, d
  <2> QED
    BY <1>3, HalvesRise DEF a, b, c, d
<1>5. (\A p \in 1..n : xs[p] > 0) => a > 0 /\ b > 0
  OBVIOUS
<1>6. (\A p, q \in 1..n : xs[p] < ys[q]) => a < c /\ b < d
  OBVIOUS
<1>7. /\ S!Median(xs) = IF n % 2 = 1 THEN b ELSE x
      /\ S!Median(ys) = IF n % 2 = 1 THEN d ELSE y
      /\ b \in Nat /\ d \in Nat
  BY <1>1, <1>2, <1>3
<1> HIDE DEF a, b, c, d, x, y
<1> QED
  BY <1>4, <1>5, <1>6, <1>7

\* A run whose second half repeats its first has not drifted, and one whose every later
\* window is worse has drifted up.
LEMMA TrendIs ==
  ASSUME NEW n \in Nat, n >= 2, NEW xs, IsReadings(xs, n)
  PROVE  LET half == n \div 2
             trend == S!Trend(xs)
         IN /\ (\A i \in 1..half : xs[i] > 0 /\ xs[(n - half) + i] = xs[i]) => trend[1] = trend[2]
            /\ (\A i \in 1..half : \A j \in ((n - half) + 1)..n : xs[i] < xs[j])
                 => trend[1] > trend[2] \/ trend = S!Zero
<1> DEFINE half == n \div 2
           early == [i \in 1..half |-> xs[i]]
           late == [i \in 1..half |-> xs[(n - half) + i]]
           trend == S!Trend(xs)
<1>1. half \in Nat \ {0} /\ 2 * half <= n
  <2>1. 2 \in Nat \ {0}
    OBVIOUS
  <2>2. n = 2 * half + (n % 2) /\ half \in Nat /\ n % 2 \in 0..1
    BY <2>1, DivMod
  <2> DEFINE rest == n % 2
  <2> HIDE DEF half, rest
  <2>3. n = 2 * half + rest /\ half \in Nat /\ rest \in 0..1
    BY <2>2 DEF rest
  <2> QED
    BY <2>3
<1>2. trend = IF half = 0 \/ S!Median(early) <= 0 THEN S!Zero ELSE <<S!Median(late), S!Median(early)>>
  BY DEF S!Trend, IsReadings
<1> HIDE DEF half
<1>3. \A i \in 1..half : i \in 1..n /\ (n - half) + i \in 1..n /\ (n - half) + i \in ((n - half) + 1)..n
  BY <1>1
<1>4. \A i \in 1..half : early[i] \in Nat /\ late[i] \in Nat
  BY <1>3 DEF IsReadings
<1>5. IsReadings(early, half) /\ IsReadings(late, half)
  <2>1. DOMAIN early = 1..half /\ DOMAIN late = 1..half
    OBVIOUS
  <2>2. Len(early) = half /\ Len(late) = half
    BY <1>1
  <2> QED
    BY <1>4, <2>1, <2>2 DEF IsReadings
<1>6. \A i \in 1..half : early[i] = xs[i] /\ late[i] = xs[(n - half) + i]
  OBVIOUS
<1>7. early = late \/ \E i \in 1..half : early[i] # late[i]
  OBVIOUS
<1> HIDE DEF early, late, trend
<1>8. /\ S!Median(early) \in Nat /\ S!Median(late) \in Nat
      /\ (\A i \in 1..half : early[i] > 0) => S!Median(early) > 0
      /\ (\A i, j \in 1..half : early[i] < late[j]) => S!Median(early) < S!Median(late)
  BY <1>1, <1>5, MediansCompare
<1>9. ASSUME \A i \in 1..half : xs[i] > 0 /\ xs[(n - half) + i] = xs[i]
      PROVE  trend[1] = trend[2]
  <2>1. early = late /\ S!Median(early) > 0
    BY <1>6, <1>7, <1>8, <1>9
  <2> QED
    BY <1>1, <1>2, <1>8, <2>1
<1>10. ASSUME \A i \in 1..half : \A j \in ((n - half) + 1)..n : xs[i] < xs[j]
       PROVE  trend[1] > trend[2] \/ trend = S!Zero
  <2>1. \A i, j \in 1..half : early[i] < late[j]
    <3> SUFFICES ASSUME NEW i \in 1..half, NEW j \in 1..half PROVE early[i] < late[j]
      OBVIOUS
    <3>1. (n - half) + j \in ((n - half) + 1)..n
      BY <1>3
    <3> QED
      BY <1>6, <1>10, <3>1
  <2> QED
    BY <1>1, <1>2, <1>8, <2>1
<1> QED
  BY <1>9, <1>10 DEF half, trend

\* There is a first of the worst windows.
LEMMA WorstExists ==
  ASSUME NEW n \in Nat \ {0}, NEW p, \A w \in 0..(n - 1) : p[w] \in Nat
  PROVE  \E w \in 0..(n - 1) : /\ \A v \in 0..(n - 1) : p[v] <= p[w]
                               /\ \A v \in 0..(w - 1) : p[v] < p[w]
<1> DEFINE W == 0..(n - 1)
           f == [w \in W |-> p[w]]
           P == {f[w] : w \in W}
<1>1. IsFiniteSet(W) /\ 0 \in W
  <2>1. 0 \in Int /\ n - 1 \in Int
    OBVIOUS
  <2> QED
    BY <2>1, FS_Interval
<1>2. IsFiniteSet(P)
  <2>1. f = [w \in W |-> f[w]]
    OBVIOUS
  <2> HIDE DEF f, W
  <2> QED
    BY <1>1, <2>1, FewValues
<1>3. P \in SUBSET Int /\ P # {}
  BY <1>1
<1>4. PICK m \in P : \A x \in P : x <= m
  <2> HIDE DEF P
  <2> QED
    BY <1>2, <1>3, HasMost
<1> DEFINE Z == {w \in W : p[w] = m}
<1>5. Z \in SUBSET W /\ Z \in SUBSET Int /\ Z # {}
  BY <1>4
<1>6. PICK w \in Z : \A v \in Z : w <= v
  <2>1. IsFiniteSet(Z)
    BY <1>1, <1>5, FS_Subset
  <2> HIDE DEF Z
  <2> QED
    BY <1>5, <2>1, HasLeast
<1>7. w \in W /\ p[w] = m
  BY <1>6
<1>8. \A v \in W : p[v] <= p[w]
  BY <1>4, <1>7
<1>9. \A v \in 0..(w - 1) : p[v] < p[w]
  <2> SUFFICES ASSUME NEW v \in 0..(w - 1) PROVE p[v] < p[w]
    OBVIOUS
  <2>1. v \in W /\ ~(w <= v)
    BY <1>7
  <2>2. p[v] # m
    BY <1>6, <2>1
  <2> QED
    BY <1>7, <1>8, <2>1, <2>2
<1> QED
  BY <1>7, <1>8, <1>9

LEMMA WindowsAre ==
  ASSUME NEW samples, S!IsSamples(samples), NEW window \in Nat \ {0}
  PROVE  LET n == S!WholeWindows(samples, window)
         IN n \in Nat /\ (n >= 1 => \E i \in DOMAIN samples : samples[i].start >= n * window)
<1> DEFINE start == [i \in DOMAIN samples |-> samples[i].start]
           starts == {start[i] : i \in DOMAIN samples}
           Z == {0} \cup starts
           m == S!Max(Z)
           n == m \div window
<1>1. S!WholeWindows(samples, window) = n
  <2>1. starts = {samples[i].start : i \in DOMAIN samples}
    OBVIOUS
  <2> HIDE DEF starts
  <2> QED
    BY <2>1 DEF S!WholeWindows
<1>2. IsFiniteSet(starts)
  <2>1. start = [i \in DOMAIN samples |-> start[i]] /\ IsFiniteSet(DOMAIN samples)
    BY SamplesAre
  <2> HIDE DEF start
  <2> QED
    BY <2>1, FewValues
<1>3. Z \in SUBSET Nat /\ Z # {}
  BY SamplesAre
<1>4. \A x \in Z : x = 0 \/ \E i \in DOMAIN samples : samples[i].start = x
  OBVIOUS
<1>5. IsFiniteSet(Z)
  <2> HIDE DEF starts
  <2> QED
    BY <1>2, FS_Singleton, FS_Union
<1> HIDE DEF Z
<1>6. m \in Z /\ m \in Nat
  <2>1. Z \in SUBSET Int
    BY <1>3
  <2>2. m \in Z
    BY <1>3, <1>5, <2>1, GreatestIs
  <2> QED
    BY <1>3, <2>2
<1> HIDE DEF m
<1>7. n \in Nat
  BY <1>6, DivMod
<1>8. window * n <= m
  BY <1>6, <1>7, QuotientBounds
<1>9. ASSUME n >= 1 PROVE \E i \in DOMAIN samples : samples[i].start >= n * window
  <2>1. window * n >= window /\ window * n = n * window /\ window * n \in Int
    <3> HIDE DEF n
    <3> QED
      BY <1>7, <1>9, TimesOneOrMore, Distributes
  <2> DEFINE t == n * window
  <2>2. t >= window /\ t <= m /\ t \in Int
    BY <1>8, <2>1
  <2> HIDE DEF t
  <2>3. m # 0
    BY <1>6, <2>2
  <2>4. PICK i \in DOMAIN samples : samples[i].start = m
    BY <1>4, <1>6, <2>3
  <2>5. samples[i].start >= t
    BY <1>6, <2>2, <2>4
  <2> QED
    BY <2>5 DEF t
<1> QED
  BY <1>1, <1>7, <1>9

LEMMA WorstReadsNat ==
  ASSUME NEW samples, S!IsSamples(samples), NEW group \in SUBSET DOMAIN samples, NEW class, NEW window
  PROVE  S!SummarizeGroup(class, samples, group, window).p99 \in Nat
<1> DEFINE lat == S!Latencies(samples, group)
<1>1. S!SummarizeGroup(class, samples, group, window).p99 = S!Percentile(lat, 99)
  BY GroupDescribed
<1>2. Readings(lat)
  BY GroupIs
<1> HIDE DEF lat
<1>3. S!Percentile(lat, 99) \in Nat
  <2>1. CASE DOMAIN lat = {}
    <3>1. Cardinality(DOMAIN lat) = 0
      BY <2>1, FS_EmptySet
    <3> QED
      BY <3>1, SameCount DEF S!Percentile
  <2>2. CASE DOMAIN lat # {}
    <3>1. 99 \in 1..100
      OBVIOUS
    <3> QED
      BY <1>2, <2>2, <3>1, PercentileIs
  <2> QED
    BY <2>1, <2>2
<1> QED
  BY <1>1, <1>3

\* What is told of a class that drifted or did not.
LEMMA ClassDrift ==
  ASSUME NEW samples, S!IsSamples(samples), NEW window \in Nat \ {0},
         NEW c \in DOMAIN S!DriftOf(samples, window)
  PROVE  LET n == S!WholeWindows(samples, window)
             d == S!DriftOf(samples, window)[c]
         IN /\ n \in Nat /\ n >= 2 /\ d.windows = n
            /\ c \in S!Compared(samples, window)
            /\ IsReadings(d.p99s, n)
            /\ d.first.p99 = d.p99s[1]
            /\ d.trend = S!Trend(d.p99s)
            /\ \E w \in 0..(n - 1) : /\ d.worst.p99 = d.p99s[w + 1] /\ d.worstAt = w * window
                                     /\ \A v \in 0..(n - 1) : d.p99s[v + 1] <= d.p99s[w + 1]
<1> DEFINE n == S!WholeWindows(samples, window)
           d == S!DriftOf(samples, window)[c]
           stat(w) == S!SummarizeGroup(c, samples, S!InWindow(samples, c, window, w), window)
           p == [w \in 0..(n - 1) |-> stat(w).p99]
           xs == [i \in 1..n |-> stat(i - 1).p99]
           its(w) == /\ \A v \in 0..(n - 1) : stat(v).p99 <= stat(w).p99
                     /\ \A v \in 0..(w - 1) : stat(v).p99 < stat(w).p99
           worst == CHOOSE w \in 0..(n - 1) : its(w)
<1>1. n \in Nat
  BY WindowsAre
<1>2. \A w : stat(w).p99 \in Nat
  <2> SUFFICES ASSUME NEW w PROVE stat(w).p99 \in Nat
    OBVIOUS
  <2>1. S!InWindow(samples, c, window, w) \in SUBSET DOMAIN samples
    BY DEF S!InWindow, S!OfClass
  <2> QED
    BY <2>1, WorstReadsNat
<1>3. /\ n >= 2 /\ c \in S!Compared(samples, window)
      /\ d = [windows |-> n, first |-> stat(0), worst |-> stat(worst),
              worstAt |-> worst * window, p99s |-> xs, trend |-> S!Trend(xs)]
  <2> DEFINE drifted == [k \in S!Compared(samples, window) |->
               LET of(w) == S!SummarizeGroup(k, samples, S!InWindow(samples, k, window, w), window)
                   bad == CHOOSE w \in 0..(n - 1) :
                            /\ \A v \in 0..(n - 1) : of(v).p99 <= of(w).p99
                            /\ \A v \in 0..(w - 1) : of(v).p99 < of(w).p99
                   ps == [i \in 1..n |-> of(i - 1).p99]
               IN [windows |-> n, first |-> of(0), worst |-> of(bad),
                   worstAt |-> bad * window, p99s |-> ps, trend |-> S!Trend(ps)]]
  <2>1. S!DriftOf(samples, window) =
          IF n < 2 \/ S!Compared(samples, window) = {} THEN S!NoDrift ELSE drifted
    BY DEF S!DriftOf
  <2>2. DOMAIN S!NoDrift = {}
    BY DEF S!NoDrift
  <2>3. DOMAIN drifted = S!Compared(samples, window)
    OBVIOUS
  <2> HIDE DEF drifted, n
  <2>4. ~(n < 2) /\ S!DriftOf(samples, window) = drifted /\ c \in S!Compared(samples, window)
    BY <2>1, <2>2, <2>3
  <2>5. n >= 2
    BY <1>1, <2>4
  <2>6. d = drifted[c]
    BY <2>4
  <2> QED
    BY <2>4, <2>5, <2>6 DEF drifted
<1> HIDE DEF d, n
<1>4. worst \in 0..(n - 1) /\ its(worst)
  <2>1. n \in Nat \ {0} /\ \A w \in 0..(n - 1) : p[w] \in Nat
    BY <1>1, <1>2, <1>3
  <2>2. \A w \in 0..(n - 1) : p[w] = stat(w).p99
    OBVIOUS
  <2> HIDE DEF p
  <2>3. PICK w \in 0..(n - 1) : /\ \A v \in 0..(n - 1) : p[v] <= p[w]
                                /\ \A v \in 0..(w - 1) : p[v] < p[w]
    BY <2>1, WorstExists
  <2> HIDE DEF stat
  <2>4. \A v \in 0..(w - 1) : v \in 0..(n - 1)
    BY <2>1
  <2>5. its(w)
    BY <2>2, <2>3, <2>4
  <2> HIDE DEF its
  <2> QED
    BY <2>5
<1> HIDE DEF worst
<1>5. \A v \in 0..(n - 1) : xs[v + 1] = stat(v).p99
  <2> SUFFICES ASSUME NEW v \in 0..(n - 1) PROVE xs[v + 1] = stat(v).p99
    OBVIOUS
  <2>1. v + 1 \in 1..n /\ (v + 1) - 1 = v
    BY <1>1
  <2> HIDE DEF stat
  <2> QED
    BY <2>1
<1>6. IsReadings(xs, n)
  <2> HIDE DEF stat
  <2>1. \A i \in 1..n : xs[i] \in Nat
    BY <1>2
  <2>2. DOMAIN xs = 1..n /\ Len(xs) = n
    BY <1>1
  <2> QED
    BY <2>1, <2>2 DEF IsReadings
<1>7. 0 \in 0..(n - 1) /\ xs[0 + 1] = xs[1]
  BY <1>1, <1>3
<1> HIDE DEF xs, stat
<1>8. /\ d.windows = n /\ d.p99s = xs /\ d.trend = S!Trend(d.p99s)
      /\ d.first.p99 = d.p99s[1]
      /\ d.worst.p99 = d.p99s[worst + 1] /\ d.worstAt = worst * window
      /\ \A v \in 0..(n - 1) : d.p99s[v + 1] <= d.p99s[worst + 1]
  BY <1>3, <1>4, <1>5, <1>7
<1> QED
  BY <1>1, <1>3, <1>4, <1>6, <1>8 DEF d, n

\* analyzeDrift compares whole windows, none of them empty.
LEMMA DriftDescribed ==
  ASSUME NEW samples, S!IsSamples(samples), NEW window \in Nat \ {0}
  PROVE  S!ComparesWholeWindows(S!DriftOf(samples, window), samples, window)
<1> SUFFICES ASSUME NEW c \in DOMAIN S!DriftOf(samples, window)
             PROVE  LET d == S!DriftOf(samples, window)[c]  half == Len(d.p99s) \div 2
                    IN /\ d.windows >= 2
                       /\ \E i \in DOMAIN samples : samples[i].start >= d.windows * window
                       /\ \A w \in 0..(d.windows - 1) : \E i \in DOMAIN samples :
                            /\ samples[i].class = c
                            /\ samples[i].start \in (w * window)..((w + 1) * window - 1)
                       /\ d.worst.p99 >= d.first.p99
                       /\ \A i \in DOMAIN d.p99s : d.p99s[i] <= d.worst.p99
                       /\ d.p99s[d.worstAt \div window + 1] = d.worst.p99
                       /\ (\A i \in 1..half : /\ d.p99s[i] > 0
                                              /\ d.p99s[Len(d.p99s) - half + i] = d.p99s[i])
                            => d.trend[1] = d.trend[2]
                       /\ (\A i \in 1..half : \A j \in (Len(d.p99s) - half + 1)..Len(d.p99s) :
                              d.p99s[i] < d.p99s[j])
                            => d.trend[1] > d.trend[2] \/ d.trend = S!Zero
  BY DEF S!ComparesWholeWindows
<1> DEFINE n == S!WholeWindows(samples, window)
           d == S!DriftOf(samples, window)[c]
           xs == d.p99s
           half == n \div 2
<1>1. /\ n \in Nat /\ n >= 2 /\ d.windows = n
      /\ c \in S!Compared(samples, window)
      /\ IsReadings(xs, n)
      /\ d.first.p99 = xs[1]
      /\ d.trend = S!Trend(xs)
  BY ClassDrift
<1>2. PICK w \in 0..(n - 1) : /\ d.worst.p99 = xs[w + 1] /\ d.worstAt = w * window
                              /\ \A v \in 0..(n - 1) : xs[v + 1] <= xs[w + 1]
  BY ClassDrift
<1>3. \E i \in DOMAIN samples : samples[i].start >= n * window
  BY <1>1, WindowsAre
<1>4. ASSUME NEW v \in 0..(n - 1)
      PROVE  \E i \in DOMAIN samples : /\ samples[i].class = c
                                       /\ samples[i].start \in (v * window)..((v + 1) * window - 1)
  <2>1. S!InWindow(samples, c, window, v) # {}
    BY <1>1 DEF S!Compared
  <2>2. PICK i \in DOMAIN samples : samples[i].class = c /\ samples[i].start \div window = v
    BY <2>1 DEF S!InWindow, S!OfClass
  <2>3. samples[i].start \in Nat
    BY SamplesAre
  <2> DEFINE s == samples[i].start
             q == s \div window
             r == s % window
             t == v * window
  <2>4. s = window * q + r /\ r \in 0..window - 1 /\ q = v
    <3> HIDE DEF s
    <3>1. s \in Nat
      BY <2>3 DEF s
    <3> QED
      BY <2>2, <3>1, DivMod DEF s
  <2>5. window * v = t /\ t \in Int /\ (v + 1) * window = t + window
    <3>1. v \in Int /\ 1 \in Int /\ window \in Int
      OBVIOUS
    <3>2. (v + 1) * window = v * window + 1 * window /\ v * window = window * v /\ v * window \in Int
      BY <3>1, Distributes
    <3> QED
      BY <3>2
  <2> HIDE DEF q, r
  <2>6. s = t + r
    BY <2>4, <2>5
  <2> DEFINE u == (v + 1) * window
  <2>7. u = t + window /\ s \in Nat
    BY <2>3, <2>5
  <2> HIDE DEF s, t, u
  <2>8. s \in t..(u - 1)
    BY <2>4, <2>5, <2>6, <2>7
  <2> QED
    BY <2>2, <2>8 DEF s, t, u
<1>5. \A i \in 1..n : xs[i] <= d.worst.p99
  <2> HIDE DEF n, d, xs
  <2> SUFFICES ASSUME NEW i \in 1..n PROVE xs[i] <= d.worst.p99
    OBVIOUS
  <2>1. i - 1 \in 0..(n - 1) /\ (i - 1) + 1 = i
    BY <1>1
  <2> QED
    BY <1>2, <2>1
<1>6. d.worst.p99 >= d.first.p99
  <2> HIDE DEF n, d, xs
  <2>1. 1 \in 1..n /\ w + 1 \in 1..n
    BY <1>1
  <2>2. xs[1] \in Nat /\ xs[w + 1] \in Nat
    BY <1>1, <2>1 DEF IsReadings
  <2> QED
    BY <1>1, <1>2, <1>5, <2>1, <2>2
<1>7. xs[d.worstAt \div window + 1] = d.worst.p99
  <2> HIDE DEF n, d, xs
  <2>1. (w * window) \div window = w
    <3>1. w \in Nat /\ 0 \in 0..window - 1
      OBVIOUS
    <3>2. (window * w + 0) \div window = w
      BY <3>1, RemainderIs
    <3>3. window * w + 0 = w * window
      <4>1. window * w = w * window /\ window * w \in Int
        BY <3>1, Distributes
      <4> QED
        BY <4>1
    <3> QED
      BY <3>2, <3>3
  <2> QED
    BY <1>2, <2>1
<1>8. /\ (\A i \in 1..half : xs[i] > 0 /\ xs[(n - half) + i] = xs[i]) => d.trend[1] = d.trend[2]
      /\ (\A i \in 1..half : \A j \in ((n - half) + 1)..n : xs[i] < xs[j])
           => d.trend[1] > d.trend[2] \/ d.trend = S!Zero
  <2> HIDE DEF d, xs, n
  <2> QED
    BY <1>1, TrendIs
<1>9. DOMAIN xs = 1..n /\ Len(xs) = n
  BY <1>1 DEF IsReadings
<1> HIDE DEF d, n
<1>10. /\ d.windows >= 2
       /\ \E i \in DOMAIN samples : samples[i].start >= d.windows * window
       /\ \A v \in 0..(d.windows - 1) : \E i \in DOMAIN samples :
            /\ samples[i].class = c
            /\ samples[i].start \in (v * window)..((v + 1) * window - 1)
  <2>1. d.windows = n
    BY <1>1
  <2> HIDE DEF d
  <2> QED
    BY <1>1, <1>3, <1>4, <2>1
<1>11. /\ (\A i \in 1..(Len(xs) \div 2) : /\ xs[i] > 0
                                         /\ xs[Len(xs) - (Len(xs) \div 2) + i] = xs[i])
            => d.trend[1] = d.trend[2]
       /\ (\A i \in 1..(Len(xs) \div 2) :
             \A j \in (Len(xs) - (Len(xs) \div 2) + 1)..Len(xs) : xs[i] < xs[j])
            => d.trend[1] > d.trend[2] \/ d.trend = S!Zero
  <2> HIDE DEF xs
  <2> QED
    BY <1>8, <1>9
<1>12. \A i \in DOMAIN xs : xs[i] <= d.worst.p99
  BY <1>5, <1>9
<1> QED
  BY <1>6, <1>7, <1>10, <1>11, <1>12 DEF d

-----------------------------------------------------------------------------
(* The traversal rate.                                                       *)

LEMMA ProductsTurn ==
  ASSUME NEW a \in Nat, NEW b \in Nat, NEW c \in Nat
  PROVE  (a * b) * c = b * (a * c) /\ a * b \in Nat /\ a * c \in Nat
  BY SMT

\* NewTraversal: the aggregate rate is all edges over all time.
LEMMA RateAggregates ==
  ASSUME NEW edges \in Int, NEW durs \in Seq(Int)
  PROVE  S!IsAggregateRate(S!NewTraversal(edges, durs), durs)
<1> DEFINE t == S!NewTraversal(edges, durs)
           perRep == [i \in DOMAIN durs |-> S!Teps(edges, durs[i])]
           timed == {i \in DOMAIN durs : durs[i] > 0}
           time == [i \in timed |-> durs[i]]
           n == Cardinality(timed)
           all == S!Total(time)
<1>1. t.edges = edges /\ t.harmonicMean = S!HarmonicMean(perRep)
  BY DEF S!NewTraversal
<1>2. \A i \in DOMAIN durs : durs[i] \in Int
  OBVIOUS
<1>3. \A i \in DOMAIN durs :
        /\ durs[i] <= 0 \/ edges <= 0 => perRep[i][1] = 0
        /\ ~(durs[i] <= 0 \/ edges <= 0) => perRep[i][1] = edges /\ perRep[i][2] = durs[i]
  <2> SUFFICES ASSUME NEW i \in DOMAIN durs
               PROVE  LET rate == S!Teps(edges, durs[i])
                      IN /\ durs[i] <= 0 \/ edges <= 0 => rate[1] = 0
                         /\ ~(durs[i] <= 0 \/ edges <= 0) => rate[1] = edges /\ rate[2] = durs[i]
    OBVIOUS
  <2>1. S!Teps(edges, durs[i]) = IF durs[i] <= 0 \/ edges <= 0 THEN <<0, 1>> ELSE <<edges, durs[i]>>
    BY DEF S!Teps, S!Zero
  <2> QED
    BY <2>1
<1>4. DOMAIN perRep = DOMAIN durs
  OBVIOUS
<1> DEFINE positive == {i \in DOMAIN perRep : perRep[i][1] > 0}
<1>5. S!HarmonicMean(perRep) =
        IF positive = {} THEN S!Zero
        ELSE <<S!Cardinality(positive) * perRep[S!Min(positive)][1],
               S!Total([i \in positive |-> perRep[i][2]])>>
  BY DEF S!HarmonicMean
<1> HIDE DEF perRep, t
<1>6. edges <= 0 => positive = {}
  BY <1>3, <1>4
<1>7. edges > 0 => positive = timed
  <2> SUFFICES ASSUME edges > 0 PROVE positive = timed
    OBVIOUS
  <2>1. \A i \in DOMAIN durs : perRep[i][1] > 0 <=> durs[i] > 0
    BY <1>2, <1>3
  <2> QED
    BY <1>4, <2>1
<1>8. \A i \in timed : edges > 0 => perRep[i][1] = edges /\ perRep[i][2] = durs[i]
  <2> SUFFICES ASSUME NEW i \in timed, edges > 0 PROVE perRep[i][1] = edges /\ perRep[i][2] = durs[i]
    OBVIOUS
  <2>1. i \in DOMAIN durs /\ durs[i] \in Int /\ durs[i] > 0
    BY <1>2
  <2> HIDE DEF timed
  <2> QED
    BY <1>3, <2>1
<1>9. timed \in SUBSET DOMAIN durs /\ (\A i \in timed : durs[i] \in Nat \ {0})
  BY <1>2
<1>10. IsFiniteSet(timed) /\ timed \in SUBSET Int
  <2>1. DOMAIN durs = 1..Len(durs) /\ Len(durs) \in Int /\ 1 \in Int
    OBVIOUS
  <2>2. IsFiniteSet(DOMAIN durs)
    BY <2>1, FS_Interval
  <2>3. DOMAIN durs \in SUBSET Int
    BY <2>1
  <2> HIDE DEF timed
  <2> QED
    BY <1>9, <2>2, <2>3, FS_Subset
<1>11. timed = {} \/ edges <= 0 => t.harmonicMean = S!Zero
  BY <1>1, <1>5, <1>6, <1>7
<1>12. ASSUME timed # {}, edges > 0
       PROVE  /\ t.harmonicMean = <<n * edges, all>>
              /\ \E i \in timed : edges * all <= (n * edges) * durs[i]
              /\ \E i \in timed : (n * edges) * durs[i] <= edges * all
  <2>1. positive = timed
    BY <1>7, <1>12
  <2>2. S!Min(timed) \in timed
    <3> HIDE DEF timed
    <3> QED
      BY <1>10, <1>12, LeastIs
  <2>3. perRep[S!Min(timed)][1] = edges
    <3> HIDE DEF timed
    <3> QED
      BY <1>8, <1>12, <2>2
  <2>4. [i \in positive |-> perRep[i][2]] = time
    <3> HIDE DEF timed, positive
    <3> QED
      BY <1>8, <1>12, <2>1
  <2>5. t.harmonicMean = <<n * edges, all>>
    <3>1. S!Cardinality(positive) = n
      BY <2>1, SameCount
    <3>2. positive # {}
      BY <1>12, <2>1
    <3> DEFINE some == [i \in positive |-> perRep[i][2]]
    <3>3. t.harmonicMean = <<S!Cardinality(positive) * perRep[S!Min(positive)][1], S!Total(some)>>
      BY <1>1, <1>5, <3>2
    <3> HIDE DEF positive, timed, time
    <3> QED
      BY <2>1, <2>3, <2>4, <3>1, <3>3
  <2> DEFINE D == {time[i] : i \in timed}
  <2>6. D \in SUBSET Int /\ D # {}
    <3>1. \A i \in timed : time[i] \in Int
      BY <1>9
    <3> HIDE DEF time, timed
    <3> QED
      BY <1>12, <3>1
  <2>7. IsFiniteSet(D)
    <3>1. time = [i \in timed |-> time[i]]
      OBVIOUS
    <3> HIDE DEF time, timed
    <3> QED
      BY <1>10, <3>1, FewValues
  <2>8. PICK lo \in D : \A x \in D : lo <= x
    <3> HIDE DEF D
    <3> QED
      BY <2>6, <2>7, HasLeast
  <2>9. PICK hi \in D : \A x \in D : x <= hi
    <3> HIDE DEF D
    <3> QED
      BY <2>6, <2>7, HasMost
  <2>10. PICK i \in timed : durs[i] = lo
    OBVIOUS
  <2>11. PICK j \in timed : durs[j] = hi
    OBVIOUS
  <2>12. lo \in Nat /\ hi \in Nat
    BY <1>9, <2>10, <2>11
  <2>13. DOMAIN time = timed /\ \A k \in timed : time[k] \in Nat /\ lo <= time[k] /\ time[k] <= hi
    BY <1>9, <2>8, <2>9
  <2> HIDE DEF time, timed, D
  <2>14. Readings(time)
    BY <1>10, <2>13 DEF Readings
  <2>15. all \in Nat /\ n * lo <= all /\ all <= n * hi /\ n \in Nat
    <3>1. /\ S!Total(time) \in Nat
          /\ Cardinality(DOMAIN time) * lo <= S!Total(time)
          /\ S!Total(time) <= Cardinality(DOMAIN time) * hi
      BY <2>12, <2>13, <2>14, TotalBounds
    <3>2. n \in Nat
      BY <1>10, FS_CardinalityType
    <3> QED
      BY <2>13, <3>1, <3>2
  <2> HIDE DEF n, all
  <2>16. edges \in Nat /\ edges <= edges
    BY <1>12
  <2>17. (n * edges) * hi = edges * (n * hi) /\ (n * edges) * lo = edges * (n * lo)
         /\ n * hi \in Nat /\ n * lo \in Nat
    BY <2>12, <2>15, <2>16, ProductsTurn
  <2>18. edges * all <= edges * (n * hi) /\ edges * (n * lo) <= edges * all
    <3> DEFINE x == n * lo
               y == n * hi
    <3>1. x \in Nat /\ y \in Nat /\ x <= all /\ all <= y /\ all \in Nat
      BY <2>15, <2>17
    <3> HIDE DEF x, y
    <3>2. edges * all <= edges * y /\ edges * x <= edges * all
      BY <2>16, <3>1, ProductsGrow
    <3> QED
      BY <3>2 DEF x, y
  <2>19. edges * all <= (n * edges) * durs[j] /\ (n * edges) * durs[i] <= edges * all
    BY <2>10, <2>11, <2>17, <2>18
  <2> QED
    BY <2>5, <2>19
<1>13. CASE timed = {} \/ edges <= 0
  <2> HIDE DEF time, positive
  <2>1. S!IsAggregateRate(t, durs)
    BY <1>1, <1>11, <1>13 DEF S!IsAggregateRate
  <2> QED
    BY <2>1 DEF t
<1>14. CASE timed # {} /\ edges > 0
  <2>1. S!Cardinality(timed) = n
    BY SameCount
  <2> HIDE DEF timed
  <2>2. t.harmonicMean[1] * S!Total([i \in timed |-> durs[i]]) = (n * edges) * t.harmonicMean[2]
    BY <1>12, <1>14
  <2>3. /\ \E i \in timed : edges * t.harmonicMean[2] <= t.harmonicMean[1] * durs[i]
        /\ \E i \in timed : t.harmonicMean[1] * durs[i] <= edges * t.harmonicMean[2]
    BY <1>12, <1>14
  <2>4. S!IsAggregateRate(t, durs) <=>
          IF timed = {} \/ t.edges <= 0 THEN t.harmonicMean = S!Zero
          ELSE /\ t.harmonicMean[1] * S!Total([i \in timed |-> durs[i]]) =
                    S!Cardinality(timed) * t.edges * t.harmonicMean[2]
               /\ \E i \in timed : t.edges * t.harmonicMean[2] <= t.harmonicMean[1] * durs[i]
               /\ \E i \in timed : t.harmonicMean[1] * durs[i] <= t.edges * t.harmonicMean[2]
    BY DEF S!IsAggregateRate, timed
  <2>5. S!IsAggregateRate(t, durs)
    <3> HIDE DEF n, time, all
    <3> QED
      BY <1>1, <1>14, <2>1, <2>2, <2>3, <2>4
  <2> QED
    BY <2>5 DEF t
<1> QED
  <2>1. \/ timed = {} \/ edges <= 0
        \/ timed # {} /\ edges > 0
    OBVIOUS
  <2> QED
    BY <1>13, <1>14, <2>1 DEF t

\* measure.go, drift.go and teps.go: whatever samples a run took, its summary describes the
\* queries that completed and counts every sample once, its drift compares whole windows, and
\* its traversal rate is all the work over all the time.
THEOREM SummariesDescribe == FiguresSpec => []SummaryOfCompleted
<1>1. AskedInv => SummaryOfCompleted
  <2> SUFFICES ASSUME AskedInv
               PROVE  SummaryOfCompleted
    OBVIOUS
  <2>1. ASSUME Answered("stats") PROVE S!IsSummaryOf(told, asked)
    <3>1. S!IsSamples(asked) /\ told = S!Summarize(asked, 60)
      BY <2>1, FiguresAssumption DEF AskedInv, Answered
    <3> QED
      BY <3>1, RunDescribed
  <2>2. ASSUME Answered("drift") PROVE S!ComparesWholeWindows(told, asked, 2)
    <3>1. S!IsSamples(asked) /\ told = S!DriftOf(asked, 2) /\ 2 \in Nat \ {0}
      BY <2>2, FiguresAssumption DEF AskedInv, Answered
    <3> QED
      BY <3>1, DriftDescribed
  <2>3. ASSUME Answered("teps") PROVE S!IsAggregateRate(told, asked[2])
    <3>1. asked[1] \in Int /\ asked[2] \in Seq(Int) /\ told = S!NewTraversal(asked[1], asked[2])
      BY <2>3, FiguresAssumption DEF AskedInv, Answered
    <3> QED
      BY <3>1, RateAggregates
  <2> QED
    BY <2>1, <2>2, <2>3 DEF SummaryOfCompleted
<1>2. FiguresSpec => []AskedInv
  BY AskedInvInit, AskedInvNext, PTL DEF FiguresSpec
<1> QED
  BY <1>1, <1>2, PTL


-----------------------------------------------------------------------------
(* The matrix: labels in order.                                              *)

\* A function on an initial segment of the numbers is a sequence.
LEMMA SequenceIs ==
  ASSUME NEW n \in Nat, NEW c, NEW V, c \in [1..n -> V]
  PROVE  c \in Seq(V) /\ Len(c) = n /\ DOMAIN c = 1..n
  OBVIOUS

LEMMA JoinedIs ==
  ASSUME NEW V, NEW a \in Seq(V), NEW b \in Seq(V)
  PROVE  /\ a \o b \in Seq(V) /\ Len(a) \in Nat /\ Len(b) \in Nat /\ Len(a \o b) = Len(a) + Len(b)
         /\ DOMAIN (a \o b) = 1..(Len(a) + Len(b)) /\ DOMAIN a = 1..Len(a) /\ DOMAIN b = 1..Len(b)
         /\ \A k \in DOMAIN a : (a \o b)[k] = a[k]
         /\ \A k \in DOMAIN b : (a \o b)[Len(a) + k] = b[k]
         /\ \A k \in DOMAIN (a \o b) : k \in DOMAIN a \/ (k - Len(a) \in DOMAIN b /\ (a \o b)[k] = b[k - Len(a)])
  OBVIOUS

LEMMA JoinedSet ==
  ASSUME NEW V, NEW a \in Seq(V), NEW b \in Seq(V)
  PROVE  M!ToSet(a \o b) = M!ToSet(a) \cup M!ToSet(b)
<1> DEFINE c == a \o b
<1>1. /\ Len(a) \in Nat /\ DOMAIN c = 1..(Len(a) + Len(b)) /\ DOMAIN a = 1..Len(a) /\ DOMAIN b = 1..Len(b)
      /\ \A k \in DOMAIN a : c[k] = a[k]
      /\ \A k \in DOMAIN b : c[Len(a) + k] = b[k]
      /\ \A k \in DOMAIN c : k \in DOMAIN a \/ (k - Len(a) \in DOMAIN b /\ c[k] = b[k - Len(a)])
      /\ Len(b) \in Nat
  BY JoinedIs
<1> HIDE DEF c
<1>2. \A k \in DOMAIN c : c[k] \in M!ToSet(a) \cup M!ToSet(b)
  BY <1>1 DEF M!ToSet
<1>3. \A k \in DOMAIN a : k \in DOMAIN c /\ c[k] = a[k]
  BY <1>1
<1>4. \A k \in DOMAIN b : Len(a) + k \in DOMAIN c /\ c[Len(a) + k] = b[k]
  BY <1>1
<1>5. M!ToSet(c) = M!ToSet(a) \cup M!ToSet(b)
  BY <1>2, <1>3, <1>4 DEF M!ToSet
<1> QED
  BY <1>5 DEF c

LEMMA MatrixCounts == \A Z : M!Cardinality(Z) = Cardinality(Z)
  BY DEF M!Cardinality, Cardinality

Strict(I, T) == Ranking(I, T) /\ \A i, j \in I : <<i, j>> \in T /\ <<j, i>> \in T => i = j

\* Each member has a place of its own, and each place its member.
LEMMA InOrderIs ==
  ASSUME NEW I, NEW T, Strict(I, T)
  PROVE  /\ Cardinality(I) \in Nat /\ DOMAIN M!InOrder(I, T) = 1..Cardinality(I)
         /\ \A n \in 1..Cardinality(I) :
              M!InOrder(I, T)[n] \in I /\ Cardinality(Below(I, T, M!InOrder(I, T)[n])) = n - 1
         /\ \A k \in I : /\ Cardinality(Below(I, T, k)) + 1 \in 1..Cardinality(I)
                         /\ M!InOrder(I, T)[Cardinality(Below(I, T, k)) + 1] = k
<1> DEFINE e == M!InOrder(I, T)
           place(k) == M!Cardinality(M!Before(I, T, k))
<1>1. Cardinality(I) \in Nat /\ IsFiniteSet(I) /\ Ranking(I, T)
  BY FS_CardinalityType DEF Ranking, Strict
<1>2. \A k \in I : /\ Below(I, T, k) \in SUBSET I /\ k \notin Below(I, T, k)
                   /\ NotAbove(I, T, k) = Below(I, T, k) \cup {k}
  BY DEF Below, NotAbove, Strict, Ranking
<1>0. \A k : place(k) = Cardinality(Below(I, T, k))
  BY MatrixCounts DEF Below, M!Before
<1> HIDE DEF place
<1>3. \A k \in I : place(k) \in Nat /\ Cardinality(NotAbove(I, T, k)) = place(k) + 1
  <2> TAKE k \in I
  <2>1. IsFiniteSet(Below(I, T, k))
    BY <1>1, <1>2, FS_Subset
  <2> QED
    BY <1>0, <2>1, <1>2, FS_AddElement, FS_CardinalityType
<1>4. ASSUME NEW n \in 1..Cardinality(I)
      PROVE  \E k \in I : place(k) = n - 1
  <2>1. PICK k \in I : place(k) < n /\ n <= Cardinality(NotAbove(I, T, k))
    BY <1>0, <1>1, RankExists
  <2> QED
    BY <1>3, <2>1
<1>5. ASSUME NEW j \in I, NEW k \in I, place(j) = place(k)
      PROVE  j = k
  <2>1. ASSUME NEW x \in I, NEW y \in I, x # y, <<x, y>> \in T, place(x) = place(y)
        PROVE  FALSE
    <3>1. <<y, x>> \notin T
      BY <2>1 DEF Strict
    <3>2. Below(I, T, x) \in SUBSET Below(I, T, y)
      BY <2>1 DEF Below, Strict, Ranking
    <3>3. x \in Below(I, T, y) /\ x \notin Below(I, T, x)
      BY <1>2, <3>1 DEF Below
    <3>4. Cardinality(Below(I, T, x)) < Cardinality(Below(I, T, y))
      BY <1>1, <1>2, <3>2, <3>3, CountsParts
    <3> QED
      BY <1>0, <1>3, <2>1, <3>4
  <2> QED
    BY <1>5, <2>1 DEF Strict, Ranking
<1>6. e = [n \in 1..Cardinality(I) |-> CHOOSE k \in I : place(k) = n - 1]
  BY MatrixCounts DEF M!InOrder, place
<1> HIDE DEF e
<1>7. \A n \in 1..Cardinality(I) : e[n] \in I /\ place(e[n]) = n - 1
  BY <1>4, <1>6
<1>8. \A k \in I : place(k) + 1 \in 1..Cardinality(I)
  <2> TAKE k \in I
  <2>1. NotAbove(I, T, k) \in SUBSET I
    BY DEF NotAbove
  <2>2. Cardinality(NotAbove(I, T, k)) <= Cardinality(I)
    BY <1>1, <2>1, FS_Subset
  <2> QED
    BY <1>1, <1>3, <2>2
<1>9. \A k \in I : e[place(k) + 1] = k
  BY <1>3, <1>5, <1>7, <1>8
<1> QED
  BY <1>0, <1>1, <1>6, <1>7, <1>8, <1>9 DEF e

LEMMA AscendingIs ==
  ASSUME NEW I \in SUBSET Int, IsFiniteSet(I)
  PROVE  /\ Cardinality(I) \in Nat /\ M!Ascending(I) \in [1..Cardinality(I) -> I]
         /\ \A k \in I : \E n \in 1..Cardinality(I) : M!Ascending(I)[n] = k
         /\ \A m, n \in 1..Cardinality(I) : M!Ascending(I)[m] = M!Ascending(I)[n] => m = n
<1> DEFINE T == {p \in I \X I : p[1] <= p[2]}
<1>1. \A i, j \in I : <<i, j>> \in T <=> i <= j
  OBVIOUS
<1>2. M!Ascending(I) = M!InOrder(I, T)
  BY DEF M!Ascending
<1> HIDE DEF T
<1>3. Strict(I, T)
  BY <1>1 DEF Strict, Ranking
<1>4. /\ Cardinality(I) \in Nat /\ DOMAIN M!InOrder(I, T) = 1..Cardinality(I)
      /\ \A n \in 1..Cardinality(I) :
              M!InOrder(I, T)[n] \in I /\ Cardinality(Below(I, T, M!InOrder(I, T)[n])) = n - 1
      /\ \A k \in I : /\ Cardinality(Below(I, T, k)) + 1 \in 1..Cardinality(I)
                      /\ M!InOrder(I, T)[Cardinality(Below(I, T, k)) + 1] = k
  BY <1>3, InOrderIs
<1>5. M!InOrder(I, T) = [n \in 1..Cardinality(I) |-> M!InOrder(I, T)[n]]
  BY <1>4, MatrixCounts DEF M!InOrder
<1>6. M!InOrder(I, T) \in [1..Cardinality(I) -> I]
  BY <1>4, <1>5
<1>7. \A m, n \in 1..Cardinality(I) : M!InOrder(I, T)[m] = M!InOrder(I, T)[n] => m = n
  BY <1>4
<1> QED
  BY <1>2, <1>4, <1>6, <1>7

\* The chosen labels are those there are among the names, each once.
LEMMA ChosenIs ==
  ASSUME NEW names, M!IsOrder(names), NEW labels
  PROVE  /\ M!IsOrder(M!Chosen(names, labels))
         /\ M!Chosen(names, labels) \in Seq(M!ToSet(names))
         /\ M!ToSet(M!Chosen(names, labels)) = labels \cap M!ToSet(names)
<1> DEFINE I == {n \in DOMAIN names : names[n] \in labels}
           at == M!Ascending(I)
           c == M!Chosen(names, labels)
<1>1. Len(names) \in Nat /\ DOMAIN names = 1..Len(names) /\ I \in SUBSET Int /\ I \in SUBSET DOMAIN names
  BY DEF M!IsOrder
<1>2. IsFiniteSet(I)
  <2>1. IsFiniteSet(DOMAIN names)
    BY <1>1, FS_Interval
  <2> QED
    BY <1>1, <2>1, FS_Subset
<1>3. /\ Cardinality(I) \in Nat /\ at \in [1..Cardinality(I) -> I]
      /\ \A k \in I : \E n \in 1..Cardinality(I) : at[n] = k
      /\ \A m, n \in 1..Cardinality(I) : at[m] = at[n] => m = n
  BY <1>1, <1>2, AscendingIs
<1>4. c = [n \in DOMAIN at |-> names[at[n]]]
  BY DEF M!Chosen, M!Kept
<1>5. \A k \in I : names[k] \in labels /\ names[k] \in M!ToSet(names)
  BY <1>1 DEF M!ToSet
<1>6. \A v \in labels \cap M!ToSet(names) : \E k \in I : v = names[k]
  BY DEF M!ToSet
<1>7. \A j, k \in I : names[j] = names[k] => j = k
  BY <1>1 DEF M!IsOrder
<1> HIDE DEF at, c, I
<1>8. c \in [1..Cardinality(I) -> M!ToSet(names)]
  BY <1>3, <1>4, <1>5
<1>9. c \in Seq(M!ToSet(names)) /\ Len(c) = Cardinality(I) /\ DOMAIN c = 1..Cardinality(I)
  BY <1>3, <1>8, SequenceIs
<1>10. \A m, n \in 1..Cardinality(I) : c[m] = c[n] => m = n
  BY <1>3, <1>4, <1>7
<1>11. M!ToSet(c) = labels \cap M!ToSet(names)
  <2>1. \A m \in DOMAIN c : c[m] \in labels \cap M!ToSet(names)
    BY <1>3, <1>4, <1>5
  <2>2. \A v \in labels \cap M!ToSet(names) : \E m \in DOMAIN c : c[m] = v
    BY <1>3, <1>4, <1>6, <1>9
  <2> QED
    BY <2>1, <2>2 DEF M!ToSet
<1> QED
  BY <1>3, <1>9, <1>10, <1>11 DEF M!IsOrder, c

-----------------------------------------------------------------------------
(* The matrix: documents and columns.                                        *)

\* What is read of a stored file, of any version.
IsDoc(d) ==
  /\ Len(d.verification) \in Nat /\ DOMAIN d.verification = 1..Len(d.verification)
  /\ \A k \in DOMAIN d.verification : M!IsLabel(d.verification[k].query) /\ d.verification[k].outcome # ""
  /\ \A section \in M!Sections : \A l \in DOMAIN d[section] : M!IsStat(d[section][l]) /\ M!IsLabel(l)
  /\ \A q \in DOMAIN d.queries : d.schema >= 3 /\ d.queries[q].errors > 0 => d.queries[q].first # ""
  /\ \A id \in DOMAIN d.teps : M!IsLabel(id)
  /\ d.started \in Int

LEMMA OldIsDoc ==
  ASSUME NEW raw, M!IsRaw(raw), ~(raw.schema >= 3)
  PROVE  IsDoc(M!ReadDoc(raw)) /\ M!ReadDoc(raw).schema = 2
<1> DEFINE d == M!ReadV1(raw)
<1>1. M!ReadDoc(raw) = d
  BY DEF M!ReadDoc
<1>2. /\ d.schema = 2 /\ d.verification = <<>> /\ d.teps = <<>> /\ d.started = raw.started
      /\ d["classes"] = M!V1ClassMap(raw.classes) /\ d["cold"] = M!V1ClassMap(raw.cold)
      /\ d["queries"] = M!V1QueryMap(raw.queries) /\ d.queries = d["queries"]
  BY DEF M!ReadV1
<1>3. \A s : M!IsStat(s) => M!IsStat(M!V1StatDoc(s))
  BY DEF M!IsStat, M!V1StatDoc
<1>4. ASSUME NEW stats, \A n \in DOMAIN stats : M!IsStat(stats[n]) /\ M!IsLabel(M!V1ClassName(n))
      PROVE  \A l \in DOMAIN M!V1ClassMap(stats) : M!IsStat(M!V1ClassMap(stats)[l]) /\ M!IsLabel(l)
  <2> TAKE l \in DOMAIN M!V1ClassMap(stats)
  <2>1. PICK n \in DOMAIN stats : M!V1ClassName(n) = l
    BY DEF M!V1ClassMap
  <2> DEFINE its == CHOOSE k \in DOMAIN stats : M!V1ClassName(k) = l
  <2>2. its \in DOMAIN stats
    BY <2>1
  <2>3. M!V1ClassMap(stats)[l] = M!V1StatDoc(stats[its])
    BY DEF M!V1ClassMap
  <2> HIDE DEF its
  <2> QED
    BY <1>3, <1>4, <2>1, <2>2, <2>3
<1>5. \A q \in DOMAIN d["queries"] : M!IsStat(d["queries"][q]) /\ M!IsLabel(q)
  <2>1. DOMAIN d["queries"] = DOMAIN raw.queries
    BY <1>2 DEF M!V1QueryMap
  <2> TAKE q \in DOMAIN d["queries"]
  <2>2. q \in DOMAIN raw.queries
    BY <2>1
  <2>3. M!IsStat(raw.queries[q]) /\ M!IsLabel(q)
    BY <2>2 DEF M!IsRaw
  <2>4. d["queries"][q] = M!V1StatDoc(raw.queries[q])
    BY <1>2, <2>2 DEF M!V1QueryMap
  <2> QED
    BY <1>3, <2>3, <2>4
<1> HIDE DEF d
<1>6. \A section \in M!Sections : \A l \in DOMAIN d[section] : M!IsStat(d[section][l]) /\ M!IsLabel(l)
  BY <1>2, <1>4, <1>5 DEF M!Sections, M!IsRaw
<1>7. DOMAIN d.verification = {} /\ DOMAIN d.teps = {}
  <2>1. DOMAIN <<>> = {}
    OBVIOUS
  <2> QED
    BY <1>2, <2>1
<1>8. Len(d.verification) \in Nat /\ DOMAIN d.verification = 1..Len(d.verification)
  BY <1>2
<1>9. /\ \A k \in DOMAIN d.verification : M!IsLabel(d.verification[k].query) /\ d.verification[k].outcome # ""
      /\ \A id \in DOMAIN d.teps : M!IsLabel(id)
  BY <1>7
<1>10. d.started \in Int
  BY <1>2 DEF M!IsRaw
<1> QED
  BY <1>1, <1>2, <1>6, <1>8, <1>9, <1>10 DEF IsDoc

LEMMA NewIsDoc ==
  ASSUME NEW raw, M!IsRaw(raw), raw.schema >= 3
  PROVE  IsDoc(M!ReadDoc(raw))
<1> DEFINE d == M!ReadDoc(raw)
<1>1. d = raw \/ d = [raw EXCEPT !.resource = [x \in DOMAIN @ |-> IF x \in M!SampledRows THEN -1 ELSE @[x]]]
  BY DEF M!ReadDoc, M!ReadCurrent
<1>2. \A x \in {"schema", "started", "verification", "classes", "queries", "cold", "teps"} : d[x] = raw[x]
  BY <1>1 DEF M!IsRaw
<1> HIDE DEF d
<1>3. /\ d.schema = raw.schema /\ d.started = raw.started /\ d.verification = raw.verification
      /\ d.queries = raw.queries /\ d.teps = raw.teps /\ d["classes"] = raw["classes"]
      /\ d["cold"] = raw["cold"] /\ d["queries"] = raw["queries"]
  BY <1>2
<1>4. \A section \in M!Sections : \A l \in DOMAIN d[section] : M!IsStat(d[section][l]) /\ M!IsLabel(l)
  BY <1>3 DEF M!Sections, M!IsRaw
<1> QED
  BY <1>3, <1>4 DEF IsDoc, M!IsRaw, d

\* Where memory was not sampled, the figures of the sampler are unknown.
LEMMA UnsampledIsUnknown ==
  ASSUME NEW raw, M!IsRaw(raw), M!IsLayout, M!ReadDoc(raw).schema >= 3, raw.resource["readings"] = 0,
         NEW r \in M!ToSet(Metrics) \cap M!SampledRows
  PROVE  M!ReadDoc(raw).resource[r] = -1
<1> DEFINE d == M!ReadDoc(raw)
<1>1. raw.schema >= 3
  BY OldIsDoc
<1>2. r \in {"memory peak (sampled)", "memory steady (sampled)"}
  BY DEF M!IsLayout, M!SampledRows
<1>3. r \in DOMAIN raw.resource
  BY DEF M!IsRaw, M!Readings
<1>4. PICK none \in {0, -1} : raw.resource["memory peak (sampled)"] = none /\ raw.resource["memory steady (sampled)"] = none
  BY DEF M!IsRaw, M!SampledRows
<1>5. CASE none = -1
  <2>0. -1 # 0
    OBVIOUS
  <2>1. raw.resource["memory peak (sampled)"] # 0
    BY <1>4, <1>5, <2>0, Zenon
  <2>2. M!ReadCurrent(raw) = raw
    BY <2>1 DEF M!ReadCurrent
  <2>3. d = M!ReadCurrent(raw)
    BY <1>1 DEF M!ReadDoc
  <2> QED
    BY <1>2, <1>4, <1>5, <2>2, <2>3
<1>6. CASE none = 0
  <2>1. d = [raw EXCEPT !.resource = [x \in DOMAIN @ |-> IF x \in M!SampledRows THEN -1 ELSE @[x]]]
    BY <1>1, <1>4, <1>6 DEF M!ReadDoc, M!ReadCurrent
  <2>2. "resource" \in DOMAIN raw
    BY DEF M!IsRaw
  <2>3. d.resource = [x \in DOMAIN raw.resource |-> IF x \in M!SampledRows THEN -1 ELSE raw.resource[x]]
    BY <2>1, <2>2
  <2> QED
    BY <1>3, <2>3
<1> QED
  BY <1>4, <1>5, <1>6

\* The documents of a lineage.
AreDocs(docs, n) == n \in Nat /\ DOMAIN docs = 1..n /\ \A i \in 1..n : IsDoc(docs[i])

LEMMA LineageIsRead ==
  ASSUME NEW raws, M!IsLineage(raws)
  PROVE  AreDocs([i \in DOMAIN raws |-> M!ReadDoc(raws[i])], Len(raws))
  BY OldIsDoc, NewIsDoc DEF AreDocs, M!IsLineage

LEMMA RankIn == \A plane : M!Rank(plane) \in 0..3
  BY DEF M!Rank

\* Every document has a column of its own, and every column its document.
LEMMA OrderedIs ==
  ASSUME NEW docs, NEW n, AreDocs(docs, n)
  PROVE  /\ DOMAIN M!Ordered(docs) = 1..n
         /\ \A i \in 1..n : M!Place(docs, i) \in 1..n /\ M!Ordered(docs)[M!Place(docs, i)] = docs[i]
         /\ \A c \in 1..n : \E i \in 1..n : M!Place(docs, i) = c /\ M!Ordered(docs)[c] = docs[i]
         /\ \A i, j \in 1..n : M!Place(docs, i) = M!Place(docs, j) => i = j
<1> DEFINE T == M!ByPlane(docs)
           at == M!InOrder(1..n, T)
           rank(i) == M!Rank(docs[i].plane)
<1>1. n \in Nat /\ DOMAIN docs = 1..n /\ IsFiniteSet(1..n) /\ Cardinality(1..n) = n
  BY FS_Interval DEF AreDocs
<1>2. \A i, j \in 1..n : <<i, j>> \in T <=> rank(i) < rank(j) \/ (rank(i) = rank(j) /\ i <= j)
  BY <1>1 DEF M!ByPlane
<1>3. \A i \in 1..n : rank(i) \in Int
  BY RankIn
<1>4. M!Ordered(docs) = [c \in DOMAIN at |-> docs[at[c]]]
  BY <1>1 DEF M!Ordered
<1>5. \A i : M!Place(docs, i) = 1 + Cardinality({j \in 1..n : rank(j) < rank(i) \/ (rank(j) = rank(i) /\ j < i)})
  BY <1>1, MatrixCounts DEF M!Place
<1> HIDE DEF T, rank, at
<1>6. Strict(1..n, T)
  BY <1>1, <1>2, <1>3 DEF Strict, Ranking
<1>7a. /\ DOMAIN M!InOrder(1..n, T) = 1..Cardinality(1..n)
       /\ \A c \in 1..Cardinality(1..n) :
            M!InOrder(1..n, T)[c] \in 1..n /\ Cardinality(Below(1..n, T, M!InOrder(1..n, T)[c])) = c - 1
       /\ \A k \in 1..n : /\ Cardinality(Below(1..n, T, k)) + 1 \in 1..Cardinality(1..n)
                          /\ M!InOrder(1..n, T)[Cardinality(Below(1..n, T, k)) + 1] = k
  BY <1>6, InOrderIs
<1>7. /\ DOMAIN at = 1..n
      /\ \A c \in 1..n : at[c] \in 1..n /\ Cardinality(Below(1..n, T, at[c])) = c - 1
      /\ \A k \in 1..n : /\ Cardinality(Below(1..n, T, k)) + 1 \in 1..n
                         /\ at[Cardinality(Below(1..n, T, k)) + 1] = k
  BY <1>1, <1>7a DEF at
<1>8. \A i \in 1..n : M!Place(docs, i) = 1 + Cardinality(Below(1..n, T, i))
  <2> TAKE i \in 1..n
  <2>1. Below(1..n, T, i) = {j \in 1..n : rank(j) < rank(i) \/ (rank(j) = rank(i) /\ j < i)}
    BY <1>1, <1>2, <1>3 DEF Below
  <2> QED
    BY <1>5, <2>1
<1>9. \A k \in 1..n : Cardinality(Below(1..n, T, k)) \in Nat
  <2> TAKE k \in 1..n
  <2>1. Below(1..n, T, k) \in SUBSET (1..n)
    BY DEF Below
  <2> QED
    BY <1>1, <2>1, FS_Subset, FS_CardinalityType
<1>10. \A i \in 1..n : M!Place(docs, i) \in 1..n /\ at[M!Place(docs, i)] = i
  BY <1>7, <1>8, <1>9
<1>11. \A c \in 1..n : at[c] \in 1..n /\ M!Place(docs, at[c]) = c
  BY <1>7, <1>8, <1>9
<1>12. DOMAIN M!Ordered(docs) = 1..n /\ \A c \in 1..n : M!Ordered(docs)[c] = docs[at[c]]
  BY <1>4, <1>7
<1> QED
  BY <1>10, <1>11, <1>12

LEMMA EverywhereIs ==
  ASSUME NEW docs, NEW n, AreDocs(docs, n), NEW section
  PROVE  /\ M!Everywhere(M!Ordered(docs), section) = M!Everywhere(docs, section)
         /\ \A l : l \in M!Everywhere(docs, section) <=> \E i \in 1..n : l \in DOMAIN docs[i][section]
<1>1. DOMAIN docs = 1..n
  BY DEF AreDocs
<1>2. \A l : l \in M!Everywhere(docs, section) <=> \E i \in 1..n : l \in DOMAIN docs[i][section]
  BY <1>1 DEF M!Everywhere
<1> DEFINE o == M!Ordered(docs)
<1>3. /\ DOMAIN o = 1..n
      /\ \A i \in 1..n : M!Place(docs, i) \in 1..n /\ o[M!Place(docs, i)] = docs[i]
      /\ \A c \in 1..n : \E i \in 1..n : M!Place(docs, i) = c /\ o[c] = docs[i]
  BY OrderedIs
<1> HIDE DEF o
<1>4. \A l : l \in M!Everywhere(o, section) <=> \E i \in 1..n : l \in DOMAIN o[i][section]
  BY <1>3 DEF M!Everywhere
<1>5. \A l : l \in M!Everywhere(o, section) <=> l \in M!Everywhere(docs, section)
  <2> TAKE l
  <2>1. ASSUME l \in M!Everywhere(o, section)
        PROVE  l \in M!Everywhere(docs, section)
    <3>1. PICK c \in 1..n : l \in DOMAIN o[c][section]
      BY <1>4, <2>1
    <3>2. PICK i \in 1..n : o[c] = docs[i]
      BY <1>3
    <3> QED
      BY <1>2, <3>1, <3>2
  <2>2. ASSUME l \in M!Everywhere(docs, section)
        PROVE  l \in M!Everywhere(o, section)
    <3>1. PICK i \in 1..n : l \in DOMAIN docs[i][section]
      BY <1>2, <2>2
    <3>2. PICK c \in 1..n : o[c] = docs[i]
      BY <1>3
    <3> QED
      BY <1>4, <3>1, <3>2
  <2> QED
    BY <2>1, <2>2
<1>6. M!Everywhere(o, section) = M!Everywhere(docs, section)
  BY <1>5 DEF M!Everywhere
<1> QED
  BY <1>2, <1>6 DEF o

-----------------------------------------------------------------------------
(* The matrix: its rows.                                                     *)

VerdictsOf(docs, n) == UNION {{docs[i].verification[k].query : k \in DOMAIN docs[i].verification} : i \in 1..n}
\* The labels of a section that have a row.
Labels(docs, n, section) ==
  IF section = "classes" THEN M!Everywhere(docs, "classes") \cup M!Everywhere(docs, "cold")
  ELSE IF section = "cold" THEN M!Everywhere(docs, "cold")
  ELSE M!Everywhere(docs, "queries") \cup VerdictsOf(docs, n)

LEMMA VerdictIs ==
  ASSUME NEW d, IsDoc(d), NEW qid
  PROVE  M!Verdict(d, qid).outcome # "" <=> \E k \in DOMAIN d.verification : d.verification[k].query = qid
<1> DEFINE its == {k \in DOMAIN d.verification : d.verification[k].query = qid}
<1>1. CASE its = {}
  <2>1. M!Verdict(d, qid) = M!NoVerdict
    BY <1>1 DEF M!Verdict
  <2>2. M!NoVerdict.outcome = ""
    BY DEF M!NoVerdict
  <2>3. ~ \E k \in DOMAIN d.verification : d.verification[k].query = qid
    BY <1>1
  <2> HIDE DEF its
  <2> QED
    BY <2>1, <2>2, <2>3
<1>2. CASE its # {}
  <2>1. its \in SUBSET Int /\ IsFiniteSet(its)
    <3>1. its \in SUBSET (1..Len(d.verification)) /\ Len(d.verification) \in Nat
      BY DEF IsDoc
    <3> HIDE DEF its
    <3>2. IsFiniteSet(1..Len(d.verification))
      BY <3>1, FS_Interval
    <3>3. IsFiniteSet(its)
      BY <3>1, <3>2, FS_Subset
    <3> QED
      BY <3>1, <3>3
  <2>2. \E k \in its : \A j \in its : k <= j
    <3> HIDE DEF its
    <3> QED
      BY <1>2, <2>1, HasLeast
  <2>3. M!Min(its) \in its
    BY <2>2 DEF M!Min
  <2>4. M!Verdict(d, qid) = d.verification[M!Min(its)]
    BY <1>2 DEF M!Verdict
  <2> QED
    BY <1>2, <2>3, <2>4 DEF IsDoc
<1> QED
  BY <1>1, <1>2

LEMMA VerdictsAre ==
  ASSUME NEW docs, NEW n, AreDocs(docs, n), NEW l
  PROVE  /\ l \in VerdictsOf(docs, n) <=>
              \E i \in 1..n : \E k \in DOMAIN docs[i].verification : docs[i].verification[k].query = l
         /\ l \in VerdictsOf(docs, n) => l \in M!ToSet(RowNames)
<1>1. l \in VerdictsOf(docs, n) <=>
        \E i \in 1..n : \E k \in DOMAIN docs[i].verification : docs[i].verification[k].query = l
  BY DEF VerdictsOf
<1> QED
  BY <1>1 DEF AreDocs, IsDoc, M!IsLabel

\* What is known of a label has its row.
LEMMA KnownIsRow ==
  ASSUME NEW docs, NEW n, AreDocs(docs, n), NEW section \in M!Sections, NEW label
  PROVE  label \in Labels(docs, n, section) <=>
           \/ \E j \in 1..n : M!Known(docs[j], section, label)
           \/ section = "classes" /\ label \in M!Everywhere(docs, "cold")
<1>1. \A s, l : l \in M!Everywhere(docs, s) <=> \E i \in 1..n : l \in DOMAIN docs[i][s]
  BY EverywhereIs
<1>2. label \in VerdictsOf(docs, n) <=> \E i \in 1..n : M!Verdict(docs[i], label).outcome # ""
  <2>1. \A i \in 1..n : M!Verdict(docs[i], label).outcome # "" <=>
          \E k \in DOMAIN docs[i].verification : docs[i].verification[k].query = label
    <3> TAKE i \in 1..n
    <3>1. IsDoc(docs[i])
      BY DEF AreDocs
    <3> QED
      BY <3>1, VerdictIs
  <2>2. label \in VerdictsOf(docs, n) <=>
          \E i \in 1..n : \E k \in DOMAIN docs[i].verification : docs[i].verification[k].query = label
    BY VerdictsAre
  <2> QED
    BY <2>1, <2>2
<1> QED
  BY <1>1, <1>2 DEF Labels, M!Known, M!Sections

LEMMA LabelsAreNames ==
  ASSUME NEW docs, NEW n, AreDocs(docs, n), NEW section \in M!Sections
  PROVE  Labels(docs, n, section) \in SUBSET M!ToSet(RowNames)
<1>1. \A s \in M!Sections : \A l \in M!Everywhere(docs, s) : l \in M!ToSet(RowNames)
  <2> TAKE s \in M!Sections
  <2> TAKE l \in M!Everywhere(docs, s)
  <2>1. PICK i \in 1..n : l \in DOMAIN docs[i][s]
    BY EverywhereIs
  <2> QED
    BY <2>1 DEF AreDocs, IsDoc, M!IsLabel
<1>2. \A l \in VerdictsOf(docs, n) : l \in M!ToSet(RowNames)
  BY VerdictsAre
<1> QED
  BY <1>1, <1>2 DEF Labels, M!Sections

\* Two parts without a common label, one after the other.
LEMMA JoinIsOrder ==
  ASSUME NEW a, NEW b, NEW V, a \in Seq(V), b \in Seq(V), M!IsOrder(a), M!IsOrder(b),
         M!ToSet(a) \cap M!ToSet(b) = {}
  PROVE  M!IsOrder(a \o b) /\ M!ToSet(a \o b) = M!ToSet(a) \cup M!ToSet(b)
<1> DEFINE c == a \o b
<1>1. /\ Len(a) \in Nat /\ Len(b) \in Nat /\ Len(c) = Len(a) + Len(b)
      /\ DOMAIN c = 1..(Len(a) + Len(b)) /\ DOMAIN a = 1..Len(a) /\ DOMAIN b = 1..Len(b)
      /\ \A k \in DOMAIN a : c[k] = a[k]
      /\ \A k \in DOMAIN b : c[Len(a) + k] = b[k]
      /\ \A k \in DOMAIN c : k \in DOMAIN a \/ (k - Len(a) \in DOMAIN b /\ c[k] = b[k - Len(a)])
  BY JoinedIs
<1> HIDE DEF c
<1>2. \A j \in DOMAIN a, k \in DOMAIN b : a[j] # b[k]
  BY DEF M!ToSet
<1>3. ASSUME NEW j \in DOMAIN c, NEW k \in DOMAIN c, c[j] = c[k]
      PROVE  j = k
  <2>1. CASE j \in DOMAIN a /\ k \in DOMAIN a
    BY <1>1, <1>3, <2>1 DEF M!IsOrder
  <2>2. CASE j \in DOMAIN a /\ k \notin DOMAIN a
    BY <1>1, <1>2, <1>3, <2>2
  <2>3. CASE j \notin DOMAIN a /\ k \in DOMAIN a
    BY <1>1, <1>2, <1>3, <2>3
  <2>4. CASE j \notin DOMAIN a /\ k \notin DOMAIN a
    <3>1. /\ j - Len(a) \in DOMAIN b /\ k - Len(a) \in DOMAIN b
          /\ b[j - Len(a)] = b[k - Len(a)]
      BY <1>1, <1>3, <2>4
    <3>2. j - Len(a) = k - Len(a)
      BY <3>1 DEF M!IsOrder
    <3> QED
      BY <1>1, <3>2
  <2> QED
    BY <2>1, <2>2, <2>3, <2>4
<1>4. M!IsOrder(c)
  BY <1>1, <1>3 DEF M!IsOrder
<1>5. M!ToSet(c) = M!ToSet(a) \cup M!ToSet(b)
  BY JoinedSet DEF c
<1> QED
  BY <1>4, <1>5 DEF c

\* A label is a row of the matrix once.
LEMMA MatrixIs ==
  ASSUME NEW docs, NEW n, AreDocs(docs, n), M!IsLayout
  PROVE  /\ M!NewMatrix(docs).docs = M!Ordered(docs)
         /\ M!IsOrder(M!NewMatrix(docs).classes)
         /\ M!ToSet(M!NewMatrix(docs).classes) = Labels(docs, n, "classes")
         /\ M!IsOrder(M!NewMatrix(docs).queries)
         /\ M!ToSet(M!NewMatrix(docs).queries) = Labels(docs, n, "queries")
<1> DEFINE seen == M!Everywhere(docs, "classes") \cup M!Everywhere(docs, "cold")
           verified == UNION {{docs[i].verification[k].query : k \in DOMAIN docs[i].verification} : i \in DOMAIN docs}
           m == M!NewMatrix(docs)
           ahead == M!Chosen(RowClasses, seen)
           more == M!Chosen(RowNames, seen \ M!ToSet(RowClasses))
<1>1. /\ m.docs = M!Ordered(docs)
      /\ m.classes = ahead \o more
      /\ m.queries = M!Chosen(RowNames, M!Everywhere(docs, "queries") \cup verified)
  BY DEF M!NewMatrix, M!Sorted
<1>2. seen = Labels(docs, n, "classes") /\ M!Everywhere(docs, "queries") \cup verified = Labels(docs, n, "queries")
  BY DEF Labels, VerdictsOf, AreDocs
<1>3. \A s \in M!Sections : Labels(docs, n, s) \in SUBSET M!ToSet(RowNames)
  BY LabelsAreNames
<1>4. M!IsOrder(RowClasses) /\ M!IsOrder(RowNames)
  BY DEF M!IsLayout
<1> HIDE DEF seen, verified, m
<1>5. /\ M!IsOrder(ahead) /\ ahead \in Seq(M!ToSet(RowClasses))
      /\ M!ToSet(ahead) = seen \cap M!ToSet(RowClasses)
  BY <1>4, ChosenIs
<1>6. /\ M!IsOrder(more) /\ more \in Seq(M!ToSet(RowNames))
      /\ M!ToSet(more) = (seen \ M!ToSet(RowClasses)) \cap M!ToSet(RowNames)
  BY <1>4, ChosenIs
<1>7. /\ M!IsOrder(m.queries)
      /\ M!ToSet(m.queries) = Labels(docs, n, "queries") \cap M!ToSet(RowNames)
  BY <1>1, <1>2, <1>4, ChosenIs
<1> HIDE DEF ahead, more
<1> DEFINE V == M!ToSet(RowClasses) \cup M!ToSet(RowNames)
<1>8. ahead \in Seq(V) /\ more \in Seq(V) /\ M!ToSet(ahead) \cap M!ToSet(more) = {}
  BY <1>5, <1>6
<1> HIDE DEF V
<1>9. M!IsOrder(ahead \o more) /\ M!ToSet(ahead \o more) = M!ToSet(ahead) \cup M!ToSet(more)
  BY <1>5, <1>6, <1>8, JoinIsOrder
<1> QED
  BY <1>1, <1>2, <1>3, <1>5, <1>6, <1>7, <1>9 DEF M!Sections, m

RowOf(docs, label, section) == M!BuildRow(M!Ordered(docs), label, section)
RowsFor(docs) == {RowOf(docs, l, s) : l \in M!ToSet(RowNames), s \in M!Sections}
\* The rows are those of some sections, each once.
Shown(docs, n, rows, sections) ==
  /\ rows \in Seq(RowsFor(docs))
  /\ \A k \in DOMAIN rows : \E s \in sections : \E l \in Labels(docs, n, s) : rows[k] = RowOf(docs, l, s)
  /\ \A s \in sections : \A l \in Labels(docs, n, s) : \E k \in DOMAIN rows : rows[k] = RowOf(docs, l, s)
  /\ \A j, k \in DOMAIN rows : rows[j].section = rows[k].section /\ rows[j].label = rows[k].label => j = k

LEMMA RowOfIs ==
  ASSUME NEW docs, NEW label, NEW section
  PROVE  /\ RowOf(docs, label, section).label = label /\ RowOf(docs, label, section).section = section
         /\ \A c \in DOMAIN M!Ordered(docs) :
              RowOf(docs, label, section).cells[c] =
                M!Cell(M!Ordered(docs)[c], label, section, M!RowUnit(M!Ordered(docs), label, section))
  BY DEF RowOf, M!BuildRow

LEMMA SectionShown ==
  ASSUME NEW docs, NEW n, AreDocs(docs, n), NEW s \in M!Sections, NEW labels, M!IsOrder(labels),
         M!ToSet(labels) = Labels(docs, n, s)
  PROVE  Shown(docs, n, [k \in DOMAIN labels |-> RowOf(docs, labels[k], s)], {s})
<1> DEFINE rows == [k \in DOMAIN labels |-> RowOf(docs, labels[k], s)]
           V == RowsFor(docs)
<1>1. /\ Len(labels) \in Nat /\ DOMAIN labels = 1..Len(labels)
      /\ \A j, k \in DOMAIN labels : labels[j] = labels[k] => j = k
  BY DEF M!IsOrder
<1>2. /\ \A k \in DOMAIN labels : labels[k] \in Labels(docs, n, s)
      /\ \A l \in Labels(docs, n, s) : \E k \in DOMAIN labels : labels[k] = l
  BY DEF M!ToSet
<1>3. \A l \in Labels(docs, n, s) : RowOf(docs, l, s) \in V
  <2>1. Labels(docs, n, s) \in SUBSET M!ToSet(RowNames)
    BY LabelsAreNames
  <2> QED
    BY <2>1 DEF RowsFor
<1>4. DOMAIN rows = DOMAIN labels /\ \A k \in DOMAIN labels : rows[k] = RowOf(docs, labels[k], s)
  OBVIOUS
<1>5. rows \in [1..Len(labels) -> V]
  <2> HIDE DEF V
  <2> QED
    BY <1>1, <1>2, <1>3
<1>6. rows \in Seq(V)
  <2> HIDE DEF V, rows
  <2> QED
    BY <1>1, <1>5, SequenceIs
<1> HIDE DEF rows
<1>7. \A j, k \in DOMAIN rows : rows[j].section = rows[k].section /\ rows[j].label = rows[k].label => j = k
  BY <1>1, <1>4, RowOfIs
<1>8. \A k \in DOMAIN rows : \E l \in Labels(docs, n, s) : rows[k] = RowOf(docs, l, s)
  BY <1>2, <1>4
<1>9. \A l \in Labels(docs, n, s) : \E k \in DOMAIN rows : rows[k] = RowOf(docs, l, s)
  BY <1>2, <1>4
<1> QED
  BY <1>6, <1>7, <1>8, <1>9 DEF Shown, rows

LEMMA JoinShown ==
  ASSUME NEW docs, NEW n, NEW x, NEW y, NEW there, NEW here, Shown(docs, n, x, there), Shown(docs, n, y, here), there \cap here = {}
  PROVE  Shown(docs, n, x \o y, there \cup here)
<1> DEFINE V == RowsFor(docs)
           z == x \o y
<1>1. x \in Seq(V) /\ y \in Seq(V)
  BY DEF Shown
<1> HIDE DEF V
<1>2. /\ z \in Seq(V) /\ Len(x) \in Nat /\ Len(y) \in Nat
      /\ DOMAIN z = 1..(Len(x) + Len(y)) /\ DOMAIN x = 1..Len(x) /\ DOMAIN y = 1..Len(y)
      /\ \A k \in DOMAIN x : z[k] = x[k]
      /\ \A k \in DOMAIN y : z[Len(x) + k] = y[k]
      /\ \A k \in DOMAIN z : k \in DOMAIN x \/ (k - Len(x) \in DOMAIN y /\ z[k] = y[k - Len(x)])
  BY <1>1, JoinedIs
<1> HIDE DEF z
<1>3. /\ \A k \in DOMAIN x : k \in DOMAIN z
      /\ \A k \in DOMAIN y : Len(x) + k \in DOMAIN z
  BY <1>2
<1>4. \A k \in DOMAIN x : x[k].section \in there
  BY RowOfIs DEF Shown
<1>5. \A k \in DOMAIN y : y[k].section \in here
  BY RowOfIs DEF Shown
<1>6. ASSUME NEW k \in DOMAIN z
      PROVE  \E s \in there \cup here : \E l \in Labels(docs, n, s) : z[k] = RowOf(docs, l, s)
  <2>1. CASE k \in DOMAIN x
    BY <1>2, <2>1 DEF Shown
  <2>2. CASE k \notin DOMAIN x
    BY <1>2, <2>2 DEF Shown
  <2> QED
    BY <2>1, <2>2
<1>7. ASSUME NEW s \in there \cup here, NEW l \in Labels(docs, n, s)
      PROVE  \E k \in DOMAIN z : z[k] = RowOf(docs, l, s)
  <2>1. CASE s \in there
    <3>1. PICK k \in DOMAIN x : x[k] = RowOf(docs, l, s)
      BY <2>1 DEF Shown
    <3> QED
      BY <1>2, <1>3, <3>1
  <2>2. CASE s \in here
    <3>1. PICK k \in DOMAIN y : y[k] = RowOf(docs, l, s)
      BY <2>2 DEF Shown
    <3> QED
      BY <1>2, <1>3, <3>1
  <2> QED
    BY <2>1, <2>2
<1>8. ASSUME NEW j \in DOMAIN z, NEW k \in DOMAIN z, z[j].section = z[k].section, z[j].label = z[k].label
      PROVE  j = k
  <2>1. CASE j \in DOMAIN x /\ k \in DOMAIN x
    BY <1>2, <1>8, <2>1 DEF Shown
  <2>2. CASE j \in DOMAIN x /\ k \notin DOMAIN x
    BY <1>2, <1>4, <1>5, <1>8, <2>2
  <2>3. CASE j \notin DOMAIN x /\ k \in DOMAIN x
    BY <1>2, <1>4, <1>5, <1>8, <2>3
  <2>4. CASE j \notin DOMAIN x /\ k \notin DOMAIN x
    <3>1. /\ j - Len(x) \in DOMAIN y /\ k - Len(x) \in DOMAIN y
          /\ y[j - Len(x)].section = y[k - Len(x)].section /\ y[j - Len(x)].label = y[k - Len(x)].label
      BY <1>2, <1>8, <2>4
    <3>2. j - Len(x) = k - Len(x)
      BY <3>1 DEF Shown
    <3> QED
      BY <1>2, <3>2
  <2> QED
    BY <2>1, <2>2, <2>3, <2>4
<1>9. \A j, k \in DOMAIN z : z[j].section = z[k].section /\ z[j].label = z[k].label => j = k
  BY <1>8
<1>10. z \in Seq(RowsFor(docs))
  BY <1>2 DEF V
<1>11. \A k \in DOMAIN z : \E s \in there \cup here : \E l \in Labels(docs, n, s) : z[k] = RowOf(docs, l, s)
  BY <1>6
<1>12. \A s \in there \cup here : \A l \in Labels(docs, n, s) : \E k \in DOMAIN z : z[k] = RowOf(docs, l, s)
  BY <1>7
<1>13. Shown(docs, n, z, there \cup here)
  BY <1>9, <1>10, <1>11, <1>12, Zenon DEF Shown
<1> QED
  BY <1>13 DEF z

LEMMA RowsAre ==
  ASSUME NEW docs, NEW n, AreDocs(docs, n), M!IsLayout
  PROVE  Shown(docs, n, M!BuildRows(M!NewMatrix(docs)), M!Sections)
<1> DEFINE m == M!NewMatrix(docs)
           cold == M!Chosen(m.classes, M!Everywhere(M!Ordered(docs), "cold"))
           rows(labels, s) == [k \in DOMAIN labels |-> RowOf(docs, labels[k], s)]
<1>1. /\ m.docs = M!Ordered(docs)
      /\ M!IsOrder(m.classes) /\ M!ToSet(m.classes) = Labels(docs, n, "classes")
      /\ M!IsOrder(m.queries) /\ M!ToSet(m.queries) = Labels(docs, n, "queries")
  BY MatrixIs
<1>2. M!BuildRows(m) = (rows(m.classes, "classes") \o rows(cold, "cold")) \o rows(m.queries, "queries")
  BY <1>1 DEF M!BuildRows, RowOf
<1> HIDE DEF m
<1>3. M!IsOrder(cold) /\ M!ToSet(cold) = Labels(docs, n, "cold")
  <2>1. M!IsOrder(cold) /\ M!ToSet(cold) = M!Everywhere(M!Ordered(docs), "cold") \cap M!ToSet(m.classes)
    BY <1>1, ChosenIs
  <2>2. M!Everywhere(M!Ordered(docs), "cold") = M!Everywhere(docs, "cold")
    BY EverywhereIs
  <2> QED
    BY <1>1, <2>1, <2>2 DEF Labels
<1> HIDE DEF cold
<1>4. "classes" \in M!Sections /\ "cold" \in M!Sections /\ "queries" \in M!Sections
  BY DEF M!Sections
<1>5. Shown(docs, n, rows(m.classes, "classes"), {"classes"})
  BY <1>1, <1>4, SectionShown
<1>6. Shown(docs, n, rows(cold, "cold"), {"cold"})
  BY <1>3, <1>4, SectionShown
<1>7. Shown(docs, n, rows(m.queries, "queries"), {"queries"})
  BY <1>1, <1>4, SectionShown
<1> HIDE DEF rows
<1>8. Shown(docs, n, rows(m.classes, "classes") \o rows(cold, "cold"), {"classes"} \cup {"cold"})
  <2>1. {"classes"} \cap {"cold"} = {}
    OBVIOUS
  <2> QED
    BY <1>5, <1>6, <2>1, JoinShown
<1>9. Shown(docs, n, (rows(m.classes, "classes") \o rows(cold, "cold")) \o rows(m.queries, "queries"),
            ({"classes"} \cup {"cold"}) \cup {"queries"})
  <2>1. ({"classes"} \cup {"cold"}) \cap {"queries"} = {}
    OBVIOUS
  <2> QED
    BY <1>7, <1>8, <2>1, JoinShown
<1>10. ({"classes"} \cup {"cold"}) \cup {"queries"} = M!Sections
  BY DEF M!Sections
<1> QED
  BY <1>2, <1>9, <1>10 DEF m

-----------------------------------------------------------------------------
(* The matrix: its cells.                                                    *)

LEMMA PickUnitIn == \A vals : M!PickUnit(vals) \in 0..3
<1> TAKE vals
<1>1. \A v : M!Magnitude(v) \in 0..3
  BY DEF M!Magnitude
<1> QED
  BY <1>1 DEF M!PickUnit

LEMMA DigitIs ==
  ASSUME M!IsLayout, NEW u \in 0..3
  PROVE  M!Digit(u) \in Nat \ {0}
<1> DEFINE x == Thousand \div 10
           y == Thousand * Thousand
           z == y * Thousand
<1>1. Thousand \in Nat /\ Thousand >= 10
  BY DEF M!IsLayout
<1>2. y \in Nat /\ y >= 100
  BY <1>1, ProductsGrow
<1>3. z \in Nat /\ z >= 1000
  <2> HIDE DEF y
  <2> QED
    BY <1>1, <1>2, ProductsGrow
<1> HIDE DEF y, z
<1>4. Thousand \div 10 \in Nat \ {0} /\ y \div 100 \in Nat \ {0} /\ z \div 1000 \in Nat \ {0}
  BY <1>1, <1>2, <1>3
<1>5. u = 0 \/ u = 1 \/ u = 2 \/ u = 3
  OBVIOUS
<1>6. /\ M!Digit(0) = 1 /\ M!Digit(1) = Thousand \div 10
      /\ M!Digit(2) = y \div 100 /\ M!Digit(3) = z \div 1000
  BY DEF M!Digit, y, z
<1> QED
  BY <1>4, <1>5, <1>6

\* In one unit, the greater number was the greater latency.
LEMMA FormatsCompare ==
  ASSUME M!IsLayout, NEW u \in 0..3, NEW v \in Nat, NEW w \in Nat,
         M!FormatLatency(v, u).digits < M!FormatLatency(w, u).digits
  PROVE  v < w
<1> DEFINE c == M!Digit(u)
           h == c \div 2
           a == (v + h) \div c
           b == (w + h) \div c
<1>1. c \in Nat \ {0}
  BY DigitIs
<1>2. M!FormatLatency(v, u).digits = a /\ M!FormatLatency(w, u).digits = b
  BY DEF M!FormatLatency
<1> HIDE DEF c
<1>3. h \in Nat
  BY <1>1
<1> HIDE DEF h
<1>4. v + h \in Nat /\ w + h \in Nat
  BY <1>3
<1>5. a \in Nat /\ b \in Nat
  BY <1>1, <1>4, DivMod
<1>6. (b <= b <=> c * b <= w + h) /\ (b <= a <=> c * b <= v + h)
  <2>1. \A x \in Int : (x <= b <=> c * x <= w + h) /\ (x <= a <=> c * x <= v + h)
    BY <1>1, <1>4, QuotientBounds
  <2> HIDE DEF a, b
  <2> QED
    BY <1>5, <2>1
<1>7. c * b \in Int
  <2> HIDE DEF b
  <2> QED
    BY <1>1, <1>5
<1> DEFINE p == c * b
<1> HIDE DEF a, b, p
<1>8. (b <= b <=> p <= w + h) /\ (b <= a <=> p <= v + h) /\ p \in Int
  BY <1>6, <1>7 DEF p
<1> QED
  BY <1>2, <1>3, <1>5, <1>8

LEMMA StatIs ==
  ASSUME NEW d, IsDoc(d), NEW section \in M!Sections, NEW label \in DOMAIN d[section]
  PROVE  /\ d[section][label].errors \in Nat /\ d[section][label].count \in Nat \ {0}
         /\ d[section][label].errors <= d[section][label].count /\ d[section][label].p50 \in Nat
<1>1. M!IsStat(d[section][label])
  BY DEF IsDoc
<1> DEFINE s == d[section][label]
<1> HIDE DEF s
<1>2. M!IsStat(s) => s.errors \in Nat /\ s.count \in Nat \ {0} /\ s.errors <= s.count /\ s.p50 \in Nat
  BY DEF M!IsStat
<1> QED
  BY <1>1, <1>2 DEF s

\* What a cell says of a label.
Says(cell, d, section, label, unit, said) ==
  /\ cell[1] = "latency" <=> M!Completed(d, section, label) /\ (section = "queries" => said \in {"", "PASS"})
  /\ cell[1] = "latency" => /\ cell[2] = M!FormatLatency(d[section][label].p50, unit)
                            /\ cell[3] = M!FormatLatency(d[section][label].p99, unit)
                            /\ d[section][label].p50 \in Nat
  /\ section = "queries" /\ said \in {"FAIL", "SKIP"} => cell[1] = "verdict" /\ cell[2][1] = said
  /\ cell[1] = "n/a" => label \notin DOMAIN d[section]

LEMMA CellIs ==
  ASSUME NEW d, IsDoc(d), NEW section \in M!Sections, NEW label, NEW unit
  PROVE  Says(M!Cell(d, label, section, unit), d, section, label, unit, M!Verdict(d, label).outcome)
<1> DEFINE cell == M!Cell(d, label, section, unit)
           said == M!Verdict(d, label).outcome
           s == d[section][label]
<1>1. CASE M!Withheld(d, label, section)
  <2>1. cell = <<"verdict", M!Marker(M!Verdict(d, label))>>
    BY <1>1 DEF M!Cell
  <2>2. section = "queries" /\ said \notin {"", "PASS"}
    BY <1>1 DEF M!Withheld
  <2>3. M!Marker(M!Verdict(d, label))[1] = said
    BY DEF M!Marker
  <2>4. cell[1] = "verdict" /\ cell[2][1] = said
    BY <2>1, <2>3
  <2> HIDE DEF cell, said
  <2> QED
    BY <2>2, <2>4 DEF Says, cell, said
<1>2. CASE ~M!Withheld(d, label, section) /\ label \notin DOMAIN d[section]
  <2>1. cell = <<"n/a">>
    BY <1>2 DEF M!Cell
  <2>2. section = "queries" => said \in {"", "PASS"}
    BY <1>2 DEF M!Withheld
  <2>3. ~M!Completed(d, section, label)
    BY <1>2 DEF M!Completed
  <2>4. cell[1] = "n/a"
    BY <2>1
  <2> QED
    BY <1>2, <2>2, <2>3, <2>4 DEF Says
<1>3. CASE ~M!Withheld(d, label, section) /\ label \in DOMAIN d[section]
  <2>1. s.errors \in Nat /\ s.count \in Nat \ {0} /\ s.errors <= s.count /\ s.p50 \in Nat
    BY <1>3, StatIs
  <2>2. section = "queries" => said \in {"", "PASS"}
    BY <1>3 DEF M!Withheld
  <2>3. M!Completed(d, section, label) <=> s.errors < s.count
    BY <1>3 DEF M!Completed
  <2>4. CASE s.errors > 0 /\ s.errors = s.count
    <3>1. cell = <<"ERR", s.errors, s.count>>
      BY <1>3, <2>4 DEF M!Cell
    <3>2. cell[1] = "ERR"
      BY <3>1
    <3>3. ~M!Completed(d, section, label)
      BY <2>1, <2>3, <2>4
    <3> QED
      BY <2>2, <3>2, <3>3 DEF Says
  <2>5. CASE ~(s.errors > 0 /\ s.errors = s.count)
    <3>1. cell = <<"latency", M!FormatLatency(s.p50, unit), M!FormatLatency(s.p99, unit)>>
      BY <1>3, <2>5 DEF M!Cell, M!Latency
    <3>2. cell[1] = "latency" /\ cell[2] = M!FormatLatency(s.p50, unit) /\ cell[3] = M!FormatLatency(s.p99, unit)
      BY <3>1
    <3>3. M!Completed(d, section, label)
      <4> HIDE DEF s, cell, said
      <4>1. s.errors # s.count
        BY <2>1, <2>5
      <4> QED
        BY <2>1, <2>3, <4>1
    <3> HIDE DEF cell, said
    <3> QED
      BY <2>1, <2>2, <3>2, <3>3, Zenon DEF Says, cell, said
  <2> QED
    BY <2>4, <2>5
<1> QED
  BY <1>1, <1>2, <1>3

\* A table with the columns of the documents and the rows of the matrix.
IsTableOf(t, docs, n) ==
  /\ \A i \in 1..n : t.columns[M!Place(docs, i)] = M!ColLabel(docs[i])
  /\ Shown(docs, n, t.rows, M!Sections)

LEMMA CellsEarned ==
  ASSUME NEW docs, NEW n, AreDocs(docs, n), M!IsLayout, NEW t, IsTableOf(t, docs, n)
  PROVE  M!CellsAreEarned(docs, t)
<1> DEFINE unit(l, s) == M!RowUnit(M!Ordered(docs), l, s)
<1>1. DOMAIN docs = 1..n /\ \A i \in 1..n : IsDoc(docs[i])
  BY DEF AreDocs
<1>2. ASSUME NEW l, NEW s, NEW i \in 1..n
      PROVE  /\ RowOf(docs, l, s).label = l /\ RowOf(docs, l, s).section = s
             /\ RowOf(docs, l, s).cells[M!Place(docs, i)] = M!Cell(docs[i], l, s, unit(l, s))
  <2>1. M!Place(docs, i) \in DOMAIN M!Ordered(docs) /\ M!Ordered(docs)[M!Place(docs, i)] = docs[i]
    <3>1. /\ DOMAIN M!Ordered(docs) = 1..n
          /\ \A c \in 1..n : M!Place(docs, c) \in 1..n /\ M!Ordered(docs)[M!Place(docs, c)] = docs[c]
      BY OrderedIs
    <3> QED
      BY <3>1
  <2>2. /\ RowOf(docs, l, s).label = l /\ RowOf(docs, l, s).section = s
        /\ \A c \in DOMAIN M!Ordered(docs) :
             RowOf(docs, l, s).cells[c] = M!Cell(M!Ordered(docs)[c], l, s, M!RowUnit(M!Ordered(docs), l, s))
    BY RowOfIs
  <2> QED
    BY <2>1, <2>2
<1> HIDE DEF unit
<1>3. ASSUME NEW i \in DOMAIN docs, NEW section \in M!Sections, NEW label \in M!ToSet(RowNames)
      PROVE  LET rows == {k \in DOMAIN t.rows : t.rows[k].section = section /\ t.rows[k].label = label}
                 known == \E j \in DOMAIN docs : M!Known(docs[j], section, label)
                 cell == t.rows[CHOOSE k \in rows : TRUE].cells[M!Place(docs, i)]
                 said == M!Verdict(docs[i], label).outcome
             IN /\ M!Cardinality(rows) = IF known \/ (section = "classes" /\ label \in M!Everywhere(docs, "cold")) THEN 1 ELSE 0
                /\ known =>
                     /\ cell[1] = "latency" <=> /\ M!Completed(docs[i], section, label)
                                                /\ section = "queries" => said \in {"", "PASS"}
                     /\ (section = "queries" /\ said \in {"FAIL", "SKIP"}) => cell[1] = "verdict" /\ cell[2][1] = said
                     /\ cell[1] = "n/a" => label \notin DOMAIN docs[i][section]
  <2> DEFINE rows == {k \in DOMAIN t.rows : t.rows[k].section = section /\ t.rows[k].label = label}
             known == \E j \in DOMAIN docs : M!Known(docs[j], section, label)
             some == CHOOSE k \in rows : TRUE
             cell == t.rows[some].cells[M!Place(docs, i)]
             said == M!Verdict(docs[i], label).outcome
  <2>1. label \in Labels(docs, n, section) <=>
          known \/ (section = "classes" /\ label \in M!Everywhere(docs, "cold"))
    BY <1>1, KnownIsRow
  <2>2. \A k \in rows : label \in Labels(docs, n, section) /\ t.rows[k] = RowOf(docs, label, section)
    BY RowOfIs DEF Shown, IsTableOf
  <2>3. \A j, k \in rows : j = k
    BY DEF Shown, IsTableOf
  <2>4. label \in Labels(docs, n, section) => rows # {}
    BY RowOfIs DEF Shown, IsTableOf
  <2> HIDE DEF rows
  <2>5. rows = {} \/ rows = {some}
    BY <2>3
  <2>6. Cardinality(rows) = IF label \in Labels(docs, n, section) THEN 1 ELSE 0
    <3> HIDE DEF some
    <3>1. Cardinality({some}) = 1 /\ Cardinality({}) = 0
      BY FS_Singleton, FS_EmptySet
    <3> QED
      BY <2>2, <2>4, <2>5, <3>1
  <2>7. M!Cardinality(rows) = IF label \in Labels(docs, n, section) THEN 1 ELSE 0
    BY <2>6, MatrixCounts
  <2>8. known => cell = M!Cell(docs[i], label, section, unit(label, section))
    <3> SUFFICES ASSUME known PROVE cell = M!Cell(docs[i], label, section, unit(label, section))
      OBVIOUS
    <3>1. some \in rows
      BY <2>1, <2>4
    <3>2. t.rows[some] = RowOf(docs, label, section)
      BY <2>2, <3>1
    <3> HIDE DEF some
    <3> QED
      BY <1>1, <1>2, <3>2
  <2> HIDE DEF cell, known
  <2>9. known => /\ cell[1] = "latency" <=> /\ M!Completed(docs[i], section, label)
                                            /\ section = "queries" => said \in {"", "PASS"}
                 /\ (section = "queries" /\ said \in {"FAIL", "SKIP"}) => cell[1] = "verdict" /\ cell[2][1] = said
                 /\ cell[1] = "n/a" => label \notin DOMAIN docs[i][section]
    <3> SUFFICES ASSUME known
                 PROVE  Says(cell, docs[i], section, label, unit(label, section), said)
      BY DEF Says
    <3>1. IsDoc(docs[i]) /\ cell = M!Cell(docs[i], label, section, unit(label, section))
      BY <1>1, <2>8
    <3>2. Says(M!Cell(docs[i], label, section, unit(label, section)), docs[i], section, label, unit(label, section),
               M!Verdict(docs[i], label).outcome)
      BY <3>1, CellIs
    <3> QED
      BY <3>1, <3>2
  <2> QED
    BY <2>1, <2>7, <2>9, Zenon DEF rows, known, cell
<1>4. ASSUME NEW k \in DOMAIN t.rows, NEW i \in DOMAIN docs, NEW j \in DOMAIN docs
      PROVE  LET row == t.rows[k]  a == row.cells[M!Place(docs, i)]  b == row.cells[M!Place(docs, j)]
             IN (a[1] = "latency" /\ b[1] = "latency") =>
                  /\ a[2].unit = b[3].unit
                  /\ a[2].digits < b[2].digits => docs[i][row.section][row.label].p50 < docs[j][row.section][row.label].p50
  <2> DEFINE a == t.rows[k].cells[M!Place(docs, i)]
             b == t.rows[k].cells[M!Place(docs, j)]
  <2>1. PICK s \in M!Sections : \E l \in Labels(docs, n, s) : t.rows[k] = RowOf(docs, l, s)
    BY DEF Shown, IsTableOf
  <2>2. PICK l : t.rows[k] = RowOf(docs, l, s)
    BY <2>1
  <2>3. t.rows[k].section = s /\ t.rows[k].label = l
    BY <2>2, RowOfIs
  <2> DEFINE u == unit(l, s)
  <2>4. a = M!Cell(docs[i], l, s, u) /\ b = M!Cell(docs[j], l, s, u)
    BY <1>1, <1>2, <2>2
  <2>5. u \in 0..3
    BY PickUnitIn DEF unit, M!RowUnit
  <2> HIDE DEF a, b, u
  <2>6. a[1] = "latency" => a[2] = M!FormatLatency(docs[i][s][l].p50, u) /\ docs[i][s][l].p50 \in Nat
    <3>1. Says(a, docs[i], s, l, u, M!Verdict(docs[i], l).outcome)
      BY <1>1, <2>4, CellIs
    <3> QED
      BY <3>1 DEF Says
  <2>7. b[1] = "latency" => /\ b[2] = M!FormatLatency(docs[j][s][l].p50, u) /\ docs[j][s][l].p50 \in Nat
                            /\ b[3] = M!FormatLatency(docs[j][s][l].p99, u)
    <3>1. Says(b, docs[j], s, l, u, M!Verdict(docs[j], l).outcome)
      BY <1>1, <2>4, CellIs
    <3> QED
      BY <3>1 DEF Says
  <2>8. \A v : M!FormatLatency(v, u).unit = u
    BY DEF M!FormatLatency
  <2>9. a[1] = "latency" /\ b[1] = "latency" =>
           /\ a[2].unit = b[3].unit
           /\ a[2].digits < b[2].digits => docs[i][s][l].p50 < docs[j][s][l].p50
    BY <2>5, <2>6, <2>7, <2>8, FormatsCompare
  <2> QED
    BY <2>3, <2>9, Zenon DEF a, b
<1>5. \A i \in DOMAIN docs : t.columns[M!Place(docs, i)] = M!ColLabel(docs[i])
  BY <1>1 DEF IsTableOf
<1> QED
  BY <1>3, <1>4, <1>5 DEF M!CellsAreEarned

-----------------------------------------------------------------------------
(* The matrix: what stands beside it.                                        *)

\* A table in the layout of the matrix, whatever is printed under it.
LEMMA TablesAre ==
  ASSUME NEW docs, NEW n, AreDocs(docs, n), M!IsLayout
  PROVE  /\ IsTableOf(M!RenderTable(docs), docs, n)
         /\ IsTableOf(M!RenderMarkdown(docs), docs, n)
         /\ M!RenderTable(docs).errors = M!WriteErrors(M!Ordered(docs))
<1> DEFINE t == M!RenderTable(docs)
<1>1. /\ t.columns = [i \in DOMAIN M!Ordered(docs) |-> M!ColLabel(M!Ordered(docs)[i])]
      /\ t.rows = M!BuildRows(M!NewMatrix(docs))
      /\ t.errors = M!WriteErrors(M!Ordered(docs))
      /\ M!RenderMarkdown(docs).columns = t.columns /\ M!RenderMarkdown(docs).rows = t.rows
  <2>1. M!NewMatrix(docs).docs = M!Ordered(docs)
    BY MatrixIs
  <2>2. /\ t.columns = [i \in DOMAIN M!Ordered(docs) |-> M!ColLabel(M!Ordered(docs)[i])]
        /\ t.rows = M!BuildRows(M!NewMatrix(docs))
        /\ t.errors = M!WriteErrors(M!Ordered(docs))
    BY <2>1 DEF M!RenderTable
  <2>3. "columns" \in DOMAIN t /\ "rows" \in DOMAIN t
    BY DEF M!RenderTable
  <2>4. M!RenderMarkdown(docs) = [t EXCEPT !.errors = <<>>]
    BY DEF M!RenderMarkdown
  <2> HIDE DEF t
  <2>5. M!RenderMarkdown(docs).columns = t.columns /\ M!RenderMarkdown(docs).rows = t.rows
    BY <2>3, <2>4
  <2> QED
    BY <2>2, <2>5
<1> HIDE DEF t
<1>2. \A i \in 1..n : t.columns[M!Place(docs, i)] = M!ColLabel(docs[i])
  <2>1. /\ DOMAIN M!Ordered(docs) = 1..n
        /\ \A i \in 1..n : M!Place(docs, i) \in 1..n /\ M!Ordered(docs)[M!Place(docs, i)] = docs[i]
    BY OrderedIs
  <2> QED
    BY <1>1, <2>1
<1>3. Shown(docs, n, t.rows, M!Sections)
  BY <1>1, RowsAre
<1> QED
  BY <1>1, <1>2, <1>3 DEF IsTableOf, t

LEMMA SortedIs ==
  ASSUME M!IsLayout, NEW labels
  PROVE  /\ M!IsOrder(M!Sorted(labels))
         /\ \A k \in DOMAIN M!Sorted(labels) : M!Sorted(labels)[k] \in labels /\ M!Sorted(labels)[k] \in M!ToSet(RowNames)
         /\ \A l \in labels \cap M!ToSet(RowNames) : \E k \in DOMAIN M!Sorted(labels) : M!Sorted(labels)[k] = l
<1>1. M!IsOrder(RowNames) /\ M!Sorted(labels) = M!Chosen(RowNames, labels)
  BY DEF M!IsLayout, M!Sorted
<1>2. M!IsOrder(M!Sorted(labels)) /\ M!ToSet(M!Sorted(labels)) = labels \cap M!ToSet(RowNames)
  BY <1>1, ChosenIs
<1> DEFINE c == M!Sorted(labels)
<1> HIDE DEF c
<1>3. /\ \A k \in DOMAIN c : c[k] \in M!ToSet(c)
      /\ \A l \in M!ToSet(c) : \E k \in DOMAIN c : c[k] = l
  BY DEF M!ToSet
<1> QED
  BY <1>2, <1>3 DEF c

\* The error lines of a document.
ErrorLines(d, qids) ==
  [x \in DOMAIN qids |->
     [column |-> M!ColLabel(d), query |-> qids[x], errors |-> d.queries[qids[x]].errors,
      count |-> d.queries[qids[x]].count, first |-> d.queries[qids[x]].first]]

Failed(d) == {l \in DOMAIN d.queries : d.queries[l].errors # 0 /\ d.queries[l].first # ""}

LEMMA ErrorsAre ==
  ASSUME NEW o, NEW j \in DOMAIN o
  PROVE  j \in DOMAIN M!WriteErrors(o) /\ M!WriteErrors(o)[j] = ErrorLines(o[j], M!Sorted(Failed(o[j])))
  BY DEF M!WriteErrors, ErrorLines, Failed

LEMMA FailuresTold ==
  ASSUME NEW docs, NEW n, AreDocs(docs, n), M!IsLayout
  PROVE  M!FailuresAreTold(docs, M!RenderTable(docs))
<1> DEFINE o == M!Ordered(docs)
           errors == M!WriteErrors(o)
<1>1. ASSUME NEW i \in DOMAIN docs, NEW q \in DOMAIN docs[i].queries, docs[i].schema >= 3, docs[i].queries[q].errors > 0
      PROVE  \E j \in DOMAIN errors : \E line \in M!ToSet(errors[j]) :
               line.column = M!ColLabel(docs[i]) /\ line.query = q /\ line.errors = docs[i].queries[q].errors
  <2> DEFINE j == M!Place(docs, i)
             d == docs[i]
             failed == {l \in DOMAIN d.queries : d.queries[l].errors # 0 /\ d.queries[l].first # ""}
             qids == M!Sorted(failed)
  <2>1. i \in 1..n /\ IsDoc(docs[i])
    BY DEF AreDocs
  <2>2. j \in DOMAIN o /\ o[j] = docs[i]
    <3>1. DOMAIN o = 1..n /\ \A c \in 1..n : M!Place(docs, c) \in 1..n /\ o[M!Place(docs, c)] = docs[c]
      BY OrderedIs
    <3> QED
      BY <2>1, <3>1
  <2>3. q \in failed /\ q \in M!ToSet(RowNames)
    <3>1. "queries" \in M!Sections /\ d["queries"] = d.queries
      BY DEF M!Sections
    <3>2. q \in DOMAIN d.queries /\ d.schema >= 3 /\ d.queries[q].errors > 0 /\ IsDoc(d)
      BY <1>1, <2>1
    <3> HIDE DEF d, failed
    <3>3. d.queries[q].first # "" /\ M!IsLabel(q)
      BY <3>1, <3>2 DEF IsDoc
    <3>4. d.queries[q].errors # 0
      BY <3>2
    <3> QED
      BY <3>2, <3>3, <3>4 DEF M!IsLabel, failed
  <2>4. PICK k \in DOMAIN qids : qids[k] = q
    <3> HIDE DEF failed
    <3> QED
      BY <2>3, SortedIs
  <2>5. j \in DOMAIN errors /\ errors[j] = ErrorLines(d, qids)
    <3>1. o[j] = d /\ qids = M!Sorted(Failed(d))
      BY <2>2 DEF Failed
    <3> HIDE DEF o, j, d, qids
    <3> QED
      BY <2>2, <3>1, ErrorsAre
  <2> DEFINE e == errors[j]
  <2> HIDE DEF errors, qids, j
  <2>7. /\ k \in DOMAIN e /\ e[k].column = M!ColLabel(d) /\ e[k].query = q
        /\ e[k].errors = d.queries[q].errors
    BY <2>4, <2>5 DEF ErrorLines
  <2> HIDE DEF e
  <2>8. e[k] \in M!ToSet(e)
    BY <2>7 DEF M!ToSet
  <2> QED
    BY <2>5, <2>7, <2>8 DEF e
<1>2. M!RenderTable(docs).errors = errors
  BY TablesAre
<1> HIDE DEF errors
<1> QED
  BY <1>1, <1>2 DEF M!FailuresAreTold

LEMMA TraversalsTold ==
  ASSUME NEW docs, NEW n, AreDocs(docs, n), M!IsLayout
  PROVE  /\ \A i \in DOMAIN docs : \A id \in DOMAIN docs[i].teps :
              \E k \in DOMAIN M!RenderTraversal(docs) : M!RenderTraversal(docs)[k].label = id
         /\ \A k \in DOMAIN M!RenderDrift(docs) :
              \E i \in DOMAIN docs : M!RenderDrift(docs)[k].label \in DOMAIN docs[i].drift
<1> DEFINE o == M!Ordered(docs)
           ids == M!Sorted(M!Everywhere(o, "teps"))
           classes == M!Sorted(M!Everywhere(o, "drift"))
<1>1. DOMAIN docs = 1..n /\ \A i \in 1..n : IsDoc(docs[i])
  BY DEF AreDocs
<1>2. DOMAIN M!RenderTraversal(docs) = DOMAIN ids /\ \A k \in DOMAIN ids : M!RenderTraversal(docs)[k].label = ids[k]
  BY DEF M!RenderTraversal
<1>3. DOMAIN M!RenderDrift(docs) = DOMAIN classes /\ \A k \in DOMAIN classes : M!RenderDrift(docs)[k].label = classes[k]
  BY DEF M!RenderDrift
<1>4. \A l : l \in M!Everywhere(o, "teps") <=> \E i \in 1..n : l \in DOMAIN docs[i]["teps"]
  BY EverywhereIs
<1>5. \A l : l \in M!Everywhere(o, "drift") <=> \E i \in 1..n : l \in DOMAIN docs[i]["drift"]
  BY EverywhereIs
<1>6. ASSUME NEW i \in DOMAIN docs, NEW id \in DOMAIN docs[i].teps
      PROVE  \E k \in DOMAIN ids : ids[k] = id
  <2>1. id \in M!Everywhere(o, "teps")
    BY <1>1, <1>4
  <2>2. id \in M!ToSet(RowNames)
    BY <1>1 DEF IsDoc, M!IsLabel
  <2> QED
    BY <2>1, <2>2, SortedIs
<1>7. \A k \in DOMAIN classes : classes[k] \in M!Everywhere(o, "drift")
  BY SortedIs
<1> HIDE DEF o, ids, classes
<1> QED
  BY <1>1, <1>2, <1>3, <1>5, <1>6, <1>7

LEMMA UnsampledShown ==
  ASSUME NEW raws, M!IsLineage(raws), M!IsLayout
  PROVE  LET docs == [i \in DOMAIN raws |-> M!ReadDoc(raws[i])]
         IN  M!UnsampledIsNotZero(raws, docs, M!RenderResources(docs))
<1> DEFINE docs == [i \in DOMAIN raws |-> M!ReadDoc(raws[i])]
           n == Len(raws)
           o == M!Ordered(docs)
           those == {r \in M!ToSet(Metrics) : \E i \in DOMAIN o : o[i].resource[r] # -1}
           known == M!Chosen(Metrics, those)
           rows == M!RenderResources(docs)
<1>1. /\ DOMAIN docs = 1..n /\ DOMAIN raws = 1..n
      /\ \A i \in 1..n : docs[i] = M!ReadDoc(raws[i]) /\ M!IsRaw(raws[i])
  BY DEF M!IsLineage
<1>2. AreDocs(docs, n)
  BY LineageIsRead
<1> HIDE DEF docs, n
<1>3. /\ DOMAIN o = 1..n
      /\ \A i \in 1..n : M!Place(docs, i) \in 1..n /\ o[M!Place(docs, i)] = docs[i]
  BY <1>2, OrderedIs
<1>4. rows = [k \in DOMAIN known |->
        [label |-> known[k], cells |-> [i \in DOMAIN o |-> M!Figure(o[i].resource[known[k]])]]]
  BY DEF M!RenderResources
<1>5. M!ToSet(known) = those
  <2>1. M!IsOrder(Metrics) /\ those \in SUBSET M!ToSet(Metrics)
    BY DEF M!IsLayout
  <2>2. M!ToSet(known) = those \cap M!ToSet(Metrics)
    <3> HIDE DEF those
    <3> QED
      BY <2>1, ChosenIs
  <2> HIDE DEF those, known
  <2> QED
    BY <2>1, <2>2
<1> HIDE DEF o, known, rows
<1>6. \A r \in those : \E k \in DOMAIN known : known[k] = r
  BY <1>5 DEF M!ToSet
<1>7. ASSUME NEW i \in DOMAIN docs, NEW r \in M!ToSet(Metrics)
      PROVE  LET cells == {rows[k].cells[M!Place(docs, i)] : k \in {k \in DOMAIN rows : rows[k].label = r}}
             IN IF docs[i].schema >= 3 /\ r \in M!SampledRows /\ raws[i].resource["readings"] = 0
                THEN cells \subseteq {<<>>}
                ELSE docs[i].resource[r] # -1 => cells = {<<docs[i].resource[r]>>}
  <2> DEFINE cells == {rows[k].cells[M!Place(docs, i)] : k \in {k \in DOMAIN rows : rows[k].label = r}}
  <2>1. \A k \in DOMAIN rows : rows[k].label = r => rows[k].cells[M!Place(docs, i)] = M!Figure(docs[i].resource[r])
    BY <1>1, <1>3, <1>4
  <2>2. \A c \in cells : c = M!Figure(docs[i].resource[r])
    BY <2>1
  <2>3. ASSUME docs[i].schema >= 3, r \in M!SampledRows, raws[i].resource["readings"] = 0
        PROVE  cells \subseteq {<<>>}
    <3>1. docs[i] = M!ReadDoc(raws[i]) /\ M!IsRaw(raws[i])
      BY <1>1
    <3>2. docs[i].resource[r] = -1
      BY <2>3, <3>1, UnsampledIsUnknown
    <3>3. M!Figure(docs[i].resource[r]) = <<>>
      BY <3>2 DEF M!Figure
    <3> HIDE DEF cells
    <3> QED
      BY <2>2, <3>3
  <2>4. ASSUME docs[i].resource[r] # -1
        PROVE  cells = {<<docs[i].resource[r]>>}
    <3>1. r \in those
      BY <1>1, <1>3, <2>4
    <3>2. PICK k \in DOMAIN known : known[k] = r
      BY <1>6, <3>1
    <3>3. k \in DOMAIN rows /\ rows[k].label = r
      BY <1>4, <3>2
    <3>4. rows[k].cells[M!Place(docs, i)] \in cells
      BY <3>3
    <3>5. M!Figure(docs[i].resource[r]) = <<docs[i].resource[r]>>
      BY <2>4 DEF M!Figure
    <3> HIDE DEF cells
    <3> QED
      BY <2>2, <3>4, <3>5
  <2> HIDE DEF cells
  <2>5. IF docs[i].schema >= 3 /\ r \in M!SampledRows /\ raws[i].resource["readings"] = 0
        THEN cells \subseteq {<<>>}
        ELSE docs[i].resource[r] # -1 => cells = {<<docs[i].resource[r]>>}
    BY <2>3, <2>4, Zenon
  <2> QED
    BY <2>5 DEF cells
<1>8. M!UnsampledIsNotZero(raws, docs, rows)
  BY <1>7 DEF M!UnsampledIsNotZero
<1> QED
  BY <1>8 DEF docs, rows

-----------------------------------------------------------------------------
(* The matrix: its csv.                                                      *)

\* The line of a label in a document.
LineOf(d, section, label) ==
  [column |-> M!ColLabel(d), section |-> section, row |-> label,
   outcome |-> IF section = "queries" THEN M!Marker(M!Verdict(d, label)) ELSE <<"", "">>,
   stat |-> IF label \in DOMAIN d[section] THEN d[section][label] ELSE M!NoStat]
LinesOf(d, section, label) == IF M!Known(d, section, label) THEN <<LineOf(d, section, label)>> ELSE <<>>

\* The lines of documents in the order of a matrix.
IsCsvOf(csv, m, o, n) ==
  /\ DOMAIN csv = 1..n
  /\ \A c \in 1..n :
       /\ DOMAIN csv[c].classes = DOMAIN m.classes /\ DOMAIN csv[c].queries = DOMAIN m.queries
       /\ \A k \in DOMAIN m.classes :
            csv[c].classes[k] = LinesOf(o[c], "classes", m.classes[k]) \o LinesOf(o[c], "cold", m.classes[k])
       /\ \A k \in DOMAIN m.queries : csv[c].queries[k] = LinesOf(o[c], "queries", m.queries[k])

LEMMA CsvIs ==
  ASSUME NEW docs, NEW n, AreDocs(docs, n), M!IsLayout
  PROVE  IsCsvOf(M!RenderCSV(docs), M!NewMatrix(docs), M!Ordered(docs), n)
<1> DEFINE m == M!NewMatrix(docs)
           o == M!Ordered(docs)
           csv == M!RenderCSV(docs)
           record(d, section, label, outcome) ==
             [column |-> M!ColLabel(d), section |-> section, row |-> label, outcome |-> outcome,
              stat |-> IF label \in DOMAIN d[section] THEN d[section][label] ELSE M!NoStat]
           held(d, section, label) == IF label \in DOMAIN d[section] THEN <<record(d, section, label, <<"", "">>)>> ELSE <<>>
           wanted(d, qid) ==
             IF qid \notin DOMAIN d.queries /\ M!Verdict(d, qid).outcome = "" THEN <<>>
             ELSE <<record(d, "queries", qid, M!Marker(M!Verdict(d, qid)))>>
<1>1. csv = [i \in DOMAIN m.docs |->
       [classes |-> [k \in DOMAIN m.classes |->
                       held(m.docs[i], "classes", m.classes[k]) \o held(m.docs[i], "cold", m.classes[k])],
        queries |-> [k \in DOMAIN m.queries |-> wanted(m.docs[i], m.queries[k])]]]
  BY DEF M!RenderCSV
<1>2. \A d, label : held(d, "classes", label) = LinesOf(d, "classes", label) /\ held(d, "cold", label) = LinesOf(d, "cold", label)
  BY DEF LinesOf, LineOf, M!Known
<1>3. \A d, label : wanted(d, label) = LinesOf(d, "queries", label)
  BY DEF LinesOf, LineOf, M!Known
<1>4. m.docs = o /\ DOMAIN o = 1..n
  BY MatrixIs, OrderedIs
<1> HIDE DEF m, o, csv, held, wanted
<1>5. IsCsvOf(csv, m, o, n)
  BY <1>1, <1>2, <1>3, <1>4 DEF IsCsvOf
<1> QED
  BY <1>5 DEF m, o, csv

\* The lines are those of what is known.
LEMMA LinesAre ==
  ASSUME NEW docs, NEW n, AreDocs(docs, n), M!IsLayout, NEW l
  PROVE  l \in M!Lines(M!RenderCSV(docs)) <=>
           \E i \in 1..n : \E s \in M!Sections : \E label \in M!ToSet(RowNames) :
             M!Known(docs[i], s, label) /\ l = LineOf(docs[i], s, label)
<1> DEFINE m == M!NewMatrix(docs)
           o == M!Ordered(docs)
           csv == M!RenderCSV(docs)
           Told(d, s, label) == M!Known(d, s, label) /\ l = LineOf(d, s, label)
<1>1. /\ DOMAIN csv = 1..n
      /\ \A c \in 1..n :
           /\ DOMAIN csv[c].classes = DOMAIN m.classes /\ DOMAIN csv[c].queries = DOMAIN m.queries
           /\ \A k \in DOMAIN m.classes :
                csv[c].classes[k] = LinesOf(o[c], "classes", m.classes[k]) \o LinesOf(o[c], "cold", m.classes[k])
           /\ \A k \in DOMAIN m.queries : csv[c].queries[k] = LinesOf(o[c], "queries", m.queries[k])
  BY CsvIs DEF IsCsvOf
<1>2. M!ToSet(m.classes) = Labels(docs, n, "classes") /\ M!ToSet(m.queries) = Labels(docs, n, "queries")
  BY MatrixIs
<1>3. /\ \A k \in DOMAIN m.classes : m.classes[k] \in Labels(docs, n, "classes")
      /\ \A x \in Labels(docs, n, "classes") : \E k \in DOMAIN m.classes : m.classes[k] = x
      /\ \A k \in DOMAIN m.queries : m.queries[k] \in Labels(docs, n, "queries")
      /\ \A x \in Labels(docs, n, "queries") : \E k \in DOMAIN m.queries : m.queries[k] = x
  <2> HIDE DEF m
  <2> QED
    BY <1>2 DEF M!ToSet
<1>4. /\ \A i \in 1..n : M!Place(docs, i) \in 1..n /\ o[M!Place(docs, i)] = docs[i]
      /\ \A c \in 1..n : \E i \in 1..n : o[c] = docs[i]
  BY OrderedIs
<1>5. l \in M!Lines(csv) <=>
        \E c \in DOMAIN csv : \/ \E k \in DOMAIN csv[c].classes : l \in M!ToSet(csv[c].classes[k])
                              \/ \E k \in DOMAIN csv[c].queries : l \in M!ToSet(csv[c].queries[k])
  <2> HIDE DEF csv
  <2> QED
    BY DEF M!Lines
<1>6. \A d, s, label : l \in M!ToSet(LinesOf(d, s, label)) <=> Told(d, s, label)
  <2> TAKE d, s, label
  <2> DEFINE one == LineOf(d, s, label)
  <2>1. LinesOf(d, s, label) = IF M!Known(d, s, label) THEN <<one>> ELSE <<>>
    BY DEF LinesOf
  <2> HIDE DEF one
  <2>2. M!ToSet(<<one>>) = {one} /\ M!ToSet(<<>>) = {}
    BY DEF M!ToSet
  <2> QED
    BY <2>1, <2>2 DEF one
<1>7. \A d, label : l \in M!ToSet(LinesOf(d, "classes", label) \o LinesOf(d, "cold", label)) <=>
        Told(d, "classes", label) \/ Told(d, "cold", label)
  <2> TAKE d, label
  <2> DEFINE a == LinesOf(d, "classes", label)
             b == LinesOf(d, "cold", label)
             V == {LineOf(d, s, label) : s \in {"classes", "cold"}}
  <2>1. a \in Seq(V) /\ b \in Seq(V)
    <3> DEFINE x == LineOf(d, "classes", label)
               y == LineOf(d, "cold", label)
    <3>1. x \in V /\ y \in V
      OBVIOUS
    <3>2. (a = <<x>> \/ a = <<>>) /\ (b = <<y>> \/ b = <<>>)
      BY DEF LinesOf
    <3> HIDE DEF a, b, V, x, y
    <3>3. <<x>> \in Seq(V) /\ <<y>> \in Seq(V) /\ <<>> \in Seq(V)
      BY <3>1
    <3> QED
      BY <3>2, <3>3, Zenon
  <2> HIDE DEF a, b, V
  <2>2. M!ToSet(a \o b) = M!ToSet(a) \cup M!ToSet(b)
    BY <2>1, JoinedSet
  <2> QED
    BY <1>6, <2>2 DEF a, b
<1> HIDE DEF m, o, csv, Told
<1>8. ASSUME l \in M!Lines(csv)
      PROVE  \E i \in 1..n : \E s \in M!Sections : \E label : Told(docs[i], s, label)
  <2>1. PICK c \in 1..n : \/ \E k \in DOMAIN csv[c].classes : l \in M!ToSet(csv[c].classes[k])
                          \/ \E k \in DOMAIN csv[c].queries : l \in M!ToSet(csv[c].queries[k])
    BY <1>1, <1>5, <1>8
  <2>2. PICK i \in 1..n : o[c] = docs[i]
    BY <1>4
  <2>3. "classes" \in M!Sections /\ "cold" \in M!Sections /\ "queries" \in M!Sections
    BY DEF M!Sections
  <2>4. CASE \E k \in DOMAIN csv[c].classes : l \in M!ToSet(csv[c].classes[k])
    <3>1. PICK k \in DOMAIN m.classes : l \in M!ToSet(csv[c].classes[k])
      BY <1>1, <2>4
    <3>2. csv[c].classes[k] = LinesOf(docs[i], "classes", m.classes[k]) \o LinesOf(docs[i], "cold", m.classes[k])
      BY <1>1, <2>2
    <3>3. Told(docs[i], "classes", m.classes[k]) \/ Told(docs[i], "cold", m.classes[k])
      BY <1>7, <3>1, <3>2
    <3> QED
      BY <2>3, <3>3
  <2>5. CASE \E k \in DOMAIN csv[c].queries : l \in M!ToSet(csv[c].queries[k])
    <3>1. PICK k \in DOMAIN m.queries : l \in M!ToSet(csv[c].queries[k])
      BY <1>1, <2>5
    <3>2. csv[c].queries[k] = LinesOf(docs[i], "queries", m.queries[k])
      BY <1>1, <2>2
    <3>3. Told(docs[i], "queries", m.queries[k])
      BY <1>6, <3>1, <3>2
    <3> QED
      BY <2>3, <3>3
  <2> QED
    BY <2>1, <2>4, <2>5
<1>9. ASSUME NEW i \in 1..n, NEW s \in M!Sections, NEW label, Told(docs[i], s, label)
      PROVE  l \in M!Lines(csv) /\ label \in M!ToSet(RowNames)
  <2> DEFINE c == M!Place(docs, i)
  <2>1. c \in 1..n /\ o[c] = docs[i]
    BY <1>4
  <2>2. label \in Labels(docs, n, s)
    BY <1>9, KnownIsRow DEF Told
  <2>3. label \in M!ToSet(RowNames)
    BY <2>2, LabelsAreNames
  <2> HIDE DEF c
  <2>4. CASE s = "queries"
    <3>1. PICK k \in DOMAIN m.queries : m.queries[k] = label
      BY <1>3, <2>2, <2>4
    <3>2. l \in M!ToSet(csv[c].queries[k])
      BY <1>1, <1>6, <1>9, <2>1, <2>4, <3>1
    <3> QED
      BY <1>1, <1>5, <2>1, <2>3, <3>1, <3>2
  <2>5. CASE s # "queries"
    <3>1. s = "classes" \/ s = "cold"
      BY <2>5 DEF M!Sections
    <3>2. label \in Labels(docs, n, "classes")
      BY <2>2, <3>1 DEF Labels
    <3>3. PICK k \in DOMAIN m.classes : m.classes[k] = label
      BY <1>3, <3>2
    <3>4. l \in M!ToSet(csv[c].classes[k])
      <4>1. csv[c].classes[k] = LinesOf(docs[i], "classes", label) \o LinesOf(docs[i], "cold", label)
        BY <1>1, <2>1, <3>3
      <4>2. Told(docs[i], "classes", label) \/ Told(docs[i], "cold", label)
        BY <1>9, <3>1
      <4> QED
        BY <1>7, <4>1, <4>2
    <3> QED
      BY <1>1, <1>5, <2>1, <2>3, <3>3, <3>4
  <2> QED
    BY <2>4, <2>5
<1> QED
  BY <1>8, <1>9 DEF Told, csv

LEMMA CsvTells ==
  ASSUME NEW docs, NEW n, AreDocs(docs, n), M!IsLayout
  PROVE  M!CsvIsTheMatrix(docs, M!RenderCSV(docs))
<1> DEFINE csv == M!RenderCSV(docs)
<1>1. DOMAIN docs = 1..n
  BY DEF AreDocs
<1>2. \A l : l \in M!Lines(csv) <=>
           \E i \in 1..n : \E s \in M!Sections : \E label \in M!ToSet(RowNames) :
             M!Known(docs[i], s, label) /\ l = LineOf(docs[i], s, label)
  BY LinesAre
<1>3. \A d, s, label : /\ LineOf(d, s, label).section = s /\ LineOf(d, s, label).row = label
                       /\ LineOf(d, s, label).column = M!ColLabel(d)
                       /\ s = "queries" => LineOf(d, s, label).outcome = M!Marker(M!Verdict(d, label))
  <2> TAKE d, s, label
  <2>1. LineOf(d, s, label).section = s /\ LineOf(d, s, label).row = label
    BY DEF LineOf
  <2>2. LineOf(d, s, label).column = M!ColLabel(d)
    BY DEF LineOf
  <2>3. LineOf(d, s, label).outcome = IF s = "queries" THEN M!Marker(M!Verdict(d, label)) ELSE <<"", "">>
    BY DEF LineOf
  <2> QED
    BY <2>1, <2>2, <2>3
<1> HIDE DEF csv
<1>4. ASSUME NEW i \in DOMAIN docs, NEW section \in M!Sections, NEW label \in M!ToSet(RowNames)
      PROVE  LET mine == {l \in M!Lines(csv) : l.section = section /\ l.row = label /\ l.column = M!ColLabel(docs[i])}
             IN /\ mine # {} <=> \E j \in DOMAIN docs : M!ColLabel(docs[j]) = M!ColLabel(docs[i]) /\ M!Known(docs[j], section, label)
                /\ section = "queries" /\ M!Known(docs[i], section, label) =>
                     \E l \in mine : l.outcome = M!Marker(M!Verdict(docs[i], label))
  <2> DEFINE mine == {l \in M!Lines(csv) : l.section = section /\ l.row = label /\ l.column = M!ColLabel(docs[i])}
  <2>1. ASSUME NEW l \in mine
        PROVE  \E j \in DOMAIN docs : M!ColLabel(docs[j]) = M!ColLabel(docs[i]) /\ M!Known(docs[j], section, label)
    <3>1. PICK j \in 1..n, s \in M!Sections, x \in M!ToSet(RowNames) : M!Known(docs[j], s, x) /\ l = LineOf(docs[j], s, x)
      BY <1>2
    <3>2. s = section /\ x = label /\ M!ColLabel(docs[j]) = M!ColLabel(docs[i])
      BY <1>3, <3>1
    <3> QED
      BY <1>1, <3>1, <3>2
  <2>2. ASSUME NEW j \in DOMAIN docs, M!ColLabel(docs[j]) = M!ColLabel(docs[i]), M!Known(docs[j], section, label)
        PROVE  LineOf(docs[j], section, label) \in mine
    BY <1>1, <1>2, <1>3, <2>2
  <2> HIDE DEF mine
  <2>3. mine # {} <=> \E j \in DOMAIN docs : M!ColLabel(docs[j]) = M!ColLabel(docs[i]) /\ M!Known(docs[j], section, label)
    BY <2>1, <2>2
  <2>4. section = "queries" /\ M!Known(docs[i], section, label) =>
          \E l \in mine : l.outcome = M!Marker(M!Verdict(docs[i], label))
    BY <1>3, <2>2
  <2> QED
    BY <2>3, <2>4 DEF mine
<1> QED
  BY <1>4 DEF M!CsvIsTheMatrix, csv

-----------------------------------------------------------------------------
(* The matrix: the overhead and the newest documents.                        *)

\* As many columns have a query as documents have it.
LEMMA AsManyHave ==
  ASSUME NEW docs, NEW n, AreDocs(docs, n), NEW q
  PROVE  Cardinality({c \in DOMAIN M!Ordered(docs) : q \in DOMAIN M!Ordered(docs)[c].queries}) <=
           Cardinality({i \in DOMAIN docs : q \in DOMAIN docs[i].queries})
<1> DEFINE o == M!Ordered(docs)
           columns == {c \in DOMAIN o : q \in DOMAIN o[c].queries}
           those == {i \in DOMAIN docs : q \in DOMAIN docs[i].queries}
           from(c) == CHOOSE i \in 1..n : M!Place(docs, i) = c
           f == [c \in columns |-> from(c)]
<1>1. n \in Nat /\ DOMAIN docs = 1..n /\ DOMAIN o = 1..n
  BY OrderedIs DEF AreDocs
<1>2. \A i \in 1..n : o[M!Place(docs, i)] = docs[i]
  BY OrderedIs
<1>3. \A c \in 1..n : from(c) \in 1..n /\ M!Place(docs, from(c)) = c
  BY OrderedIs
<1> HIDE DEF o, from
<1>4. f \in [columns -> those]
  BY <1>1, <1>2, <1>3
<1>5. \A x, y \in columns : f[x] = f[y] => x = y
  BY <1>1, <1>3
<1>6. f \in Injection(columns, those)
  BY <1>4, <1>5 DEF Injection, IsInjective
<1>7. IsFiniteSet(those)
  <2>1. IsFiniteSet(DOMAIN docs)
    BY <1>1, FS_Interval
  <2> QED
    BY <2>1, FS_Subset
<1>8. Cardinality(columns) <= Cardinality(those)
  <2> HIDE DEF columns, those, f
  <2> QED
    BY <1>6, <1>7, FS_Injection
<1> QED
  BY <1>8 DEF o

\* The cell of a query that took some time, against the fastest.
IsCostCell(cell, p, fastest) ==
  /\ cell = <<>> <=> p = 0
  /\ p # 0 => cell.p50 = p /\ (cell.slower <=> p > fastest)

LeastOf(V) == CHOOSE v \in V : \A w \in V : v <= w

LEMMA CostsCompare ==
  ASSUME NEW n \in Nat, NEW p \in [1..n -> Nat], NEW cells, DOMAIN cells = 1..n, NEW fastest,
         fastest = LeastOf({p[i] : i \in 1..n} \ {0}), \A i \in 1..n : IsCostCell(cells[i], p[i], fastest)
  PROVE  /\ {i \in DOMAIN cells : cells[i] # <<>>} # {} => \E i \in {i \in DOMAIN cells : cells[i] # <<>>} : ~cells[i].slower
         /\ \A i, j \in {i \in DOMAIN cells : cells[i] # <<>>} : cells[i].p50 > cells[j].p50 => cells[i].slower
<1> DEFINE D == {i \in DOMAIN cells : cells[i] # <<>>}
           measured == {p[i] : i \in 1..n} \ {0}
           T == {r \in (1..n) \X (1..n) : p[r[1]] <= p[r[2]]}
<1>1. D \in SUBSET (1..n) /\ \A i \in 1..n : i \in D <=> p[i] # 0
  BY DEF IsCostCell
<1>2. \A v : v \in measured <=> \E i \in D : v = p[i]
  BY <1>1
<1>3. \A i, j \in 1..n : <<i, j>> \in T <=> p[i] <= p[j]
  OBVIOUS
<1>4. \A i \in D : cells[i].p50 = p[i] /\ p[i] \in Nat
  BY <1>1 DEF IsCostCell
<1>5. \A i \in D : cells[i].slower <=> p[i] > fastest
  <2>1. \A i \in D : i \in 1..n /\ p[i] # 0
    BY <1>1
  <2> HIDE DEF D
  <2> QED
    BY <2>1, Zenon DEF IsCostCell
<1>6. fastest = LeastOf(measured)
  OBVIOUS
<1> HIDE DEF D, T, measured
<1>7. ASSUME D # {}
      PROVE  fastest \in measured /\ \A w \in measured : fastest <= w
  <2>1. IsFiniteSet(1..n)
    BY FS_Interval
  <2>2. Ranking(1..n, T)
    <3>1. \A i \in 1..n : p[i] \in Int
      OBVIOUS
    <3>2. \A i, j \in 1..n : <<i, j>> \in T \/ <<j, i>> \in T
      <4> TAKE i, j \in 1..n
      <4>1. p[i] <= p[j] \/ p[j] <= p[i]
        BY <3>1
      <4> QED
        BY <1>3, <4>1, Zenon
    <3>3. \A i, j, k \in 1..n : <<i, j>> \in T /\ <<j, k>> \in T => <<i, k>> \in T
      BY <1>3, <3>1
    <3> QED
      BY <2>1, <3>2, <3>3 DEF Ranking
  <2>3. PICK d \in D : \A i \in D : <<d, i>> \in T
    BY <1>1, <1>7, <2>2, HasLowest
  <2>4. p[d] \in measured /\ \A w \in measured : p[d] <= w
    <3>1. \A i \in D : p[d] <= p[i]
      BY <1>1, <1>3, <2>3
    <3>2. p[d] \in measured
      BY <1>2
    <3> QED
      BY <1>2, <3>1, <3>2, Zenon
  <2> QED
    <3>1. \E v \in measured : \A w \in measured : v <= w
      BY <2>4
    <3> QED
      BY <1>6, <3>1, Zenon DEF LeastOf
<1>8. ASSUME D # {}
      PROVE  \E i \in D : ~(p[i] > fastest)
  <2>1. PICK i \in D : fastest = p[i]
    BY <1>2, <1>7, <1>8
  <2>2. p[i] \in Nat
    BY <1>4
  <2>3. ~(p[i] > fastest)
    BY <2>1, <2>2
  <2> QED
    BY <2>3, Zenon
<1>9. \A i, j \in D : cells[i].p50 > cells[j].p50 => p[i] > fastest
  <2> TAKE i, j \in D
  <2>1. PICK k \in D : fastest = p[k]
    BY <1>2, <1>7
  <2>2. fastest <= p[j]
    BY <1>2, <1>7
  <2> QED
    BY <1>4, <2>1, <2>2
<1>10. D # {} => \E i \in D : ~cells[i].slower
  BY <1>5, <1>8, Zenon
<1>11. \A i, j \in D : cells[i].p50 > cells[j].p50 => cells[i].slower
  BY <1>5, <1>9, Zenon
<1> QED
  BY <1>10, <1>11 DEF D

LEMMA OverheadTold ==
  ASSUME NEW docs, NEW n, AreDocs(docs, n), M!IsLayout
  PROVE  M!OverheadIsAgainstFastest(docs, M!RenderOverhead(docs))
<1> DEFINE o == M!Ordered(docs)
           rows == M!RenderOverhead(docs)
           having(q) == {i \in DOMAIN o : q \in DOMAIN o[i].queries}
           those == {q \in M!Everywhere(o, "queries") : M!Cardinality(having(q)) >= 2}
           shared == M!Sorted(those)
           p(i, q) == IF i \in having(q) THEN o[i].queries[q].p50 ELSE 0
           measured(q) == {p(i, q) : i \in DOMAIN o} \ {0}
           fastest(q) == LeastOf(measured(q))
           unit(q) == M!PickUnit(M!Positive([j \in DOMAIN o |-> p(j, q)]))
           cell(i, q) ==
             IF p(i, q) = 0 THEN <<>>
             ELSE [latency |-> M!FormatLatency(p(i, q), unit(q)), p50 |-> p(i, q),
                   over |-> M!FormatLatency(p(i, q) - fastest(q), unit(q)), slower |-> p(i, q) > fastest(q)]
<1>1. n \in Nat /\ DOMAIN docs = 1..n /\ DOMAIN o = 1..n
  BY OrderedIs DEF AreDocs
<1>2. \A c \in 1..n : IsDoc(o[c])
  <2>1. \A c \in 1..n : \E i \in 1..n : o[c] = docs[i]
    BY OrderedIs
  <2> QED
    BY <2>1 DEF AreDocs
<1>3. rows = [k \in DOMAIN shared |-> [query |-> shared[k], cells |-> [i \in DOMAIN o |-> cell(i, shared[k])]]]
  BY DEF M!RenderOverhead, LeastOf
<1>4. \A i \in 1..n : \A q : p(i, q) \in Nat
  <2> TAKE i \in 1..n
  <2> TAKE q
  <2>1. CASE i \in having(q)
    <3>1. IsDoc(o[i]) /\ "queries" \in M!Sections /\ q \in DOMAIN o[i]["queries"]
      BY <1>2, <2>1 DEF M!Sections
    <3>2. o[i]["queries"][q].p50 \in Nat
      BY <3>1, StatIs
    <3> QED
      BY <2>1, <3>2
  <2>2. CASE i \notin having(q)
    BY <2>2
  <2> QED
    BY <2>1, <2>2
<1>5. \A i, q : IsCostCell(cell(i, q), p(i, q), fastest(q))
  <2> TAKE i, q
  <2> DEFINE f == fastest(q)
             v == p(i, q)
             u == unit(q)
             c == [latency |-> M!FormatLatency(v, u), p50 |-> v, over |-> M!FormatLatency(v - f, u), slower |-> v > f]
  <2>1. cell(i, q) = IF v = 0 THEN <<>> ELSE c
    OBVIOUS
  <2> HIDE DEF f, v, u
  <2>2. c.p50 = v /\ (c.slower <=> v > f) /\ c # <<>>
    <3>1. "p50" \in DOMAIN c /\ "p50" \notin DOMAIN <<>>
      OBVIOUS
    <3> QED
      BY <3>1
  <2> HIDE DEF c, cell
  <2>3. IsCostCell(cell(i, q), v, f)
    BY <2>1, <2>2 DEF IsCostCell
  <2> QED
    BY <2>3 DEF v, f
<1>6. \A k \in DOMAIN shared : M!Cardinality(having(shared[k])) >= 2
  BY SortedIs
<1>7. \A q : fastest(q) = LeastOf({p(i, q) : i \in 1..n} \ {0})
  BY <1>1
<1> HIDE DEF shared, cell, p, fastest
<1>8. ASSUME NEW k \in DOMAIN rows
      PROVE  LET cells == {i \in DOMAIN rows[k].cells : rows[k].cells[i] # <<>>}
                 p50(i) == rows[k].cells[i].p50
             IN /\ cells # {} => \E i \in cells : ~rows[k].cells[i].slower
                /\ \A i, j \in cells : p50(i) > p50(j) => rows[k].cells[i].slower
                /\ M!Cardinality({i \in DOMAIN docs : rows[k].query \in DOMAIN docs[i].queries}) >= 2
  <2> DEFINE q == shared[k]
             cs == rows[k].cells
             P == [i \in 1..n |-> p(i, q)]
  <2>1. k \in DOMAIN shared /\ rows[k].query = q /\ DOMAIN cs = 1..n /\ \A i \in 1..n : cs[i] = cell(i, q)
    BY <1>1, <1>3
  <2>2. M!Cardinality({i \in DOMAIN docs : q \in DOMAIN docs[i].queries}) >= 2
    <3> DEFINE a == Cardinality(having(q))
               b == Cardinality({i \in DOMAIN docs : q \in DOMAIN docs[i].queries})
    <3>1. a <= b
      BY AsManyHave
    <3>2. a >= 2
      BY <1>6, <2>1, MatrixCounts
    <3>3. a \in Nat /\ b \in Nat
      <4>1. IsFiniteSet(1..n) /\ having(q) \in SUBSET (1..n) /\ {i \in DOMAIN docs : q \in DOMAIN docs[i].queries} \in SUBSET (1..n)
        BY <1>1, FS_Interval
      <4>2. IsFiniteSet(having(q)) /\ IsFiniteSet({i \in DOMAIN docs : q \in DOMAIN docs[i].queries})
        BY <4>1, FS_Subset
      <4> QED
        BY <4>2, FS_CardinalityType
    <3>4. M!Cardinality({i \in DOMAIN docs : q \in DOMAIN docs[i].queries}) = b
      BY MatrixCounts
    <3> HIDE DEF a, b
    <3> QED
      BY <3>1, <3>2, <3>3, <3>4
  <2>3. P \in [1..n -> Nat] /\ \A i \in 1..n : IsCostCell(cs[i], P[i], fastest(q))
    <3> HIDE DEF cs, q
    <3> QED
      BY <1>4, <1>5, <2>1
  <2>3a. fastest(q) = LeastOf({P[i] : i \in 1..n} \ {0})
    <3>1. {P[i] : i \in 1..n} = {p(i, q) : i \in 1..n}
      <4> HIDE DEF q
      <4> QED
        OBVIOUS
    <3>2. fastest(q) = LeastOf({p(i, q) : i \in 1..n} \ {0})
      BY <1>7
    <3> HIDE DEF P, q
    <3> QED
      BY <3>1, <3>2
  <2> HIDE DEF cs, P, q, rows
  <2>4. /\ {i \in DOMAIN cs : cs[i] # <<>>} # {} => \E i \in {i \in DOMAIN cs : cs[i] # <<>>} : ~cs[i].slower
        /\ \A i, j \in {i \in DOMAIN cs : cs[i] # <<>>} : cs[i].p50 > cs[j].p50 => cs[i].slower
    BY <1>1, <2>1, <2>3, <2>3a, CostsCompare
  <2> QED
    BY <2>1, <2>2, <2>4 DEF cs
<1> QED
  BY <1>8 DEF M!OverheadIsAgainstFastest, rows

LEMMA NewestTold ==
  ASSUME NEW docs, NEW n, AreDocs(docs, n)
  PROVE  M!NewestOfEach(docs, M!LatestPerEngine(docs))
<1> DEFINE F == {i \in DOMAIN docs : \A j \in 1..(i - 1) : docs[j].engine # docs[i].engine}
           met == M!Ascending(F)
           IsLast(i, e) ==
             /\ docs[i].engine = e
             /\ \A j \in DOMAIN docs : docs[j].engine = e =>
                  docs[j].started < docs[i].started \/ (docs[j].started = docs[i].started /\ j <= i)
           last(e) == CHOOSE i \in DOMAIN docs : IsLast(i, e)
           latest == M!LatestPerEngine(docs)
           T == {r \in (1..n) \X (1..n) : docs[r[1]].started < docs[r[2]].started \/
                                          (docs[r[1]].started = docs[r[2]].started /\ r[1] <= r[2])}
<1>1. n \in Nat /\ DOMAIN docs = 1..n /\ \A i \in 1..n : docs[i].started \in Int
  BY DEF AreDocs, IsDoc
<1>2. latest = [k \in DOMAIN met |-> docs[last(docs[met[k]].engine)]]
  BY DEF M!LatestPerEngine
<1>3. \A i, j \in 1..n : <<i, j>> \in T <=>
        docs[i].started < docs[j].started \/ (docs[i].started = docs[j].started /\ i <= j)
  OBVIOUS
<1>4. F \in SUBSET (1..n) /\ IsFiniteSet(1..n)
  <2>1. F \in SUBSET (1..n)
    BY <1>1
  <2>2. IsFiniteSet(1..n)
    BY <1>1, FS_Interval
  <2> QED
    BY <2>1, <2>2
<1>5. \A i \in F : \A j \in 1..n : j < i => docs[j].engine # docs[i].engine
  BY <1>1
<1>6. \A i \in 1..n : \E f \in F : docs[f].engine = docs[i].engine
  <2> TAKE i \in 1..n
  <2> DEFINE same == {j \in 1..n : docs[j].engine = docs[i].engine}
  <2>1. same \in SUBSET Int /\ same \in SUBSET (1..n) /\ same # {}
    OBVIOUS
  <2>2. IsFiniteSet(same)
    BY <1>4, <2>1, FS_Subset
  <2>3. PICK f \in same : \A j \in same : f <= j
    <3> HIDE DEF same
    <3> QED
      BY <2>1, <2>2, HasLeast
  <2>4. f \in F
    BY <1>1, <2>3
  <2> QED
    BY <2>3, <2>4
<1> HIDE DEF F, T
<1>7. \A i \in 1..n : last(docs[i].engine) \in 1..n /\ IsLast(last(docs[i].engine), docs[i].engine)
  <2> TAKE i \in 1..n
  <2> DEFINE same == {j \in 1..n : docs[j].engine = docs[i].engine}
  <2>1. Ranking(1..n, T)
    <3> DEFINE at == [j \in 1..n |-> docs[j].started]
    <3>1. \A j \in 1..n : j \in Int /\ at[j] \in Int /\ docs[j].started = at[j]
      BY <1>1
    <3> HIDE DEF at
    <3>2. \A j, k \in 1..n : <<j, k>> \in T <=> at[j] < at[k] \/ (at[j] = at[k] /\ j <= k)
      BY <1>3, <3>1
    <3>3. \A j, k \in 1..n : <<j, k>> \in T \/ <<k, j>> \in T
      <4> TAKE j, k \in 1..n
      <4>1. \/ at[j] < at[k] \/ (at[j] = at[k] /\ j <= k)
            \/ at[k] < at[j] \/ (at[k] = at[j] /\ k <= j)
        BY <3>1
      <4> QED
        BY <3>2, <4>1, Zenon
    <3>4. \A j, k, l \in 1..n : <<j, k>> \in T /\ <<k, l>> \in T => <<j, l>> \in T
      BY <3>1, <3>2
    <3> QED
      BY <1>4, <3>3, <3>4 DEF Ranking
  <2>2. same \in SUBSET (1..n) /\ same # {}
    OBVIOUS
  <2>3. PICK d \in same : \A j \in same : <<j, d>> \in T
    <3> HIDE DEF same
    <3> QED
      BY <2>1, <2>2, HasHighest
  <2>4. IsLast(d, docs[i].engine)
    BY <1>1, <1>3, <2>3
  <2> HIDE DEF IsLast
  <2> QED
    BY <1>1, <2>3, <2>4
<1>8. /\ met \in [1..Cardinality(F) -> F]
      /\ \A f \in F : \E k \in 1..Cardinality(F) : met[k] = f
      /\ \A j, k \in 1..Cardinality(F) : met[j] = met[k] => j = k
  <2>1. F \in SUBSET Int /\ IsFiniteSet(F)
    <3>1. IsFiniteSet(F)
      BY <1>4, FS_Subset
    <3> QED
      BY <1>4, <3>1
  <2> QED
    BY <2>1, AscendingIs
<1> HIDE DEF met, last, latest
<1>9. /\ DOMAIN latest = DOMAIN met
      /\ \A k \in DOMAIN met : met[k] \in 1..n /\ latest[k] = docs[last(docs[met[k]].engine)]
  BY <1>2, <1>4, <1>8
<1>10. \A k \in DOMAIN met : latest[k].engine = docs[met[k]].engine
  BY <1>7, <1>9
<1>11. {latest[k].engine : k \in DOMAIN latest} = {docs[i].engine : i \in DOMAIN docs}
  <2>1. \A k \in DOMAIN latest : latest[k].engine \in {docs[i].engine : i \in DOMAIN docs}
    BY <1>1, <1>9, <1>10
  <2>2. \A i \in DOMAIN docs : \E k \in DOMAIN latest : latest[k].engine = docs[i].engine
    <3> TAKE i \in DOMAIN docs
    <3>1. PICK f \in F : docs[f].engine = docs[i].engine
      BY <1>1, <1>6
    <3>2. PICK k \in 1..Cardinality(F) : met[k] = f
      BY <1>8
    <3> QED
      BY <1>8, <1>9, <1>10, <3>1, <3>2
  <2> QED
    BY <2>1, <2>2
<1>12. \A j, k \in DOMAIN latest : latest[j].engine = latest[k].engine => j = k
  <2> TAKE j, k \in DOMAIN latest
  <2> HAVE latest[j].engine = latest[k].engine
  <2>1. docs[met[j]].engine = docs[met[k]].engine /\ met[j] \in F /\ met[k] \in F /\ met[j] \in 1..n /\ met[k] \in 1..n
    BY <1>8, <1>9, <1>10
  <2>2. ~(met[j] < met[k]) /\ ~(met[k] < met[j])
    BY <1>5, <2>1
  <2>3. met[j] = met[k]
    BY <2>1, <2>2
  <2> QED
    BY <1>8, <1>9, <2>3
<1>13. \A k \in DOMAIN latest, i \in DOMAIN docs : docs[i].engine = latest[k].engine => docs[i].started <= latest[k].started
  <2> TAKE k \in DOMAIN latest, i \in DOMAIN docs
  <2> HAVE docs[i].engine = latest[k].engine
  <2> DEFINE e == docs[met[k]].engine
             m == last(e)
  <2>1. m \in 1..n /\ IsLast(m, e) /\ latest[k] = docs[m] /\ docs[i].engine = e
    BY <1>7, <1>9, <1>10
  <2>2. docs[i].started < docs[m].started \/ docs[i].started = docs[m].started
    BY <2>1
  <2> HIDE DEF m, e
  <2> QED
    BY <1>1, <2>1, <2>2
<1> QED
  BY <1>11, <1>12, <1>13 DEF M!NewestOfEach, latest

LEMMA MatrixTold ==
  ASSUME NEW raws, M!IsLineage(raws), M!IsLayout
  PROVE  M!TellsAll(raws, M!Rendered([i \in DOMAIN raws |-> M!ReadDoc(raws[i])]))
<1> DEFINE docs == [i \in DOMAIN raws |-> M!ReadDoc(raws[i])]
           n == Len(raws)
           all == M!Rendered(docs)
<1>1. AreDocs(docs, n)
  BY LineageIsRead
<1>2. M!UnsampledIsNotZero(raws, docs, M!RenderResources(docs))
  BY UnsampledShown
<1>3. DOMAIN docs = DOMAIN raws /\ \A i \in DOMAIN docs : docs[i] = M!ReadDoc(raws[i])
  OBVIOUS
<1> DEFINE Tells ==
             /\ M!CellsAreEarned(docs, all.table)
             /\ M!CellsAreEarned(docs, all.markdown)
             /\ M!FailuresAreTold(docs, all.table)
             /\ M!CsvIsTheMatrix(docs, all.csv)
             /\ M!OverheadIsAgainstFastest(docs, all.overhead)
             /\ M!UnsampledIsNotZero(raws, docs, all.resources)
             /\ M!NewestOfEach(docs, M!LatestPerEngine(docs))
             /\ \A k \in DOMAIN all.drift : \E i \in DOMAIN docs : all.drift[k].label \in DOMAIN docs[i].drift
             /\ \A i \in DOMAIN docs : \A id \in DOMAIN docs[i].teps :
                  \E k \in DOMAIN all.traversal : all.traversal[k].label = id
<1>4. Tells
  <2> HIDE DEF docs, n
  <2>1. /\ all.table = M!RenderTable(docs) /\ all.markdown = M!RenderMarkdown(docs)
        /\ all.csv = M!RenderCSV(docs) /\ all.overhead = M!RenderOverhead(docs)
        /\ all.resources = M!RenderResources(docs) /\ all.traversal = M!RenderTraversal(docs)
        /\ all.drift = M!RenderDrift(docs)
    BY DEF M!Rendered
  <2> HIDE DEF all
  <2>2. M!CellsAreEarned(docs, all.table) /\ M!CellsAreEarned(docs, all.markdown)
    BY <1>1, <2>1, TablesAre, CellsEarned
  <2>3. M!FailuresAreTold(docs, all.table)
    BY <1>1, <2>1, FailuresTold
  <2>4. M!CsvIsTheMatrix(docs, all.csv)
    BY <1>1, <2>1, CsvTells
  <2>5. M!OverheadIsAgainstFastest(docs, all.overhead)
    BY <1>1, <2>1, OverheadTold
  <2>6. M!UnsampledIsNotZero(raws, docs, all.resources)
    BY <1>2, <2>1
  <2>7. M!NewestOfEach(docs, M!LatestPerEngine(docs))
    BY <1>1, NewestTold
  <2>8. \A k \in DOMAIN all.drift : \E i \in DOMAIN docs : all.drift[k].label \in DOMAIN docs[i].drift
    BY <1>1, <2>1, TraversalsTold
  <2>9. \A i \in DOMAIN docs : \A id \in DOMAIN docs[i].teps :
          \E k \in DOMAIN all.traversal : all.traversal[k].label = id
    BY <1>1, <2>1, TraversalsTold
  <2> QED
    BY <2>2, <2>3, <2>4, <2>5, <2>6, <2>7, <2>8, <2>9
<1>5. M!TellsAll(raws, all) <=> Tells
  <2> HIDE DEF all
  <2> QED
    BY DEF M!TellsAll
<1> QED
  BY <1>4, <1>5 DEF all, docs

\* report.go, csv.go, overhead.go and compare.go: whatever documents a reader is shown, of any
\* version and in any order, no number stands in a cell that was not earned, no failure and no
\* skip goes without its mark, no row and no csv line is left out, memory that was not sampled
\* does not read as none, and the newest document of each engine is the one compared.
THEOREM MatrixIsTold == FiguresSpec => []MatrixTellsAll
<1>1. AskedInv => MatrixTellsAll
  <2> SUFFICES ASSUME AskedInv, Answered("matrix")
               PROVE  M!TellsAll(asked, told)
    BY DEF MatrixTellsAll
  <2>1. M!IsLineage(asked) /\ M!IsLayout /\ told = M!Rendered([i \in DOMAIN asked |-> M!ReadDoc(asked[i])])
    BY FiguresAssumption DEF AskedInv, Answered
  <2> QED
    BY <2>1, MatrixTold
<1>2. FiguresSpec => []AskedInv
  BY AskedInvInit, AskedInvNext, PTL DEF FiguresSpec
<1> QED
  BY <1>1, <1>2, PTL

===============================================================================
