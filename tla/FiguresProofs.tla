----------------------------- MODULE FiguresProofs -----------------------------
(***************************************************************************)
(* Proofs about the figures: that a warmup is declared only when earned,   *)
(* that the verdicts of the gate, of repeats and of a rival are fair and   *)
(* that schedules are exact, for every document, run and reading the       *)
(* harness can write.                                                      *)
(***************************************************************************)
EXTENDS Figures, FiniteSetTheorems, TLAPS

-----------------------------------------------------------------------------
(* Ranks.                                                                    *)

\* A finite set, and a relation that orders it up to ties.
Ranking(I, T) ==
  /\ IsFiniteSet(I)
  /\ \A i, j \in I : <<i, j>> \in T \/ <<j, i>> \in T
  /\ \A i, j, k \in I : <<i, j>> \in T /\ <<j, k>> \in T => <<i, k>> \in T

NotAbove(I, T, k) == {i \in I : <<i, k>> \in T}
Below(I, T, k) == {i \in I : <<k, i>> \notin T}

LEMMA CountsParts ==
  ASSUME NEW I, IsFiniteSet(I), NEW A \in SUBSET I, NEW B \in SUBSET A
  PROVE  /\ IsFiniteSet(A) /\ IsFiniteSet(B) /\ Cardinality(A) \in Nat /\ Cardinality(B) \in Nat
         /\ Cardinality(I) \in Nat
         /\ Cardinality(B) <= Cardinality(A) /\ Cardinality(A) <= Cardinality(I)
         /\ B # A => Cardinality(B) < Cardinality(A)
<1>1. IsFiniteSet(A) /\ Cardinality(A) <= Cardinality(I)
  BY FS_Subset
<1>2. IsFiniteSet(B) /\ Cardinality(B) <= Cardinality(A) /\ (Cardinality(A) = Cardinality(B) => A = B)
  BY <1>1, FS_Subset
<1>3. Cardinality(A) \in Nat /\ Cardinality(B) \in Nat /\ Cardinality(I) \in Nat
  BY <1>1, <1>2, FS_CardinalityType
<1> QED
  BY <1>1, <1>2, <1>3

\* One of the highest: the fewest are left above it.
LEMMA HasHighest ==
  ASSUME NEW I, NEW T, Ranking(I, T), NEW D \in SUBSET I, D # {}
  PROVE  \E d \in D : \A i \in D : <<i, d>> \in T
<1> DEFINE left(k) == {i \in D : <<i, k>> \notin T}
           all == {left(k) : k \in D}
<1>1. /\ IsWellFoundedOn(StrictSubsetOrdering(D), FiniteSubsetsOf(D))
      /\ all \subseteq FiniteSubsetsOf(D)
      /\ all # {}
  <2>1. IsFiniteSet(D)
    BY FS_Subset DEF Ranking
  <2>2. FiniteSubsetsOf(D) = SUBSET D
    BY <2>1, FS_FiniteSubsetsOfFinite
  <2>3. all \subseteq SUBSET D /\ all # {}
    OBVIOUS
  <2> QED
    BY <2>2, <2>3, FS_StrictSubsetOrderingWellFounded
<1>2. \E X \in all : \A Y \in all : ~(<<Y, X>> \in StrictSubsetOrdering(D))
  <2> HIDE DEF all
  <2> QED
    BY <1>1, WFMin
<1>3. PICK d \in D : \A k \in D : <<left(k), left(d)>> \notin StrictSubsetOrdering(D)
  BY <1>2
<1>4. \A k \in D : left(k) \subseteq left(d) => left(k) = left(d)
  <2>1. \A k \in D : left(k) \in SUBSET D
    OBVIOUS
  <2> HIDE DEF left
  <2> QED
    BY <1>3, <2>1 DEF StrictSubsetOrdering
<1>5. ASSUME NEW i \in D, <<i, d>> \notin T
      PROVE  FALSE
  <2>1. <<d, i>> \in T /\ <<i, i>> \in T
    BY <1>5 DEF Ranking
  <2>2. left(i) \subseteq left(d)
    BY <2>1 DEF Ranking
  <2>3. i \notin left(i) /\ i \in left(d)
    BY <1>5, <2>1
  <2> QED
    BY <1>4, <2>2, <2>3
<1> QED
  BY <1>5

\* And one of the lowest.
LEMMA HasLowest ==
  ASSUME NEW I, NEW T, Ranking(I, T), NEW D \in SUBSET I, D # {}
  PROVE  \E d \in D : \A i \in D : <<d, i>> \in T
<1> DEFINE U == {p \in I \X I : <<p[2], p[1]>> \in T}
<1>1. \A i, j \in I : <<i, j>> \in U <=> <<j, i>> \in T
  OBVIOUS
<1> HIDE DEF U
<1>2. Ranking(I, U)
  BY <1>1 DEF Ranking
<1>3. PICK d \in D : \A i \in D : <<i, d>> \in U
  BY <1>2, HasHighest
<1> QED
  BY <1>1, <1>3

\* Every rank is somebody's.
LEMMA RankExists ==
  ASSUME NEW I, NEW T, Ranking(I, T), NEW n \in Nat, 1 <= n, n <= Cardinality(I)
  PROVE  \E k \in I : Cardinality(Below(I, T, k)) < n /\ n <= Cardinality(NotAbove(I, T, k))
<1> DEFINE enough == {k \in I : n <= Cardinality(NotAbove(I, T, k))}
<1>1. /\ IsFiniteSet(I) /\ Cardinality(I) \in Nat
      /\ \A k \in I : NotAbove(I, T, k) \in SUBSET I /\ Below(I, T, k) \in SUBSET I
  BY FS_CardinalityType DEF Ranking, NotAbove, Below
<1>2. enough # {}
  <2>1. I # {}
    BY <1>1, FS_EmptySet
  <2>2. PICK k \in I : \A i \in I : <<i, k>> \in T
    BY <2>1, HasHighest
  <2>3. NotAbove(I, T, k) = I
    BY <2>2 DEF NotAbove
  <2> QED
    BY <2>3
<1>3. PICK k \in enough : \A i \in enough : <<k, i>> \in T
  <2>1. enough \in SUBSET I
    OBVIOUS
  <2> HIDE DEF enough
  <2> QED
    BY <1>2, <2>1, HasLowest
<1>4. ASSUME ~(Cardinality(Below(I, T, k)) < n)
      PROVE  FALSE
  <2>1. /\ Below(I, T, k) \in SUBSET I /\ IsFiniteSet(Below(I, T, k))
        /\ Cardinality(Below(I, T, k)) \in Nat /\ n <= Cardinality(Below(I, T, k))
    BY <1>1, <1>4, FS_Subset, FS_CardinalityType
  <2>2. Below(I, T, k) # {}
    BY <2>1, FS_EmptySet
  <2>3. PICK d \in Below(I, T, k) : \A i \in Below(I, T, k) : <<i, d>> \in T
    BY <2>1, <2>2, HasHighest
  <2>4. d \in I /\ <<k, d>> \notin T
    BY <2>3 DEF Below
  <2>5. Below(I, T, k) \in SUBSET NotAbove(I, T, d)
    BY <2>3 DEF Below, NotAbove
  <2>6. Cardinality(Below(I, T, k)) <= Cardinality(NotAbove(I, T, d)) /\ Cardinality(NotAbove(I, T, d)) \in Nat
    BY <1>1, <2>4, <2>5, CountsParts
  <2>7. d \in enough
    BY <2>1, <2>4, <2>6
  <2> QED
    BY <1>3, <2>4, <2>7
<1> QED
  BY <1>3, <1>4

\* A higher rank is not lower.
LEMMA RanksRise ==
  ASSUME NEW I, NEW T, Ranking(I, T), NEW m \in Nat, NEW n \in Nat, m <= n, NEW j \in I, NEW k \in I,
         Cardinality(Below(I, T, j)) < m, n <= Cardinality(NotAbove(I, T, k))
  PROVE  <<j, k>> \in T
<1> SUFFICES ASSUME <<j, k>> \notin T
             PROVE  FALSE
  OBVIOUS
<1>1. NotAbove(I, T, k) \in SUBSET Below(I, T, j) /\ Below(I, T, j) \in SUBSET I
  BY DEF NotAbove, Below, Ranking
<1>2. /\ Cardinality(NotAbove(I, T, k)) <= Cardinality(Below(I, T, j))
      /\ Cardinality(NotAbove(I, T, k)) \in Nat /\ Cardinality(Below(I, T, j)) \in Nat
  BY <1>1, CountsParts DEF Ranking
<1> QED
  BY <1>2


-----------------------------------------------------------------------------
(* The warmup detector.                                                      *)

LEMMA NthLeastIs ==
  ASSUME NEW lat \in Seq(Nat), NEW n \in 1..Len(lat)
  PROVE  /\ NthLeast(lat, n) \in ToSet(lat)
         /\ Cardinality({i \in DOMAIN lat : lat[i] < NthLeast(lat, n)}) < n
         /\ n <= Cardinality({i \in DOMAIN lat : lat[i] <= NthLeast(lat, n)})
<1> DEFINE I == DOMAIN lat
           T == {p \in I \X I : lat[p[1]] <= lat[p[2]]}
<1>1. /\ I = 1..Len(lat) /\ Len(lat) \in Nat
      /\ \A i \in I : lat[i] \in Nat
      /\ IsFiniteSet(I) /\ Cardinality(I) = Len(lat)
  <2>1. I = 1..Len(lat) /\ Len(lat) \in Nat /\ \A i \in I : lat[i] \in Nat
    OBVIOUS
  <2> HIDE DEF I
  <2>2. \A n1 \in Nat : IsFiniteSet(1..n1) /\ Cardinality(1..n1) = n1
    <3> SUFFICES ASSUME NEW n1 \in Nat
                 PROVE  IsFiniteSet(1..n1) /\ Cardinality(1..n1) = n1
      OBVIOUS
    <3>1. 1 \in Int /\ n1 \in Int
      OBVIOUS
    <3> QED
      BY <3>1, FS_Interval
  <2> QED
    BY <2>1, <2>2
<1>2. \A i, j \in I : <<i, j>> \in T <=> lat[i] <= lat[j]
  OBVIOUS
<1> HIDE DEF I, T
<1>3. Ranking(I, T)
  <2>1. \A i, j \in I : lat[i] <= lat[j] \/ lat[j] <= lat[i]
    BY <1>1
  <2>2. \A i, j, k \in I : lat[i] <= lat[j] /\ lat[j] <= lat[k] => lat[i] <= lat[k]
    BY <1>1
  <2> QED
    BY <1>1, <1>2, <2>1, <2>2 DEF Ranking
<1>4. PICK k \in I : Cardinality(Below(I, T, k)) < n /\ n <= Cardinality(NotAbove(I, T, k))
  BY <1>1, <1>3, RankExists
<1>5. /\ Below(I, T, k) = {i \in DOMAIN lat : lat[i] < lat[k]}
      /\ NotAbove(I, T, k) = {i \in DOMAIN lat : lat[i] <= lat[k]}
  <2>1. \A i \in I : (lat[i] < lat[k] <=> ~(lat[k] <= lat[i]))
    BY <1>1
  <2>2. Below(I, T, k) = {i \in I : lat[i] < lat[k]}
    BY <1>2, <2>1 DEF Below
  <2>3. NotAbove(I, T, k) = {i \in I : lat[i] <= lat[k]}
    BY <1>2 DEF NotAbove
  <2> QED
    BY <2>2, <2>3 DEF I
<1>6. /\ lat[k] \in ToSet(lat)
      /\ Cardinality({i \in DOMAIN lat : lat[i] < lat[k]}) < n
      /\ n <= Cardinality({i \in DOMAIN lat : lat[i] <= lat[k]})
  BY <1>4, <1>5 DEF ToSet, I
<1> QED
  BY <1>6 DEF NthLeast

LEMMA Rank99Is ==
  ASSUME NEW n \in Nat, n >= 1
  PROVE  /\ Rank99(n) \in 1..n
         /\ 100 * Rank99(n) >= 99 * n /\ 100 * (Rank99(n) - 1) < 99 * n
  BY SMT DEF Rank99

LEMMA P99IsP99 ==
  ASSUME NEW lat \in Seq(Nat), lat # <<>>
  PROVE  IsP99(P99(lat), lat) /\ P99(lat) \in Nat
<1> DEFINE n == Len(lat)
           r == Rank99(n)
           v == NthLeast(lat, r)
           atMost(x) == Cardinality({i \in DOMAIN lat : lat[i] <= x})
           below == Cardinality({i \in DOMAIN lat : lat[i] < v})
<1>1. /\ n \in Nat /\ n >= 1 /\ r \in 1..n
      /\ 100 * r >= 99 * n /\ 100 * (r - 1) < 99 * n
  <2>1. n \in Nat /\ n >= 1
    OBVIOUS
  <2> QED
    BY <2>1, Rank99Is
<1>2. /\ v \in ToSet(lat)
      /\ below < r
      /\ r <= atMost(v)
  <2> HIDE DEF r
  <2> QED
    BY <1>1, NthLeastIs
<1>3. /\ \A i \in DOMAIN lat : lat[i] \in Nat
      /\ IsFiniteSet(DOMAIN lat)
      /\ ToSet(lat) \subseteq Nat
  <2>1. DOMAIN lat = 1..n /\ \A i \in DOMAIN lat : lat[i] \in Nat
    OBVIOUS
  <2>2. 1 \in Int /\ n \in Int
    BY <1>1
  <2> HIDE DEF n
  <2>3. IsFiniteSet(DOMAIN lat)
    BY <2>1, <2>2, FS_Interval
  <2> QED
    BY <2>1, <2>3 DEF ToSet
<1>4. \A x : atMost(x) \in Nat
  <2>1. \A x : {i \in DOMAIN lat : lat[i] <= x} \in SUBSET DOMAIN lat
    OBVIOUS
  <2> QED
    BY <1>3, <2>1, CountsParts
<1>5. 100 * atMost(v) >= 99 * n
  <2> HIDE DEF r, atMost, v
  <2> QED
    BY <1>1, <1>2, <1>4
<1>6. ASSUME NEW u \in ToSet(lat), u < v
      PROVE  100 * atMost(u) < 99 * n
  <2>1. /\ {i \in DOMAIN lat : lat[i] <= u} \in SUBSET {i \in DOMAIN lat : lat[i] < v}
        /\ {i \in DOMAIN lat : lat[i] < v} \in SUBSET DOMAIN lat
    BY <1>2, <1>3, <1>6
  <2>2. atMost(u) <= below /\ below \in Nat
    BY <1>3, <2>1, CountsParts
  <2>3. atMost(u) < r
    <3> HIDE DEF r, atMost, v, below
    <3> QED
      BY <1>1, <1>2, <1>4, <2>2
  <2> HIDE DEF r, atMost, v
  <2> QED
    BY <1>1, <1>4, <2>3
<1>7. P99(lat) = v
  BY DEF P99
<1> QED
  BY <1>2, <1>3, <1>5, <1>6, <1>7 DEF IsP99


Window == [lat : Seq(Nat), upto : Nat]

WarmTypes ==
  /\ bucket \in Seq(Nat) /\ buckets \in Seq(Nat) /\ parts \in Seq(Window)
  /\ Len(parts) = Len(buckets)
  /\ ops \in Nat /\ now \in Nat /\ first \in Nat /\ began \in Nat
  /\ stable \in BOOLEAN

P99sOfParts == \A i \in DOMAIN parts : buckets[i] = P99(parts[i].lat)

\* Why a warmup that is declared is earned: the detector's buckets are the p99s of what was
\* fed, and the verdict is the last thing it does.
WarmInv ==
  /\ WarmTypes
  /\ ops > 0 <=> bucket # <<>>
  /\ NothingDropped
  /\ P99sOfParts
  /\ stable => ops >= MinOps /\ now - first >= MinDuration /\ WarmedUp(buckets)

LEMMA WindowFields == \A w \in Window : w.lat \in Seq(Nat) /\ w.upto \in Nat /\ Len(w.lat) \in Nat
  BY DEF Window

LEMMA WarmInvInit == Init => WarmInv
<1> SUFFICES ASSUME Init
             PROVE  WarmInv
  OBVIOUS
<1>1. /\ bucket = <<>> /\ buckets = <<>> /\ parts = <<>> /\ ops = 0 /\ now = 0 /\ first = 0 /\ began = 0
      /\ stable = FALSE /\ Len(parts) = 0 /\ Len(bucket) = 0 /\ DOMAIN parts = {}
  BY DEF Init
<1>2. WarmTypes /\ (ops > 0 <=> bucket # <<>>)
  <2>1. <<>> \in Seq(Nat) /\ <<>> \in Seq(Window)
    OBVIOUS
  <2>2. Len(parts) = Len(buckets)
    BY <1>1
  <2>3. bucket \in Seq(Nat) /\ buckets \in Seq(Nat) /\ parts \in Seq(Window)
    BY <1>1, <2>1, Zenon
  <2>4. ops \in Nat /\ now \in Nat /\ first \in Nat /\ began \in Nat /\ stable \in BOOLEAN
    BY <1>1
  <2> QED
    BY <1>1, <2>2, <2>3, <2>4 DEF WarmTypes
<1>3. NothingDropped /\ P99sOfParts
  BY <1>1 DEF NothingDropped, FedBefore, P99sOfParts
<1> QED
  BY <1>1, <1>2, <1>3 DEF WarmInv

LEMMA KeepFills ==
  ASSUME WarmInv, ~stable, NEW latency \in Nat, NEW at \in Nat,
         now' = at, ops' = ops + 1, first' = IF ops = 0 THEN at ELSE first,
         Fill(latency, at)
  PROVE  WarmInv'
<1>0. /\ bucket' = Append(bucket, latency) /\ began' = IF ops = 0 THEN at ELSE began
      /\ UNCHANGED <<buckets, parts, stable>>
  BY DEF Fill
<1>1. WarmTypes /\ NothingDropped /\ P99sOfParts
  BY DEF WarmInv
<1>2. /\ Len(bucket') = Len(bucket) + 1 /\ bucket' \in Seq(Nat) /\ bucket' # <<>> /\ Len(bucket) \in Nat
      /\ Len(parts) \in Nat /\ DOMAIN parts = 1..Len(parts)
  <2>1. bucket \in Seq(Nat) /\ parts \in Seq(Window)
    BY <1>1 DEF WarmTypes
  <2>2. /\ Len(bucket') = Len(bucket) + 1 /\ bucket' \in Seq(Nat) /\ Len(bucket) \in Nat
    BY <1>0, <2>1
  <2>3. bucket' # <<>>
    BY <2>2
  <2> QED
    BY <2>1, <2>2, <2>3
<1>3. WarmTypes' /\ (ops > 0 <=> bucket # <<>>)'
  BY <1>0, <1>1, <1>2 DEF WarmTypes
<1>4. FedBefore(parts, Len(parts)) \in Nat
  <2>1. CASE Len(parts) = 0
    BY <2>1 DEF FedBefore
  <2>2. CASE Len(parts) # 0
    <3>1. parts[Len(parts)] \in Window
      BY <1>1, <1>2, <2>2 DEF WarmTypes
    <3> QED
      BY <2>2, <3>1, WindowFields DEF FedBefore
  <2> QED
    BY <2>1, <2>2
<1>5. NothingDropped'
  BY <1>0, <1>1, <1>2, <1>4 DEF NothingDropped, WarmTypes
<1>6. P99sOfParts'
  BY <1>0, <1>1 DEF P99sOfParts
<1> QED
  BY <1>0, <1>3, <1>5, <1>6 DEF WarmInv

LEMMA KeepCloses ==
  ASSUME WarmInv, ~stable, ops > 0, NEW latency \in Nat, NEW at \in Nat,
         now' = at, ops' = ops + 1, first' = IF ops = 0 THEN at ELSE first,
         Close(latency, at)
  PROVE  WarmInv'
<1>0. /\ buckets' = Append(buckets, P99(bucket)) /\ parts' = Append(parts, [lat |-> bucket, upto |-> ops])
      /\ bucket' = <<latency>> /\ began' = at
  BY DEF Close
<1>1. PICK n \in Nat : n = Len(parts)
  BY DEF WarmInv, WarmTypes
<1>2. PICK last \in Window : last.lat = bucket /\ last.upto = ops /\ parts' = Append(parts, last)
  BY <1>0 DEF WarmInv, WarmTypes, Window
<1>3. /\ Len(buckets) = n /\ bucket # <<>> /\ bucket \in Seq(Nat) /\ ops \in Nat /\ Len(bucket) \in Nat
      /\ parts \in Seq(Window) /\ buckets \in Seq(Nat) /\ ops = FedBefore(parts, n) + Len(bucket)
      /\ DOMAIN parts = 1..n /\ first \in Nat
  BY <1>1 DEF WarmInv, WarmTypes, NothingDropped
<1>4. P99(bucket) \in Nat
  BY <1>3, P99IsP99
<1>5. /\ parts' \in Seq(Window) /\ Len(parts') = n + 1 /\ DOMAIN parts' = 1..(n + 1)
      /\ \A i \in 1..n : parts'[i] = parts[i]
      /\ parts'[n + 1] = last
  BY <1>1, <1>2, <1>3
<1>6. /\ buckets' \in Seq(Nat) /\ Len(buckets') = n + 1
      /\ \A i \in 1..n : buckets'[i] = buckets[i]
      /\ buckets'[n + 1] = P99(bucket)
  BY <1>0, <1>3, <1>4
<1>7. stable' \in BOOLEAN
  BY Zenon DEF Close
<1>8. WarmTypes' /\ (ops > 0 <=> bucket # <<>>)'
  BY <1>0, <1>3, <1>5, <1>6, <1>7 DEF WarmTypes
<1>9. P99sOfParts'
  <2>1. \A i \in 1..n : buckets[i] = P99(parts[i].lat)
    BY <1>3 DEF WarmInv, P99sOfParts
  <2>2. \A i \in 1..(n + 1) : i \in 1..n \/ i = n + 1
    OBVIOUS
  <2> QED
    BY <1>2, <1>5, <1>6, <2>1, <2>2 DEF P99sOfParts
<1>10. NothingDropped'
  <2>1. \A i \in 0..n : FedBefore(parts', i) = FedBefore(parts, i)
    BY <1>5 DEF FedBefore
  <2>2. FedBefore(parts', n + 1) = ops
    BY <1>2, <1>5 DEF FedBefore
  <2>3. ASSUME NEW i \in 1..n
        PROVE  parts'[i].lat # <<>> /\ parts'[i].upto = FedBefore(parts', i - 1) + Len(parts'[i].lat)
    <3>1. i - 1 \in 0..n
      OBVIOUS
    <3>2. parts[i].lat # <<>> /\ parts[i].upto = FedBefore(parts, i - 1) + Len(parts[i].lat)
      BY <1>3 DEF WarmInv, NothingDropped
    <3> QED
      BY <1>5, <2>1, <3>1, <3>2
  <2>4. /\ parts'[n + 1].lat # <<>>
        /\ parts'[n + 1].upto = FedBefore(parts', (n + 1) - 1) + Len(parts'[n + 1].lat)
    <3>1. (n + 1) - 1 = n /\ n \in 0..n
      OBVIOUS
    <3> QED
      BY <1>2, <1>3, <1>5, <2>1, <3>1
  <2>5. \A i \in DOMAIN parts' :
          parts'[i].lat # <<>> /\ parts'[i].upto = FedBefore(parts', i - 1) + Len(parts'[i].lat)
    <3>1. \A i \in 1..(n + 1) : i \in 1..n \/ i = n + 1
      OBVIOUS
    <3> QED
      BY <1>5, <2>3, <2>4, <3>1
  <2>6. ops' = FedBefore(parts', Len(parts')) + Len(bucket')
    BY <1>0, <1>3, <1>5, <2>2
  <2> QED
    BY <2>5, <2>6 DEF NothingDropped
<1>11. stable' => (ops >= MinOps /\ now - first >= MinDuration /\ WarmedUp(buckets))'
  <2>1. first' = first
    BY <1>3
  <2> QED
    BY <2>1 DEF Close, Floor, WarmedUp
<1> QED
  BY <1>8, <1>9, <1>10, <1>11 DEF WarmInv

LEMMA WarmInvNext ==
  ASSUME WarmInv, [Next]_vars
  PROVE  WarmInv'
<1>1. CASE UNCHANGED vars
  BY <1>1 DEF vars, WarmInv, WarmTypes, NothingDropped, FedBefore, P99sOfParts, WarmedUp
<1>2. CASE Next
  <2>1. PICK latency \in Values, gap \in Gaps : Add(latency, now + gap)
    BY <1>2 DEF Next
  <2>2. latency \in Nat /\ now + gap \in Nat
    BY WarmupAssumption DEF WarmupAssumption, WarmInv, WarmTypes
  <2>3. /\ ~stable /\ now' = now + gap /\ ops' = ops + 1
        /\ first' = IF ops = 0 THEN now + gap ELSE first
    BY <2>1 DEF Add
  <2>4. CASE Close(latency, now + gap) /\ ops > 0
    BY <2>2, <2>3, <2>4, KeepCloses DEF Close
  <2>5. CASE Fill(latency, now + gap)
    BY <2>2, <2>3, <2>5, KeepFills DEF Fill
  <2> QED
    BY <2>1, <2>4, <2>5 DEF Add
<1> QED
  BY <1>1, <1>2

LEMMA WarmInvGives == WarmInv => StableIsEarned
<1> SUFFICES ASSUME WarmInv
             PROVE  StableIsEarned
  OBVIOUS
<1>1. NothingDropped
  BY DEF WarmInv
<1>2. ASSUME stable
      PROVE  /\ ops >= MinOps /\ now - first >= MinDuration
             /\ Len(parts) >= MinBuckets /\ Len(parts) > Streak
             /\ \A i \in (Len(parts) - Streak + 1)..Len(parts) :
                  /\ i \in DOMAIN parts /\ i - 1 \in DOMAIN parts
                  /\ buckets[i - 1] # 0
                  /\ 100 * Distance(buckets[i], buckets[i - 1]) <= Tol * buckets[i - 1]
  <2>1. PICK n \in Nat : n = Len(parts) /\ n = Len(buckets) /\ DOMAIN parts = 1..n
    BY DEF WarmInv, WarmTypes
  <2>2. Streak \in Nat
    BY WarmupAssumption DEF WarmupAssumption
  <2>3. /\ ops >= MinOps /\ now - first >= MinDuration /\ n >= MinBuckets /\ n > Streak
        /\ \A i \in (n - Streak + 1)..n :
             /\ buckets[i - 1] # 0
             /\ 100 * Distance(buckets[i], buckets[i - 1]) <= Tol * buckets[i - 1]
    BY <1>2, <2>1 DEF WarmInv, WarmedUp
  <2>4. \A i \in (n - Streak + 1)..n : i \in 1..n /\ i - 1 \in 1..n
    BY <2>2, <2>3
  <2> QED
    BY <2>1, <2>3, <2>4
<1>3. ASSUME NEW i \in DOMAIN parts
      PROVE  /\ buckets[i] \in ToSet(parts[i].lat) /\ IsP99(buckets[i], parts[i].lat)
             /\ buckets[i] \in Nat
  <2>1. parts[i].lat \in Seq(Nat) /\ parts[i].lat # <<>> /\ buckets[i] = P99(parts[i].lat)
    <3>1. parts[i] \in Window
      BY <1>3 DEF WarmInv, WarmTypes
    <3> QED
      BY <1>3, <3>1, WindowFields DEF WarmInv, NothingDropped, P99sOfParts
  <2> QED
    BY <2>1, P99IsP99 DEF IsP99
<1>4. ASSUME stable, NEW i \in (Len(parts) - Streak + 1)..Len(parts)
      PROVE  \E u \in ToSet(parts[i - 1].lat), v \in ToSet(parts[i].lat) :
               /\ IsP99(u, parts[i - 1].lat) /\ IsP99(v, parts[i].lat)
               /\ u > 0 /\ 100 * Distance(v, u) <= Tol * u
  <2>1. /\ i \in DOMAIN parts /\ i - 1 \in DOMAIN parts /\ buckets[i - 1] # 0
        /\ 100 * Distance(buckets[i], buckets[i - 1]) <= Tol * buckets[i - 1]
    BY <1>2, <1>4
  <2>2. buckets[i - 1] > 0
    BY <1>3, <2>1
  <2> QED
    BY <1>3, <2>1, <2>2
<1> QED
  BY <1>1, <1>2, <1>4 DEF StableIsEarned

\* Whatever the floors, the tolerance and the streak: a warmup declared stable has run for
\* its floors, the p99 of each of its last windows is within the tolerance of the one
\* before, and every sample fed is in one window (WarmupDetector.Add).
THEOREM WarmupIsEarned == FiguresSpec => []StableIsEarned
<1>1. FiguresInit => WarmInv
  BY WarmInvInit DEF FiguresInit
<1>2. WarmInv /\ [FiguresNext]_<<part, asked, told, vars>> => WarmInv'
  BY WarmInvNext DEF FiguresNext, Answer, Detect, vars
<1> QED
  BY <1>1, <1>2, WarmInvGives, PTL DEF FiguresSpec


-----------------------------------------------------------------------------
(* The gate.                                                                 *)

\* A product grows with either factor.
LEMMA ProductsGrow ==
  ASSUME NEW a \in Nat, NEW b \in Nat, NEW c \in Nat, NEW d \in Nat, a <= b, c <= d
  PROVE  a * c <= b * d /\ a * c \in Nat /\ b * d \in Nat
<1>1. PICK e \in Nat : b = a + e
  <2>1. b - a \in Nat /\ b = a + (b - a)
    OBVIOUS
  <2> QED
    BY <2>1
<1>2. PICK f \in Nat : d = c + f
  <2>1. d - c \in Nat /\ d = c + (d - c)
    OBVIOUS
  <2> QED
    BY <2>1
<1>3. a * c \in Nat /\ a * f \in Nat /\ e * c \in Nat /\ e * f \in Nat
  OBVIOUS
<1>4. (a + e) * (c + f) = a * c + a * f + e * c + e * f
  OBVIOUS
<1> QED
  BY <1>1, <1>2, <1>3, <1>4

LEMMA Limits == G!ReadSlo \in Nat /\ G!WarmP50 \in Nat
  BY SMT DEF G!ReadSlo, G!WarmP50

LEMMA StatFields ==
  ASSUME NEW s, G!IsStat(s)
  PROVE  /\ s.count \in Nat /\ s.p50 \in Nat /\ s.p99 \in Nat
         /\ [s EXCEPT !.class = ""].count = s.count /\ [s EXCEPT !.class = ""].class = ""
         /\ [s EXCEPT !.class = ""].p50 = s.p50 /\ [s EXCEPT !.class = ""].p99 = s.p99
  BY DEF G!IsStat

\* What the checks read of a stored document.
LEMMA ResultFields ==
  ASSUME NEW doc, G!IsDocument(doc)
  PROVE  LET res == G!DocToResult(doc)
         IN /\ res.stats = doc.classes /\ res.drift = doc.drift
            /\ res.sync = doc.sync /\ res.concurrency = doc.concurrency
            /\ DOMAIN res.byQuery = DOMAIN doc.queries
            /\ \A q \in DOMAIN doc.queries :
                 /\ res.byQuery[q].class = "" /\ res.byQuery[q].count = doc.queries[q].count
                 /\ res.byQuery[q].p50 = doc.queries[q].p50 /\ res.byQuery[q].p99 = doc.queries[q].p99
                 /\ doc.queries[q].count \in Nat /\ doc.queries[q].p50 \in Nat /\ doc.queries[q].p99 \in Nat
<1>1. \A q \in DOMAIN doc.queries : G!IsStat(doc.queries[q])
  BY DEF G!IsDocument
<1> QED
  BY <1>1, StatFields, Zenon DEF G!DocToResult

\* A query's entry as the result keeps it: without its class.
Unclassed(s) == [s EXCEPT !.class = ""]

LEMMA QueryFields ==
  ASSUME NEW doc, G!IsDocument(doc)
  PROVE  \A q \in DOMAIN G!DocToResult(doc).byQuery :
           LET stat == G!DocToResult(doc).byQuery[q]
           IN /\ q \in DOMAIN doc.queries /\ stat.count = doc.queries[q].count
              /\ stat.p50 = doc.queries[q].p50 /\ stat.p99 = doc.queries[q].p99
              /\ stat.p50 \in Nat /\ stat.p99 \in Nat
<1>1. /\ DOMAIN G!DocToResult(doc).byQuery = DOMAIN doc.queries
      /\ \A q \in DOMAIN doc.queries : G!DocToResult(doc).byQuery[q] = Unclassed(doc.queries[q])
  BY Zenon DEF G!DocToResult, Unclassed
<1>2. \A s : G!IsStat(s) =>
        /\ Unclassed(s).count = s.count /\ Unclassed(s).p50 = s.p50 /\ Unclassed(s).p99 = s.p99
        /\ s.p50 \in Nat /\ s.p99 \in Nat
  BY StatFields DEF Unclassed
<1>3. \A q \in DOMAIN doc.queries : G!IsStat(doc.queries[q])
  BY DEF G!IsDocument
<1> QED
  BY <1>1, <1>2, <1>3

\* A finding's kind tells which check made it.
LEMMA FindingKinds ==
  /\ \A res, plane, w : \A v \in G!CheckBudgets(res, plane, w) : v.kind = "budget"
  /\ \A res, f : \A v \in G!CheckDrift(res, f) : v.kind = "drift"
  /\ \A res, b, f, floor : \A v \in G!CheckRegression(res, b, f, floor) :
       v.kind = "regression" \/ v.kind = "indeterminate"
  /\ \A doc, p : \A v \in G!CheckDocVerification(doc, p) : v.kind = "verification"
<1>0. \A k, w, m : G!Finding(k, w, m).kind = k
  BY DEF G!Finding
<1>1. \A res, plane, w : \A v \in G!CheckBudgets(res, plane, w) : \E a, b : v = G!Finding("budget", a, b)
  BY DEF G!CheckBudgets
<1>2. \A res, f : \A v \in G!CheckDrift(res, f) : \E a, b : v = G!Finding("drift", a, b)
  BY DEF G!CheckDrift
<1>3. \A res, b, f, floor : \A v \in G!CheckRegression(res, b, f, floor) :
        \E a, c : v = G!Finding("regression", a, c) \/ v = G!Finding("indeterminate", a, c)
  BY DEF G!CheckRegression
<1>4. \A doc, p : \A v \in G!CheckDocVerification(doc, p) : \E a, b : v = G!Finding("verification", a, b)
  BY DEF G!CheckDocVerification
<1> QED
  BY <1>0, <1>1, <1>2, <1>3, <1>4


LEMMA FoundBy ==
  ASSUME NEW doc, NEW base, NEW floor, NEW v
  PROVE  v \in G!Violations(doc, base, floor) <=>
           \/ v \in G!CheckBudgets(G!DocToResult(doc), doc.plane, doc.workload)
           \/ v \in G!CheckDrift(G!DocToResult(doc), G!RegressionFactor)
           \/ v \in G!CheckDocVerification(doc, G!PassedIn(base))
           \/ \E b \in base : v \in G!CheckRegression(G!DocToResult(doc), G!DocToResult(b),
                                                     G!RegressionFactor, floor)
<1>1. v \in G!Regressions(doc, base, floor)
        <=> \E b \in base : v \in G!CheckRegression(G!DocToResult(doc), G!DocToResult(b),
                                                   G!RegressionFactor, floor)
  BY DEF G!Regressions
<1>2. v \in G!Violations(doc, base, floor) <=>
        \/ v \in G!CheckBudgets(G!DocToResult(doc), doc.plane, doc.workload)
        \/ v \in G!CheckDrift(G!DocToResult(doc), G!RegressionFactor)
        \/ v \in G!CheckDocVerification(doc, G!PassedIn(base))
        \/ v \in G!Regressions(doc, base, floor)
  BY DEF G!Violations
<1> QED
  BY <1>1, <1>2

\* Two documents of which the second says that some queries were slower.
Slower(d, e) ==
  /\ e.workload = d.workload /\ e.plane = d.plane /\ e.verification = d.verification
  /\ e.classes = d.classes /\ e.drift = d.drift /\ e.sync = d.sync /\ e.concurrency = d.concurrency
  /\ DOMAIN e.queries = DOMAIN d.queries
  /\ \A q \in DOMAIN d.queries :
       d.queries[q].p50 <= e.queries[q].p50 /\ d.queries[q].p99 <= e.queries[q].p99

LEMMA SlowerByIsSlower ==
  ASSUME NEW doc, G!IsDocument(doc), NEW q \in DOMAIN doc.queries, NEW metric, NEW by \in Nat
  PROVE  /\ G!IsDocument(G!SlowerBy(doc, q, metric, by))
         /\ Slower(doc, G!SlowerBy(doc, q, metric, by))
<1> DEFINE s == doc.queries[q]
           t == G!Slowed(s, metric, by)
           e == G!SlowerBy(doc, q, metric, by)
<1>1. s \in [class : STRING, count : Nat, p50 : Nat, p99 : Nat]
  BY DEF G!IsDocument, G!IsStat
<1> HIDE DEF s
<1>2. G!IsStat(t) /\ s.p50 <= t.p50 /\ s.p99 <= t.p99
  <2>1. CASE metric = "p50"
    <3>1. t = [class |-> s.class, count |-> s.count, p50 |-> s.p50 + by, p99 |-> s.p99 + by]
      <4>1. t = [s EXCEPT !.p50 = s.p50 + by, !.p99 = s.p99 + by]
        BY <2>1 DEF G!Slowed
      <4> HIDE DEF t
      <4> QED
        BY <1>1, <4>1
    <3> HIDE DEF t
    <3> QED
      BY <1>1, <3>1 DEF G!IsStat
  <2>2. CASE metric # "p50"
    <3>1. t = [s EXCEPT !.p99 = s.p99 + by]
      BY <1>1, <2>2 DEF G!Slowed
    <3> QED
      BY <1>1, <3>1 DEF G!IsStat
  <2> QED
    BY <2>1, <2>2
<1>4. /\ e = [workload |-> doc.workload, plane |-> doc.plane, startedAt |-> doc.startedAt,
              classes |-> doc.classes, queries |-> [doc.queries EXCEPT ![q] = t], drift |-> doc.drift,
              sync |-> doc.sync, concurrency |-> doc.concurrency, verification |-> doc.verification]
  <2>1. e = [doc EXCEPT !.queries = [doc.queries EXCEPT ![q] = t]]
    BY DEF G!SlowerBy, s
  <2>2. /\ doc = [workload |-> doc.workload, plane |-> doc.plane, startedAt |-> doc.startedAt,
                  classes |-> doc.classes, queries |-> doc.queries, drift |-> doc.drift, sync |-> doc.sync,
                  concurrency |-> doc.concurrency, verification |-> doc.verification]
    BY DEF G!IsDocument
  <2> HIDE DEF t, e
  <2> DEFINE entries == [doc.queries EXCEPT ![q] = t]
  <2>3. e = [doc EXCEPT !.queries = entries]
    BY <2>1
  <2> HIDE DEF entries
  <2>4. e = [workload |-> doc.workload, plane |-> doc.plane, startedAt |-> doc.startedAt,
             classes |-> doc.classes, queries |-> entries, drift |-> doc.drift,
             sync |-> doc.sync, concurrency |-> doc.concurrency, verification |-> doc.verification]
    BY <2>2, <2>3
  <2> QED
    BY <2>4 DEF entries
<1> HIDE DEF t, e
<1>5. /\ e.queries = [r \in DOMAIN doc.queries |-> IF r = q THEN t ELSE doc.queries[r]]
      /\ DOMAIN e.queries = DOMAIN doc.queries
  BY <1>4 DEF G!IsDocument
<1>6. \A r \in DOMAIN doc.queries : G!IsStat(e.queries[r])
  BY <1>2, <1>5 DEF G!IsDocument
<1>7. G!IsDocument(e)
  BY <1>4, <1>5, <1>6 DEF G!IsDocument
<1>8. Slower(doc, e)
  <2>1. ASSUME NEW r \in DOMAIN doc.queries
        PROVE  doc.queries[r].p50 <= e.queries[r].p50 /\ doc.queries[r].p99 <= e.queries[r].p99
    <3>1. doc.queries[r].p50 \in Nat /\ doc.queries[r].p99 \in Nat
      BY StatFields DEF G!IsDocument
    <3>2. CASE r = q
      BY <1>2, <1>5, <3>2 DEF s
    <3>3. CASE r # q
      BY <1>5, <3>1, <3>3
    <3> QED
      BY <3>2, <3>3
  <2> QED
    BY <1>4, <1>5, <2>1 DEF Slower
<1> QED
  BY <1>7, <1>8 DEF e

\* What fails a document fails a slower one.
LEMMA SlowerFailsToo ==
  ASSUME NEW d, NEW e, G!IsDocument(d), G!IsDocument(e), Slower(d, e), NEW base, NEW floor, G!IsFactor(floor),
         \A b \in base : G!IsDocument(b),
         NEW v \in G!Failures(G!Violations(d, base, floor))
  PROVE  v \in G!Failures(G!Violations(e, base, floor))
<1> DEFINE r == G!DocToResult(d)
           s == G!DocToResult(e)
<1>1. /\ s.stats = r.stats /\ s.drift = r.drift /\ s.sync = r.sync /\ s.concurrency = r.concurrency
      /\ DOMAIN s.byQuery = DOMAIN r.byQuery
      /\ \A q \in DOMAIN r.byQuery :
           /\ r.byQuery[q].class = "" /\ s.byQuery[q].class = ""
           /\ r.byQuery[q].p50 <= s.byQuery[q].p50 /\ r.byQuery[q].p99 <= s.byQuery[q].p99
           /\ r.byQuery[q].p50 \in Nat /\ s.byQuery[q].p50 \in Nat
           /\ r.byQuery[q].p99 \in Nat /\ s.byQuery[q].p99 \in Nat
  <2>1. /\ r.stats = d.classes /\ r.drift = d.drift
        /\ r.sync = d.sync /\ r.concurrency = d.concurrency
        /\ DOMAIN r.byQuery = DOMAIN d.queries
        /\ \A q \in DOMAIN d.queries :
             /\ r.byQuery[q].class = ""
             /\ r.byQuery[q].p50 = d.queries[q].p50 /\ r.byQuery[q].p99 = d.queries[q].p99
             /\ d.queries[q].p50 \in Nat /\ d.queries[q].p99 \in Nat
    BY ResultFields, Zenon
  <2>2. /\ s.stats = e.classes /\ s.drift = e.drift
        /\ s.sync = e.sync /\ s.concurrency = e.concurrency
        /\ DOMAIN s.byQuery = DOMAIN e.queries
        /\ \A q \in DOMAIN e.queries :
             /\ s.byQuery[q].class = ""
             /\ s.byQuery[q].p50 = e.queries[q].p50 /\ s.byQuery[q].p99 = e.queries[q].p99
             /\ e.queries[q].p50 \in Nat /\ e.queries[q].p99 \in Nat
    BY ResultFields, Zenon
  <2> HIDE DEF r, s
  <2> QED
    BY <2>1, <2>2, Zenon DEF Slower
<1> HIDE DEF r, s
<1>2. v.kind # "indeterminate"
  BY DEF G!Failures
<1>3. CASE v \in G!CheckBudgets(r, d.plane, d.workload)
  <2>1. \A c : G!Ceiling(c, d.plane, r) = G!Ceiling(c, d.plane, s)
    BY <1>1, Zenon DEF G!Ceiling
  <2>2. v \in G!CheckBudgets(s, d.plane, d.workload)
    <3>1. \/ \E c \in DOMAIN r.stats : /\ G!Budgeted(c, d.plane) /\ r.stats[c].p99 > G!Ceiling(c, d.plane, r)
                                      /\ v = G!Finding("budget", c, "p99")
          \/ \E q \in DOMAIN r.byQuery : /\ d.workload \in {"fb-read", "fb-write"} /\ r.byQuery[q].p99 > G!ReadSlo
                                         /\ v = G!Finding("budget", q, "p99")
          \/ \E q \in DOMAIN r.byQuery : /\ d.workload = "snb-short" /\ d.plane = "InProc"
                                         /\ r.byQuery[q].p50 > G!WarmP50
                                         /\ v = G!Finding("budget", q, "p50")
      BY <1>3 DEF G!CheckBudgets
    <3>2. \/ \E c \in DOMAIN s.stats : /\ G!Budgeted(c, d.plane) /\ s.stats[c].p99 > G!Ceiling(c, d.plane, s)
                                      /\ v = G!Finding("budget", c, "p99")
          \/ \E q \in DOMAIN s.byQuery : /\ d.workload \in {"fb-read", "fb-write"} /\ s.byQuery[q].p99 > G!ReadSlo
                                         /\ v = G!Finding("budget", q, "p99")
          \/ \E q \in DOMAIN s.byQuery : /\ d.workload = "snb-short" /\ d.plane = "InProc"
                                         /\ s.byQuery[q].p50 > G!WarmP50
                                         /\ v = G!Finding("budget", q, "p50")
      <4>1. /\ s.stats = r.stats
            /\ \A q \in DOMAIN r.byQuery : /\ r.byQuery[q].p99 > G!ReadSlo => s.byQuery[q].p99 > G!ReadSlo
                                           /\ r.byQuery[q].p50 > G!WarmP50 => s.byQuery[q].p50 > G!WarmP50
        <5>1. ASSUME NEW q \in DOMAIN r.byQuery, NEW limit \in Nat
              PROVE  /\ r.byQuery[q].p99 > limit => s.byQuery[q].p99 > limit
                     /\ r.byQuery[q].p50 > limit => s.byQuery[q].p50 > limit
          <6>1. /\ r.byQuery[q].p50 <= s.byQuery[q].p50 /\ r.byQuery[q].p99 <= s.byQuery[q].p99
                /\ r.byQuery[q].p50 \in Nat /\ s.byQuery[q].p50 \in Nat
                /\ r.byQuery[q].p99 \in Nat /\ s.byQuery[q].p99 \in Nat
            BY <1>1, Zenon
          <6> QED
            BY <6>1
        <5> QED
          BY <1>1, <5>1, Limits, Zenon
      <4> QED
        BY <1>1, <2>1, <3>1, <4>1, Zenon
    <3>3. \A q \in DOMAIN s.byQuery : s.byQuery[q].class # "Write"
      BY <1>1, Zenon
    <3> QED
      BY <3>2, <3>3 DEF G!CheckBudgets
  <2>3. e.plane = d.plane /\ e.workload = d.workload
    BY DEF Slower
  <2> QED
    BY <1>2, <2>2, <2>3, FoundBy DEF G!Failures, s
<1>4. CASE v \in G!CheckDrift(r, G!RegressionFactor)
  <2>1. v \in G!CheckDrift(s, G!RegressionFactor)
    BY <1>1, <1>4, Zenon DEF G!CheckDrift
  <2> QED
    BY <1>2, <2>1, FoundBy DEF G!Failures, s
<1>5. CASE v \in G!CheckDocVerification(d, G!PassedIn(base))
  <2>1. v \in G!CheckDocVerification(e, G!PassedIn(base))
    BY <1>5 DEF G!CheckDocVerification, Slower
  <2> QED
    BY <1>2, <2>1, FoundBy DEF G!Failures
<1>6. ASSUME NEW b \in base, v \in G!CheckRegression(r, G!DocToResult(b), G!RegressionFactor, floor)
      PROVE  v \in G!CheckRegression(s, G!DocToResult(b), G!RegressionFactor, floor)
  <2> DEFINE w == G!DocToResult(b)
             late(res, k) == G!Latency(res.byQuery[k[1]], k[2])
             was(k) == G!Latency(w.byQuery[k[1]], k[2])
             judged(res) == {q \in DOMAIN res.byQuery \cap DOMAIN w.byQuery : w.byQuery[q].count > 0}
  <2>1. PICK k \in judged(r) \X {"p50", "p99"} :
          /\ was(k) > 0 /\ G!Exceeds(late(r, k), was(k), G!RegressionFactor)
          /\ v = G!Finding(IF floor # G!NoFloor /\ ~G!Exceeds(late(r, k), was(k), floor)
                           THEN "indeterminate" ELSE "regression", k[1], k[2])
    BY <1>6 DEF G!CheckRegression
  <2>2. k \in judged(s) \X {"p50", "p99"}
    BY <1>1, Zenon
  <2>3. /\ late(r, k) \in Nat /\ late(s, k) \in Nat /\ was(k) \in Nat
        /\ late(r, k) <= late(s, k)
    <3>1. k[1] \in DOMAIN r.byQuery /\ k[1] \in DOMAIN w.byQuery
      OBVIOUS
    <3>2. w.byQuery[k[1]].p50 \in Nat /\ w.byQuery[k[1]].p99 \in Nat
      BY <3>1, QueryFields
    <3> QED
      BY <1>1, <3>1, <3>2, Zenon DEF G!Latency
  <2>4. \A f : G!IsFactor(f) /\ G!Exceeds(late(r, k), was(k), f) => G!Exceeds(late(s, k), was(k), f)
    <3> HIDE DEF late, was
    <3> SUFFICES ASSUME NEW f, G!IsFactor(f), late(r, k) * f[2] > was(k) * f[1]
                 PROVE  late(s, k) * f[2] > was(k) * f[1]
      BY DEF G!Exceeds
    <3>1. f[1] \in Nat /\ f[2] \in Nat
      BY DEF G!IsFactor
    <3>2. late(r, k) * f[2] <= late(s, k) * f[2] /\ late(r, k) * f[2] \in Nat /\ late(s, k) * f[2] \in Nat
      BY <2>3, <3>1, ProductsGrow
    <3>3. was(k) * f[1] \in Nat
      BY <2>3, <3>1, ProductsGrow
    <3> QED
      BY <3>2, <3>3
  <2>5. G!IsFactor(G!RegressionFactor)
    BY DEF G!IsFactor, G!RegressionFactor
  <2>6. ~(floor # G!NoFloor /\ ~G!Exceeds(late(r, k), was(k), floor))
    BY <1>2, <2>1 DEF G!Finding
  <2>7. /\ G!Exceeds(late(s, k), was(k), G!RegressionFactor)
        /\ v = G!Finding(IF floor # G!NoFloor /\ ~G!Exceeds(late(s, k), was(k), floor)
                         THEN "indeterminate" ELSE "regression", k[1], k[2])
    BY <2>1, <2>4, <2>5, <2>6
  <2> QED
    BY <2>1, <2>2, <2>7 DEF G!CheckRegression
<1> QED
  <2>1. \/ v \in G!CheckBudgets(r, d.plane, d.workload)
        \/ v \in G!CheckDrift(r, G!RegressionFactor)
        \/ v \in G!CheckDocVerification(d, G!PassedIn(base))
        \/ \E b \in base : v \in G!CheckRegression(r, G!DocToResult(b), G!RegressionFactor, floor)
    <3>1. v \in G!Violations(d, base, floor)
      BY DEF G!Failures
    <3> QED
      BY <3>1, FoundBy DEF r
  <2>2. ASSUME NEW b \in base, v \in G!CheckRegression(r, G!DocToResult(b), G!RegressionFactor, floor)
        PROVE  v \in G!Failures(G!Violations(e, base, floor))
    BY <1>2, <1>6, <2>2, FoundBy DEF G!Failures, s
  <2> QED
    BY <1>3, <1>4, <1>5, <2>1, <2>2


\* Whoever fails at least as much exits at least as high.
LEMMA ExitRises ==
  ASSUME NEW a, NEW b, \A v \in G!Failures(a) : v \in G!Failures(b)
  PROVE  G!ExitCode(a) <= G!ExitCode(b)
<1>1. CASE \E v \in G!Failures(a) : v.kind = "verification"
  <2>1. G!ExitCode(a) = 3 /\ G!ExitCode(b) = 3
    BY <1>1 DEF G!ExitCode
  <2> QED
    BY <2>1
<1>2. CASE G!Failures(a) # {} /\ ~\E v \in G!Failures(a) : v.kind = "verification"
  <2>1. G!ExitCode(a) = 2 /\ (G!ExitCode(b) = 2 \/ G!ExitCode(b) = 3)
    BY <1>2 DEF G!ExitCode
  <2> QED
    BY <2>1
<1>3. CASE G!Failures(a) = {}
  <2>1. G!ExitCode(a) = 0 /\ (G!ExitCode(b) = 0 \/ G!ExitCode(b) = 2 \/ G!ExitCode(b) = 3)
    BY <1>3 DEF G!ExitCode
  <2> QED
    BY <2>1
<1> QED
  BY <1>1, <1>2, <1>3

LEMMA SlownessCosts ==
  ASSUME NEW doc, G!IsDocument(doc), NEW base, \A b \in base : G!IsDocument(b), NEW floor, G!IsFactor(floor)
  PROVE  G!SlowerNeverHelps(doc, base, floor)
<1>1. SUFFICES ASSUME NEW q \in DOMAIN doc.queries, NEW metric \in {"p50", "p99"}, NEW by \in {1, 100000}
               PROVE  G!ExitCode(G!Violations(doc, base, floor))
                        <= G!ExitCode(G!Violations(G!SlowerBy(doc, q, metric, by), base, floor))
  BY DEF G!SlowerNeverHelps
<1>2. by \in Nat
  BY SMT
<1>3. G!IsDocument(G!SlowerBy(doc, q, metric, by)) /\ Slower(doc, G!SlowerBy(doc, q, metric, by))
  BY <1>2, SlowerByIsSlower
<1> QED
  BY <1>3, SlowerFailsToo, ExitRises

LEMMA RuledOnEvidence ==
  ASSUME NEW doc, G!IsDocument(doc), NEW base, \A b \in base : G!IsDocument(b) /\ base = {b},
         NEW floor, G!IsFactor(floor)
  PROVE  G!RulesOnEvidence(doc, base, floor)
<1> DEFINE r == G!DocToResult(doc)
<1>1. ASSUME NEW v \in G!Regressions(doc, base, floor), NEW b \in base
      PROVE  LET n == G!Latency(doc.queries[v.where], v.metric)
                 w == G!Latency(b.queries[v.where], v.metric)
             IN /\ b.queries[v.where].count > 0
                /\ 10 * n > 11 * w /\ w > 0
                /\ v.kind = "regression" <=> (floor = G!NoFloor \/ n * floor[2] > w * floor[1])
  <2> DEFINE s == G!DocToResult(b)
  <2>1. v \in G!CheckRegression(r, s, G!RegressionFactor, floor)
    BY <1>1 DEF G!Regressions
  <2>2. PICK k \in {q \in DOMAIN r.byQuery \cap DOMAIN s.byQuery : s.byQuery[q].count > 0} \X {"p50", "p99"} :
          LET n == G!Latency(r.byQuery[k[1]], k[2])
              w == G!Latency(s.byQuery[k[1]], k[2])
          IN /\ w > 0 /\ G!Exceeds(n, w, G!RegressionFactor)
             /\ v = G!Finding(IF floor # G!NoFloor /\ ~G!Exceeds(n, w, floor)
                              THEN "indeterminate" ELSE "regression", k[1], k[2])
    BY <2>1 DEF G!CheckRegression
  <2>3. /\ k[1] \in DOMAIN doc.queries /\ k[1] \in DOMAIN b.queries
        /\ s.byQuery[k[1]].count = b.queries[k[1]].count
        /\ r.byQuery[k[1]].p50 = doc.queries[k[1]].p50 /\ r.byQuery[k[1]].p99 = doc.queries[k[1]].p99
        /\ s.byQuery[k[1]].p50 = b.queries[k[1]].p50 /\ s.byQuery[k[1]].p99 = b.queries[k[1]].p99
        /\ doc.queries[k[1]].p50 \in Nat /\ doc.queries[k[1]].p99 \in Nat
        /\ b.queries[k[1]].p50 \in Nat /\ b.queries[k[1]].p99 \in Nat
    <3>1. k[1] \in DOMAIN r.byQuery /\ k[1] \in DOMAIN s.byQuery
      OBVIOUS
    <3>2. G!IsDocument(b)
      OBVIOUS
    <3> QED
      BY <3>1, <3>2, QueryFields
  <2> DEFINE n == G!Latency(doc.queries[k[1]], k[2])
             w == G!Latency(b.queries[k[1]], k[2])
  <2>4. /\ G!Latency(r.byQuery[k[1]], k[2]) = n /\ G!Latency(s.byQuery[k[1]], k[2]) = w
        /\ n \in Nat /\ w \in Nat
    BY <2>3 DEF G!Latency
  <2>5. v.where = k[1] /\ v.metric = k[2] /\ s.byQuery[k[1]].count > 0
    BY <2>2 DEF G!Finding
  <2>6. /\ w > 0 /\ G!Exceeds(n, w, G!RegressionFactor)
        /\ v.kind = IF floor # G!NoFloor /\ ~G!Exceeds(n, w, floor) THEN "indeterminate" ELSE "regression"
    BY <2>2, <2>4 DEF G!Finding
  <2> HIDE DEF n, w
  <2>7. 10 * n > 11 * w
    BY <2>4, <2>6 DEF G!Exceeds, G!RegressionFactor
  <2>8. v.kind = "regression" <=> (floor = G!NoFloor \/ n * floor[2] > w * floor[1])
    BY <2>6 DEF G!Exceeds
  <2> QED
    BY <2>3, <2>5, <2>6, <2>7, <2>8 DEF n, w
<1>2. G!CheckRegression(r, r, G!RegressionFactor, floor) = {}
  <2>1. ASSUME NEW k \in {q \in DOMAIN r.byQuery : r.byQuery[q].count > 0} \X {"p50", "p99"},
               G!Exceeds(G!Latency(r.byQuery[k[1]], k[2]), G!Latency(r.byQuery[k[1]], k[2]), G!RegressionFactor)
        PROVE  FALSE
    <3>1. k[1] \in DOMAIN r.byQuery
      OBVIOUS
    <3>2. r.byQuery[k[1]].p50 \in Nat /\ r.byQuery[k[1]].p99 \in Nat
      BY <3>1, QueryFields
    <3>3. G!Latency(r.byQuery[k[1]], k[2]) \in Nat
      BY <3>2 DEF G!Latency
    <3> HIDE DEF r
    <3>4. \A n \in Nat : ~G!Exceeds(n, n, G!RegressionFactor)
      BY DEF G!Exceeds, G!RegressionFactor
    <3> QED
      BY <2>1, <3>3, <3>4
  <2> HIDE DEF r
  <2> QED
    BY <2>1 DEF G!CheckRegression
<1> QED
  BY <1>1, <1>2 DEF G!RulesOnEvidence

LEMMA ExitTold ==
  ASSUME NEW doc, NEW base, NEW floor
  PROVE  G!ExitTellsVerdict(doc, base, floor)
<1> DEFINE all == G!Violations(doc, base, floor)
           failed == \/ \E q \in DOMAIN doc.verification : doc.verification[q] = "FAIL"
                     \/ \E b \in base : \E q \in G!Passed(b) :
                          q \in DOMAIN doc.verification /\ doc.verification[q] = "SKIP"
<1>1. (G!ExitCode(all) = 0) <=> G!Pass(all)
  <2> HIDE DEF all
  <2> QED
    BY DEF G!ExitCode, G!Pass
<1>2. (G!ExitCode(all) = 3) <=> failed
  <2>1. (G!ExitCode(all) = 3) <=> \E v \in all : v.kind = "verification"
    <3> HIDE DEF all
    <3> QED
      BY DEF G!ExitCode, G!Failures
  <2>2. (\E v \in all : v.kind = "verification") <=> \E v : v \in G!CheckDocVerification(doc, G!PassedIn(base))
    BY FoundBy, FindingKinds
  <2>3. (\E v : v \in G!CheckDocVerification(doc, G!PassedIn(base)))
          <=> \E q \in DOMAIN doc.verification :
                \/ doc.verification[q] = "FAIL"
                \/ doc.verification[q] = "SKIP" /\ q \in G!PassedIn(base)
    BY DEF G!CheckDocVerification
  <2>4. \A q : q \in G!PassedIn(base) <=> \E b \in base : q \in G!Passed(b)
    BY DEF G!PassedIn
  <2> HIDE DEF all
  <2> QED
    BY <2>1, <2>2, <2>3, <2>4
<1>3. G!ExitCode(G!Failures(all)) = G!ExitCode(all)
  <2> HIDE DEF all
  <2>1. G!Failures(G!Failures(all)) = G!Failures(all)
    BY DEF G!Failures
  <2> QED
    BY <2>1 DEF G!ExitCode
<1> QED
  BY <1>1, <1>2, <1>3 DEF G!ExitTellsVerdict, G!TellsVerdict

-----------------------------------------------------------------------------
(* The newest documents, the ceiling of a commit, and the gate as a whole.   *)

LEMMA HasMost ==
  ASSUME NEW Z \in SUBSET Int, IsFiniteSet(Z), Z # {}
  PROVE  \E m \in Z : \A x \in Z : x <= m
<1> DEFINE T == {p \in Z \X Z : p[1] <= p[2]}
<1>1. \A i, j \in Z : <<i, j>> \in T <=> i <= j
  OBVIOUS
<1> HIDE DEF T
<1>2. Ranking(Z, T)
  BY <1>1 DEF Ranking
<1>3. PICK m \in Z : \A i \in Z : <<i, m>> \in T
  BY <1>2, HasHighest
<1> QED
  BY <1>1, <1>3

LEMMA HasLeast ==
  ASSUME NEW Z \in SUBSET Int, IsFiniteSet(Z), Z # {}
  PROVE  \E m \in Z : \A x \in Z : m <= x
<1> DEFINE T == {p \in Z \X Z : p[1] <= p[2]}
<1>1. \A i, j \in Z : <<i, j>> \in T <=> i <= j
  OBVIOUS
<1> HIDE DEF T
<1>2. Ranking(Z, T)
  BY <1>1 DEF Ranking
<1>3. PICK m \in Z : \A i \in Z : <<m, i>> \in T
  BY <1>2, HasLowest
<1> QED
  BY <1>1, <1>3

IsDocuments(side) ==
  /\ Len(side) \in Nat /\ DOMAIN side = 1..Len(side)
  /\ \A i \in DOMAIN side : G!IsDocument(side[i])

\* Where no two documents of a workload tie, the newest is the one the code picks.
LEMMA NewestIsLatest ==
  ASSUME NEW side, IsDocuments(side), NEW w, ~G!Tied(side, w)
  PROVE  G!Newest(side, w) = G!LatestOf(side, w)
<1> DEFINE of == {i \in DOMAIN side : side[i].workload = w}
           last == {i \in of : \A j \in of : side[j].startedAt <= side[i].startedAt}
<1>1. \A i \in DOMAIN side : side[i].startedAt \in Nat
  BY DEF IsDocuments, G!IsDocument
<1>2. \A d : d \in G!Newest(side, w) <=> \E i \in last : d = side[i]
  BY DEF G!Newest
<1>3. \A d : d \in G!LatestOf(side, w) <=> \E i \in of : i \in G!LatestPerWorkload(side) /\ d = side[i]
  <2>1. G!LatestPerWorkload(side) \subseteq DOMAIN side
    BY DEF G!LatestPerWorkload
  <2> QED
    BY <2>1 DEF G!LatestOf
<1>4. \A i \in of : i \in G!LatestPerWorkload(side) <=>
        \A j \in of : \/ side[j].startedAt < side[i].startedAt
                      \/ side[j].startedAt = side[i].startedAt /\ j <= i
  BY DEF G!LatestPerWorkload
<1>5. \A i \in of : i \in G!LatestPerWorkload(side) => i \in last
  BY <1>1, <1>4
<1>6. ASSUME NEW i \in last
      PROVE  \E k \in of : k \in G!LatestPerWorkload(side) /\ side[k] = side[i]
  <2>1. last \in SUBSET Int /\ IsFiniteSet(last) /\ last # {}
    <3>1. IsFiniteSet(DOMAIN side) /\ DOMAIN side \subseteq Int
      BY FS_Interval DEF IsDocuments
    <3> QED
      BY <3>1, <1>6, FS_Subset
  <2>2. PICK k \in last : \A j \in last : j <= k
    <3> HIDE DEF last
    <3> QED
      BY <2>1, HasMost
  <2>3. side[k] = side[i]
    <3>1. side[k] \in G!Newest(side, w) /\ side[i] \in G!Newest(side, w)
      BY <1>2, <1>6, <2>2
    <3> QED
      BY <3>1 DEF G!Tied
  <2>4. k \in G!LatestPerWorkload(side)
    <3>1. ASSUME NEW j \in of
          PROVE  \/ side[j].startedAt < side[k].startedAt
                 \/ side[j].startedAt = side[k].startedAt /\ j <= k
      <4>1. side[j].startedAt <= side[k].startedAt /\ side[j].startedAt \in Nat /\ side[k].startedAt \in Nat
        BY <1>1, <2>2
      <4>2. CASE side[j].startedAt = side[k].startedAt
        <5>1. j \in last
          BY <2>2, <4>2
        <5> QED
          BY <2>2, <4>2, <5>1
      <4> QED
        BY <4>1, <4>2
    <3> QED
      BY <1>4, <2>2, <3>1
  <2> QED
    BY <2>2, <2>3, <2>4
<1> QED
  <2> HIDE DEF of, last
  <2>1. \A d : d \in G!Newest(side, w) <=> d \in G!LatestOf(side, w)
    BY <1>2, <1>3, <1>5, <1>6
  <2> QED
    BY <2>1

LEMMA OnlyNewestJudged ==
  ASSUME NEW docs, IsDocuments(docs), NEW baseline, IsDocuments(baseline)
  PROVE  G!NewestAgainstNewest(docs, baseline, G!GateVerb(docs, baseline, G!NoFloor))
<1> DEFINE workloads == {docs[i].workload : i \in DOMAIN docs}
<1>1. SUFFICES ASSUME \A w \in workloads : ~G!Tied(docs, w) /\ ~G!Tied(baseline, w)
               PROVE  G!GateVerb(docs, baseline, G!NoFloor) =
                        UNION {G!Violations(d, G!Newest(baseline, d.workload), G!NoFloor) :
                                 d \in UNION {G!Newest(docs, w) : w \in workloads}}
  BY DEF G!NewestAgainstNewest
<1>2. \A w \in workloads : /\ G!Newest(docs, w) = G!LatestOf(docs, w)
                           /\ G!Newest(baseline, w) = G!LatestOf(baseline, w)
  BY <1>1, NewestIsLatest
<1>3. \A d : d \in UNION {G!Newest(docs, w) : w \in workloads}
               <=> \E i \in G!LatestPerWorkload(docs) : d = docs[i]
  <2>1. \A d : d \in UNION {G!Newest(docs, w) : w \in workloads}
                 <=> \E w \in workloads : d \in G!LatestOf(docs, w)
    BY <1>2
  <2>2. \A i \in G!LatestPerWorkload(docs) : docs[i].workload \in workloads
    BY DEF G!LatestPerWorkload
  <2>3. \A d, w : d \in G!LatestOf(docs, w)
                    <=> \E i \in G!LatestPerWorkload(docs) : docs[i].workload = w /\ d = docs[i]
    BY DEF G!LatestOf
  <2> HIDE DEF workloads
  <2> QED
    BY <2>1, <2>2, <2>3
<1>4. \A i \in G!LatestPerWorkload(docs) :
        G!LatestOf(baseline, docs[i].workload) = G!Newest(baseline, docs[i].workload)
  BY <1>2 DEF G!LatestPerWorkload
<1>5. \A v : v \in G!GateVerb(docs, baseline, G!NoFloor)
               <=> \E i \in G!LatestPerWorkload(docs) :
                     v \in G!Violations(docs[i], G!Newest(baseline, docs[i].workload), G!NoFloor)
  BY <1>4 DEF G!GateVerb
<1> QED
  <2> DEFINE judged == UNION {G!Newest(docs, w) : w \in workloads}
  <2>1. \A d : d \in judged <=> \E i \in G!LatestPerWorkload(docs) : d = docs[i]
    BY <1>3
  <2> HIDE DEF judged
  <2>2. \A v : v \in UNION {G!Violations(d, G!Newest(baseline, d.workload), G!NoFloor) : d \in judged}
                 <=> v \in G!GateVerb(docs, baseline, G!NoFloor)
    BY <1>5, <2>1
  <2>3. G!GateVerb(docs, baseline, G!NoFloor)
          = UNION {G!Violations(d, G!Newest(baseline, d.workload), G!NoFloor) : d \in judged}
    BY <2>2
  <2> QED
    BY <2>3 DEF judged

LEMMA TableOfWrites == \A plane \in {"InProc", "Subprocess", "Bolt"} : G!Budgets["Write"][plane] \in Nat
  BY SMT DEF G!Budgets

\* A function with a finite domain has finitely many values.
LEMMA FewValues ==
  ASSUME NEW Z, IsFiniteSet(Z), NEW f, f = [x \in Z |-> f[x]]
  PROVE  IsFiniteSet({f[x] : x \in Z})
<1> DEFINE T == {f[x] : x \in Z}
<1>1. f \in [Z -> T] /\ \A t \in T : \E x \in Z : f[x] = t
  OBVIOUS
<1> HIDE DEF T
<1>2. f \in Surjection(Z, T)
  BY <1>1 DEF Surjection
<1>3. IsFiniteSet(T)
  BY <1>2, FS_Surjection
<1> QED
  BY <1>3 DEF T

LEMMA PeakIs ==
  ASSUME NEW points \in Seq(Nat)
  PROVE  /\ G!PeakConcurrency(points) \in Nat /\ 1 <= G!PeakConcurrency(points)
         /\ \A i \in DOMAIN points : points[i] <= G!PeakConcurrency(points)
         /\ G!PeakConcurrency(points) = 1 \/ \E i \in DOMAIN points : points[i] = G!PeakConcurrency(points)
<1> DEFINE all == {1} \cup {points[i] : i \in DOMAIN points}
<1>1. all \in SUBSET Nat /\ 1 \in all /\ \A i \in DOMAIN points : points[i] \in all
  OBVIOUS
<1>2. IsFiniteSet(all)
  <2>1. IsFiniteSet(DOMAIN points) /\ points = [i \in DOMAIN points |-> points[i]]
    <3>1. DOMAIN points = 1..Len(points) /\ Len(points) \in Nat
      OBVIOUS
    <3>2. IsFiniteSet(1..Len(points))
      BY <3>1, FS_Interval
    <3>3. points = [i \in DOMAIN points |-> points[i]]
      OBVIOUS
    <3> QED
      BY <3>1, <3>2, <3>3
  <2>2. IsFiniteSet({points[i] : i \in DOMAIN points})
    BY <2>1, FewValues
  <2>3. IsFiniteSet({points[i] : i \in DOMAIN points} \cup {1})
    BY <2>2, FS_AddElement
  <2>4. all = {points[i] : i \in DOMAIN points} \cup {1}
    OBVIOUS
  <2> HIDE DEF all
  <2> QED
    BY <2>3, <2>4
<1>3. \E c \in all : \A d \in all : d <= c
  <2> HIDE DEF all
  <2>1. all \in SUBSET Int /\ all # {}
    BY <1>1
  <2> QED
    BY <2>1, <1>2, HasMost
<1>4. G!PeakConcurrency(points) \in all /\ \A d \in all : d <= G!PeakConcurrency(points)
  BY <1>3 DEF G!PeakConcurrency
<1> QED
  BY <1>1, <1>4

LEMMA CeilingAllows ==
  ASSUME NEW plane \in {"InProc", "Subprocess", "Bolt"}, NEW sync \in Int, NEW points \in Seq(Nat)
  PROVE  G!CeilingAllowsDisk(plane, sync, points)
<1> DEFINE table == G!Budgets["Write"][plane]
           more == Append(points, 2)
           at(s, c) == IF s <= 0 \/ s * (c + 1) <= table THEN table ELSE s * (c + 1)
<1>1. PICK peak \in Nat : peak = G!PeakConcurrency(points)
  BY PeakIs
<1>2. PICK higher \in Nat : /\ higher = G!PeakConcurrency(more)
                            /\ 1 <= higher /\ \A i \in DOMAIN more : more[i] <= higher
  <2>1. more \in Seq(Nat)
    OBVIOUS
  <2> HIDE DEF more
  <2> QED
    BY <2>1, PeakIs
<1>3. 1 <= peak /\ \A i \in DOMAIN points : points[i] <= peak
  BY <1>1, PeakIs
<1>4. peak <= higher
  <2>1. \A i \in DOMAIN more : more[i] <= higher
    BY <1>2
  <2>2. \A i \in DOMAIN points : i \in DOMAIN more /\ more[i] = points[i]
    OBVIOUS
  <2>3. 1 <= higher
    BY <1>2
  <2>4. peak = 1 \/ \E i \in DOMAIN points : points[i] = peak
    BY <1>1, PeakIs
  <2> QED
    BY <2>1, <2>2, <2>3, <2>4
<1>5. table \in Nat
  BY TableOfWrites
<1> HIDE DEF table, more
<1>6. \A s, c : c \in Nat /\ 1 <= c => G!WriteCeiling(plane, s, c) = at(s, c)
  BY DEF G!WriteCeiling, G!DurableWriteSyncs, table
<1>7. \A s \in Int, c, d \in Nat : s > 0 /\ c <= d =>
        /\ s * c <= s * d /\ s * c \in Nat /\ s * d \in Nat
  BY ProductsGrow
<1>8. at(sync, peak) >= table
  <2>1. sync > 0 => sync * (peak + 1) \in Nat
    BY <1>7
  <2> QED
    BY <1>5, <2>1
<1>9. \A n \in Nat : sync > 0 /\ n <= peak => at(sync, peak) >= (n + 1) * sync
  <2> SUFFICES ASSUME NEW n \in Nat, sync > 0, n <= peak
               PROVE  at(sync, peak) >= (n + 1) * sync
    OBVIOUS
  <2>1. sync * (n + 1) <= sync * (peak + 1) /\ sync * (n + 1) \in Nat /\ sync * (peak + 1) \in Nat
    BY <1>7
  <2>2. (n + 1) * sync = sync * (n + 1)
    OBVIOUS
  <2> QED
    BY <1>5, <2>1, <2>2
<1>10. at(sync, peak) <= at(sync + 1, peak)
  <2>1. sync + 1 > 0 => (sync + 1) * (peak + 1) \in Nat
    BY <1>7
  <2>2. sync > 0 => sync * (peak + 1) <= (sync + 1) * (peak + 1) /\ sync * (peak + 1) \in Nat
    BY ProductsGrow
  <2> QED
    BY <1>5, <2>1, <2>2
<1>11. at(sync, peak) <= at(sync, higher)
  <2>1. sync > 0 => /\ sync * (peak + 1) <= sync * (higher + 1)
                    /\ sync * (peak + 1) \in Nat /\ sync * (higher + 1) \in Nat
    BY <1>4, <1>7
  <2> QED
    BY <1>5, <2>1
<1>12. /\ G!WriteCeiling(plane, sync, peak) = at(sync, peak)
       /\ G!WriteCeiling(plane, sync + 1, peak) = at(sync + 1, peak)
       /\ G!WriteCeiling(plane, sync, higher) = at(sync, higher)
  BY <1>3, <1>4, <1>6
<1> HIDE DEF at
<1>13. sync > 0 => at(sync, peak) >= 2 * sync
  <2>1. sync > 0 => at(sync, peak) >= (1 + 1) * sync
    BY <1>3, <1>9
  <2>2. (1 + 1) * sync = 2 * sync
    OBVIOUS
  <2> QED
    BY <2>1, <2>2
<1>14. \A i \in DOMAIN points : sync > 0 => at(sync, peak) >= (points[i] + 1) * sync
  <2>1. \A i \in DOMAIN points : points[i] \in Nat
    OBVIOUS
  <2> QED
    BY <1>3, <1>9, <2>1
<1> QED
  BY <1>1, <1>2, <1>8, <1>10, <1>11, <1>12, <1>13, <1>14 DEF G!CeilingAllowsDisk, table, more

\* What was asked is one of the questions, and what is told of samples, of documents and of
\* a schedule is the answer of the code.
AskedInv ==
  /\ part \in DOMAIN Questions \cup {"warmup"}
  /\ part # "warmup" => asked \in Questions[part]
  /\ Answered("stats") => told = S!Summarize(asked, 60)
  /\ Answered("drift") => told = S!DriftOf(asked, 2)
  /\ Answered("teps") => told = S!NewTraversal(asked[1], asked[2])
  /\ Answered("verb") => told = G!GateVerb(asked[1], asked[2], G!NoFloor)
  /\ Answered("flat") =>
       told = G!CheckFlatness([stats |-> [PointRead |-> asked[1]]],
                              [stats |-> [PointRead |-> asked[2]]], G!RegressionFactor)
  /\ Answered("mix") => told \in Q!MixedSchedules(asked[1], asked[2], asked[3])
  /\ Answered("open") =>
       told = Q!Recorded(Q!MixTotal(asked[1], asked[2], asked[3]), asked[2], asked[3])
  /\ Answered("warm") => told = Q!Fired(asked[1], asked[2])
  /\ Answered("matrix") => told = M!Rendered([i \in DOMAIN asked |-> M!ReadDoc(asked[i])])

LEMMA AskedInvInit == FiguresInit => AskedInv
  BY DEF FiguresInit, AskedInv, Answered

LEMMA AskedInvNext == AskedInv /\ [FiguresNext]_<<part, asked, told, vars>> => AskedInv'
<1> SUFFICES ASSUME AskedInv, [FiguresNext]_<<part, asked, told, vars>>
             PROVE  AskedInv'
  OBVIOUS
<1>1. CASE Answer
  <2>1. UNCHANGED <<part, asked>>
    BY <1>1 DEF Answer
  <2>2. CASE part = "verb"
    <3>1. told' = G!GateVerb(asked[1], asked[2], G!NoFloor)
      BY <1>1, <2>2 DEF Answer, Summarise, Compare, Rate, Rule, Spread, Pair, Price, Race,
                        Judge, Flatten, Allow, Interleaved, Arrive, Heat, Render
    <3> QED
      BY <2>1, <2>2, <3>1 DEF AskedInv, Answered
  <2>3. CASE part = "flat"
    <3>1. told' = G!CheckFlatness([stats |-> [PointRead |-> asked[1]]],
                                  [stats |-> [PointRead |-> asked[2]]], G!RegressionFactor)
      BY <1>1, <2>3 DEF Answer, Summarise, Compare, Rate, Rule, Spread, Pair, Price, Race,
                        Judge, Flatten, Allow, Interleaved, Arrive, Heat, Render
    <3> QED
      BY <2>1, <2>3, <3>1 DEF AskedInv, Answered
  <2>4. CASE part = "mix"
    <3>1. told' \in Q!MixedSchedules(asked[1], asked[2], asked[3])
      BY <1>1, <2>4 DEF Answer, Summarise, Compare, Rate, Rule, Spread, Pair, Price, Race,
                        Judge, Flatten, Allow, Interleaved, Arrive, Heat, Render
    <3> QED
      BY <2>1, <2>4, <3>1 DEF AskedInv, Answered
  <2>5. CASE part = "open"
    <3>1. told' = Q!Recorded(Q!MixTotal(asked[1], asked[2], asked[3]), asked[2], asked[3])
      BY <1>1, <2>5 DEF Answer, Summarise, Compare, Rate, Rule, Spread, Pair, Price, Race,
                        Judge, Flatten, Allow, Interleaved, Arrive, Heat, Render
    <3> QED
      BY <2>1, <2>5, <3>1 DEF AskedInv, Answered
  <2>6. CASE part = "warm"
    <3>1. told' = Q!Fired(asked[1], asked[2])
      BY <1>1, <2>6 DEF Answer, Summarise, Compare, Rate, Rule, Spread, Pair, Price, Race,
                        Judge, Flatten, Allow, Interleaved, Arrive, Heat, Render
    <3> QED
      BY <2>1, <2>6, <3>1 DEF AskedInv, Answered
  <2>7. CASE part = "stats"
    <3>1. told' = S!Summarize(asked, 60)
      BY <1>1, <2>7 DEF Answer, Summarise, Compare, Rate, Rule, Spread, Pair, Price, Race,
                        Judge, Flatten, Allow, Interleaved, Arrive, Heat, Render
    <3> QED
      BY <2>1, <2>7, <3>1 DEF AskedInv, Answered
  <2>8. CASE part = "drift"
    <3>1. told' = S!DriftOf(asked, 2)
      BY <1>1, <2>8 DEF Answer, Summarise, Compare, Rate, Rule, Spread, Pair, Price, Race,
                        Judge, Flatten, Allow, Interleaved, Arrive, Heat, Render
    <3> QED
      BY <2>1, <2>8, <3>1 DEF AskedInv, Answered
  <2>9. CASE part = "teps"
    <3>1. told' = S!NewTraversal(asked[1], asked[2])
      BY <1>1, <2>9 DEF Answer, Summarise, Compare, Rate, Rule, Spread, Pair, Price, Race,
                        Judge, Flatten, Allow, Interleaved, Arrive, Heat, Render
    <3> QED
      BY <2>1, <2>9, <3>1 DEF AskedInv, Answered
  <2>10. CASE part = "matrix"
    <3>1. told' = M!Rendered([i \in DOMAIN asked |-> M!ReadDoc(asked[i])])
      BY <1>1, <2>10 DEF Answer, Summarise, Compare, Rate, Rule, Spread, Pair, Price, Race,
                        Judge, Flatten, Allow, Interleaved, Arrive, Heat, Render
    <3> QED
      BY <2>1, <2>10, <3>1 DEF AskedInv, Answered
  <2> QED
    BY <2>1, <2>2, <2>3, <2>4, <2>5, <2>6, <2>7, <2>8, <2>9, <2>10 DEF AskedInv, Answered
<1>2. CASE UNCHANGED <<part, asked, told>>
  BY <1>2 DEF AskedInv, Answered
<1> QED
  BY <1>1, <1>2 DEF FiguresNext, Detect

LEMMA FlatnessIs ==
  ASSUME NEW small, G!IsStat(small), NEW large, G!IsStat(large)
  PROVE  G!CheckFlatness([stats |-> [PointRead |-> small]], [stats |-> [PointRead |-> large]], G!RegressionFactor) # {}
           <=> small.p50 > 0 /\ 10 * large.p50 > 11 * small.p50
<1>1. small.p50 \in Nat /\ large.p50 \in Nat
  BY StatFields
<1> DEFINE a == [stats |-> [PointRead |-> small]]
           b == [stats |-> [PointRead |-> large]]
<1>2. /\ {"PointRead"} \subseteq DOMAIN a.stats \cap DOMAIN b.stats
      /\ a.stats["PointRead"] = small /\ b.stats["PointRead"] = large
  OBVIOUS
<1> HIDE DEF a, b
<1>3. G!CheckFlatness(a, b, G!RegressionFactor) # {}
        <=> small.p50 > 0 /\ G!Exceeds(large.p50, small.p50, G!RegressionFactor)
  BY <1>2 DEF G!CheckFlatness
<1>4. \A n, w \in Nat : G!Exceeds(n, w, G!RegressionFactor) <=> 10 * n > 11 * w
  BY DEF G!Exceeds, G!RegressionFactor
<1> QED
  BY <1>1, <1>3, <1>4 DEF a, b

LEMMA AskedInvGives == AskedInv => GateIsSound
<1> SUFFICES ASSUME AskedInv
             PROVE  GateIsSound
  OBVIOUS
<1>1. ASSUME Answered("gate")
      PROVE  /\ G!SlowerNeverHelps(asked[1], asked[2], asked[3])
             /\ G!RulesOnEvidence(asked[1], asked[2], asked[3])
             /\ G!ExitTellsVerdict(asked[1], asked[2], asked[3])
  <2>1. /\ G!IsDocument(asked[1]) /\ G!IsFactor(asked[3])
        /\ \A b \in asked[2] : G!IsDocument(b) /\ asked[2] = {b}
    BY <1>1, FiguresAssumption DEF AskedInv, Answered
  <2> QED
    BY <2>1, SlownessCosts, RuledOnEvidence, ExitTold
<1>2. ASSUME Answered("verb")
      PROVE  G!NewestAgainstNewest(asked[1], asked[2], told)
  <2>1. IsDocuments(asked[1]) /\ IsDocuments(asked[2])
    BY <1>2, FiguresAssumption DEF AskedInv, Answered, IsDocuments
  <2> QED
    BY <1>2, <2>1, OnlyNewestJudged DEF AskedInv
<1>3. ASSUME Answered("flat")
      PROVE  told # {} <=> asked[1].p50 > 0 /\ 10 * asked[2].p50 > 11 * asked[1].p50
  <2>1. G!IsStat(asked[1]) /\ G!IsStat(asked[2])
    BY <1>3, FiguresAssumption DEF AskedInv, Answered
  <2> QED
    BY <1>3, <2>1, FlatnessIs DEF AskedInv
<1>4. ASSUME Answered("ceiling")
      PROVE  G!CeilingAllowsDisk(asked[1], asked[2], asked[3])
  <2>1. asked[1] \in {"InProc", "Subprocess", "Bolt"} /\ asked[2] \in Int /\ asked[3] \in Seq(Nat)
    BY <1>4, FiguresAssumption DEF AskedInv, Answered
  <2> QED
    BY <2>1, CeilingAllows
<1> QED
  BY <1>1, <1>2, <1>3, <1>4 DEF GateIsSound

\* The gate, for every document: no slower query helps, no regression is ruled without
\* evidence, the exit code tells the verdict, only the newest documents are judged, and a
\* commit is allowed what the disk makes it wait (gate.go, budgets.go, gate_cmd.go).
THEOREM GateIsFair == FiguresSpec => []GateIsSound
<1>1. FiguresSpec => []AskedInv
  BY AskedInvInit, AskedInvNext, PTL DEF FiguresSpec
<1> QED
  BY <1>1, AskedInvGives, PTL

-----------------------------------------------------------------------------
(* Against a rival.                                                          *)

\* What a comparison of two runs is made of.
LEMMA RivalFields ==
  ASSUME NEW res, R!IsRivalRun(res), NEW rival, R!IsRivalRun(rival)
  PROVE  LET r == R!CompareRival(res, rival)
         IN /\ r.unit \in Int /\ r.rivalUnit \in Int /\ r.low \in Nat /\ r.high \in Nat
            /\ DOMAIN r.rows = {c \in DOMAIN res.stats \cap DOMAIN rival.stats :
                                  res.stats[c].count > 0 /\ rival.stats[c].count > 0}
            /\ \A c \in DOMAIN r.rows :
                 /\ r.rows[c].mine = res.stats[c] /\ r.rows[c].theirs = rival.stats[c]
                 /\ r.rows[c].mine \in R!RivalStats /\ r.rows[c].theirs \in R!RivalStats
<1>1. res.sync \in Int /\ rival.sync \in Int
  BY DEF R!IsRivalRun
<1>2. res.low \in Nat /\ rival.low \in Nat /\ res.high \in Nat /\ rival.high \in Nat
  BY DEF R!IsRivalRun
<1>3. /\ \A c \in DOMAIN res.stats : res.stats[c] \in R!RivalStats
      /\ \A c \in DOMAIN rival.stats : rival.stats[c] \in R!RivalStats
  BY DEF R!IsRivalRun
<1> DEFINE r == R!CompareRival(res, rival)
           both == {c \in DOMAIN res.stats \cap DOMAIN rival.stats :
                      res.stats[c].count > 0 /\ rival.stats[c].count > 0}
<1>4. r.rows = [c \in both |-> [mine |-> res.stats[c], theirs |-> rival.stats[c]]]
  BY DEF R!CompareRival
<1>5. r.unit \in Int /\ r.rivalUnit \in Int
  BY <1>1 DEF R!CompareRival, R!Lower
<1>6. r.low \in Nat /\ r.high \in Nat
  BY <1>2 DEF R!CompareRival, R!Lower, R!Higher
<1> HIDE DEF r
<1>7. DOMAIN r.rows = both
  BY <1>4
<1>8. \A c \in both : r.rows[c].mine = res.stats[c] /\ r.rows[c].theirs = rival.stats[c]
  BY <1>4
<1>9. \A c \in both : c \in DOMAIN res.stats /\ c \in DOMAIN rival.stats
  OBVIOUS
<1> QED
  BY <1>3, <1>5, <1>6, <1>7, <1>8, <1>9 DEF r

\* What a run is compared in, for one probe band or two.
LEMMA RivalUnits ==
  ASSUME NEW res, R!IsRivalRun(res), NEW rival, R!IsRivalRun(rival)
  PROVE  LET r == R!CompareRival(res, rival)
         IN /\ res.host = rival.host /\ res.sync > 0 /\ rival.sync > 0 => r.unit = r.rivalUnit /\ r.unit > 0
            /\ ~(res.host = rival.host /\ rival.sync > 0 /\ res.sync > 0)
                 => r.unit = res.sync /\ r.rivalUnit = rival.sync
            /\ (\A s \in {res, rival} : 0 < s.low /\ s.low <= s.sync /\ s.sync <= s.high)
                 => 0 < r.low /\ r.low <= r.unit /\ r.unit <= r.high
<1>1. /\ res.sync \in Int /\ rival.sync \in Int
      /\ res.low \in Nat /\ rival.low \in Nat /\ res.high \in Nat /\ rival.high \in Nat
  BY DEF R!IsRivalRun
<1> DEFINE r == R!CompareRival(res, rival)
           shared == res.host = rival.host /\ res.sync > 0 /\ rival.sync > 0
           wider == res.host = rival.host /\ rival.low > 0 /\ res.low > 0
<1>2. /\ r.unit = IF shared THEN R!Lower(res.sync, rival.sync) ELSE res.sync
      /\ r.rivalUnit = IF shared THEN R!Lower(res.sync, rival.sync) ELSE rival.sync
      /\ r.low = IF wider THEN R!Lower(res.low, rival.low) ELSE res.low
      /\ r.high = IF wider THEN R!Higher(res.high, rival.high) ELSE res.high
  BY DEF R!CompareRival
<1> HIDE DEF r
<1>3. res.host = rival.host /\ res.sync > 0 /\ rival.sync > 0 => r.unit = r.rivalUnit /\ r.unit > 0
  BY <1>1, <1>2 DEF R!Lower
<1>4. ASSUME \A s \in {res, rival} : 0 < s.low /\ s.low <= s.sync /\ s.sync <= s.high
      PROVE  0 < r.low /\ r.low <= r.unit /\ r.unit <= r.high
  <2>1. /\ 0 < res.low /\ res.low <= res.sync /\ res.sync <= res.high
        /\ 0 < rival.low /\ rival.low <= rival.sync /\ rival.sync <= rival.high
    BY <1>4
  <2> QED
    BY <1>1, <1>2, <2>1 DEF R!Lower, R!Higher
<1> QED
  BY <1>2, <1>3, <1>4 DEF r

\* A count of syncs is a fraction that is ordered as the latencies are.
LEMMA SyncsCompare ==
  ASSUME NEW x \in Nat, NEW y \in Nat, NEW u \in Int
  PROVE  /\ u > 0 /\ R!Over(R!CommitSyncs(x, u), R!CommitSyncs(y, u)) => x > y
         /\ ~R!Over(R!CommitSyncs(x, u), R!CommitSyncs(x, u))
         /\ R!CommitSyncs(x, u) # R!Unprobed <=> u > 0 /\ x > 0
         /\ u > 0 /\ x > 0 => (R!Over(R!CommitSyncs(x, u), <<R!SyncCeiling, 1>>) <=> x > R!SyncCeiling * u)
<1>1. x > 0 /\ u > 0 => R!CommitSyncs(x, u) = <<x, u>>
  BY DEF R!CommitSyncs
<1>2. ~(x > 0 /\ u > 0) => R!CommitSyncs(x, u) = <<0, 1>>
  BY DEF R!CommitSyncs, R!Unprobed
<1>3. y > 0 /\ u > 0 => R!CommitSyncs(y, u) = <<y, u>>
  BY DEF R!CommitSyncs
<1>4. ~(y > 0 /\ u > 0) => R!CommitSyncs(y, u) = <<0, 1>>
  BY DEF R!CommitSyncs, R!Unprobed
<1>5. ASSUME u > 0, R!Over(R!CommitSyncs(x, u), R!CommitSyncs(y, u))
      PROVE  x > y
  <2>1. CASE x > 0 /\ y > 0
    <3>1. x * u > y * u
      BY <1>1, <1>3, <1>5, <2>1 DEF R!Over
    <3>2. x <= y => x * u <= y * u /\ x * u \in Nat /\ y * u \in Nat
      BY <1>5, ProductsGrow
    <3> QED
      BY <3>1, <3>2
  <2>2. CASE x = 0
    <3>1. R!CommitSyncs(x, u) = <<0, 1>>
      BY <1>2, <2>2
    <3>2. R!Over(<<0, 1>>, R!CommitSyncs(y, u))
      BY <1>5, <3>1
    <3> QED
      BY <1>3, <1>4, <1>5, <3>2 DEF R!Over
  <2> QED
    BY <2>1, <2>2
<1>6. ~R!Over(R!CommitSyncs(x, u), R!CommitSyncs(x, u))
  <2>1. x * u \in Int /\ 0 * 1 \in Int
    OBVIOUS
  <2> QED
    BY <1>1, <1>2, <2>1 DEF R!Over
<1>7. R!CommitSyncs(x, u) # R!Unprobed <=> u > 0 /\ x > 0
  BY <1>1, <1>2 DEF R!Unprobed
<1>8. u > 0 /\ x > 0 => (R!Over(R!CommitSyncs(x, u), <<R!SyncCeiling, 1>>) <=> x > R!SyncCeiling * u)
  BY <1>1 DEF R!Over, R!SyncCeiling
<1> QED
  BY <1>5, <1>6, <1>7, <1>8

LEMMA ProbesDecideNothing ==
  ASSUME NEW res, R!IsRivalRun(res), NEW rival, R!IsRivalRun(rival)
  PROVE  R!ProbesDoNotDecide(res, rival)
<1> DEFINE r == R!CompareRival(res, rival)
           w == r.rows["Write"]
<1>1. SUFFICES ASSUME res.host = rival.host, rival.sync > 0, "Write" \in DOMAIN r.rows,
                      NEW v \in R!CommitRace(r)
               PROVE  w.mine[v.metric] > w.theirs[v.metric]
  BY DEF R!ProbesDoNotDecide, R!RacesLatencies
<1>2. r.unit \in Int /\ w.mine \in R!RivalStats /\ w.theirs \in R!RivalStats
  BY <1>1, RivalFields
<1>3. res.sync \in Int
  BY DEF R!IsRivalRun
<1>4. /\ res.sync > 0 => r.unit = r.rivalUnit /\ r.unit > 0
      /\ ~(res.sync > 0) => r.unit = res.sync
  BY <1>1, RivalUnits
<1> HIDE DEF r
<1>5. R!Asked(r) /\ \E m \in {"p50", "p99"} :
        /\ v = R!Finding("rival", "Write", m)
        /\ R!Over(R!CommitSyncs(w.mine[m], r.unit), R!CommitSyncs(w.theirs[m], r.rivalUnit))
  BY <1>1 DEF R!CommitRace
<1> HIDE DEF w
<1>6. r.unit > 0
  <2>1. R!CommitSyncs(w.mine.p50, r.unit) # R!Unprobed
    BY <1>5 DEF R!Asked, w
  <2> QED
    BY <1>2, <2>1, SyncsCompare DEF R!RivalStats
<1>7. PICK m \in {"p50", "p99"} :
        /\ v = R!Finding("rival", "Write", m)
        /\ R!Over(R!CommitSyncs(w.mine[m], r.unit), R!CommitSyncs(w.theirs[m], r.unit))
  BY <1>3, <1>4, <1>5, <1>6
<1>8. w.mine[m] \in Nat /\ w.theirs[m] \in Nat
  BY <1>2 DEF R!RivalStats
<1>9. v.metric = m
  BY <1>7 DEF R!Finding
<1> QED
  BY <1>2, <1>6, <1>7, <1>8, <1>9, SyncsCompare

LEMMA RuledOutsideBand ==
  ASSUME NEW res, R!IsRivalRun(res), NEW rival, R!IsRivalRun(rival)
  PROVE  R!CeilingOutsideBand(res, rival)
<1> DEFINE r == R!CompareRival(res, rival)
           p50 == r.rows["Write"].mine.p50
<1>1. SUFFICES ASSUME \A s \in {res, rival} : 0 < s.low /\ s.low <= s.sync /\ s.sync <= s.high,
                      "Write" \in DOMAIN r.rows, p50 > 0
               PROVE  /\ R!Finding("rival", "Write", "ceiling") \in R!CommitCount(r) => p50 > R!SyncCeiling * r.high
                      /\ R!CommitCount(r) = {} => p50 <= R!SyncCeiling * r.high
  BY DEF R!CeilingOutsideBand, R!RuledOutside
<1>2. r.unit \in Int /\ r.low \in Nat /\ r.high \in Nat /\ p50 \in Nat
  BY <1>1, RivalFields DEF R!RivalStats
<1>3. 0 < r.low /\ r.low <= r.unit /\ r.unit <= r.high
  BY <1>1, RivalUnits
<1> HIDE DEF r
<1> DEFINE syncs(u) == R!CommitSyncs(p50, u)
           over(u) == R!Over(syncs(u), <<R!SyncCeiling, 1>>)
<1>4. \A u \in {r.low, r.high, r.unit} : syncs(u) # R!Unprobed /\ (over(u) <=> p50 > R!SyncCeiling * u)
  BY <1>1, <1>2, <1>3, SyncsCompare
<1>5. R!Straddles(R!CommitBand(r, p50)) <=> ~over(r.high) /\ over(r.low)
  <2>1. R!CommitBand(r, p50) = <<syncs(r.high), syncs(r.low)>>
    BY <1>2, <1>3 DEF R!CommitBand
  <2> HIDE DEF syncs
  <2> QED
    BY <1>4, <2>1 DEF R!Straddles
<1>6. R!CommitCount(r) = IF ~R!Asked(r) \/ (~over(r.high) /\ over(r.low))
                         THEN {R!Finding("indeterminate", "Write", "p50")}
                         ELSE IF over(r.unit) THEN {R!Finding("rival", "Write", "ceiling")} ELSE {}
  <2> HIDE DEF p50
  <2>1. R!CommitCount(r) = IF ~R!Asked(r) \/ R!Straddles(R!CommitBand(r, p50))
                         THEN {R!Finding("indeterminate", "Write", "p50")}
                         ELSE IF over(r.unit) THEN {R!Finding("rival", "Write", "ceiling")} ELSE {}
    BY DEF R!CommitCount, p50
  <2> HIDE DEF over
  <2> QED
    BY <1>5, <2>1
<1>7. R!Finding("rival", "Write", "ceiling") # R!Finding("indeterminate", "Write", "p50")
  BY DEF R!Finding
<1> HIDE DEF over, p50
<1>8. /\ over(r.low) <=> p50 > R!SyncCeiling * r.low
      /\ over(r.high) <=> p50 > R!SyncCeiling * r.high
      /\ over(r.unit) <=> p50 > R!SyncCeiling * r.unit
  BY <1>4
<1>9. R!SyncCeiling * r.low <= R!SyncCeiling * r.unit /\ R!SyncCeiling * r.unit <= R!SyncCeiling * r.high
  BY <1>2, <1>3 DEF R!SyncCeiling
<1>10. over(r.unit) => over(r.low)
  BY <1>2, <1>8, <1>9 DEF R!SyncCeiling
<1>11. R!Finding("rival", "Write", "ceiling") \in R!CommitCount(r) => over(r.high)
  BY <1>6, <1>7, <1>10
<1>12. R!CommitCount(r) = {} => ~over(r.unit)
  BY <1>6
<1> QED
  BY <1>2, <1>8, <1>9, <1>11, <1>12 DEF R!SyncCeiling

LEMMA FasterIsRun ==
  ASSUME NEW rival, R!IsRivalRun(rival)
  PROVE  LET f == R!Faster(rival)
         IN /\ R!IsRivalRun(f)
            /\ f.host = rival.host /\ f.sync = rival.sync /\ f.low = rival.low /\ f.high = rival.high
            /\ f.queries = rival.queries /\ DOMAIN f.stats = DOMAIN rival.stats
            /\ \A c \in DOMAIN rival.stats :
                 /\ f.stats[c].count = rival.stats[c].count /\ f.stats[c].p99 = rival.stats[c].p99
                 /\ f.stats[c].p50 <= rival.stats[c].p50
                 /\ f.stats[c].p50 > 0 <=> rival.stats[c].p50 > 0
<1> DEFINE stats == [c \in DOMAIN rival.stats |-> [rival.stats[c] EXCEPT !.p50 = (@ + 1) \div 2]]
           f == R!Faster(rival)
<1>1. f = [host |-> rival.host, sync |-> rival.sync, low |-> rival.low, high |-> rival.high,
           stats |-> stats, queries |-> rival.queries]
  BY DEF R!Faster, R!IsRivalRun
<1>2. ASSUME NEW c \in DOMAIN rival.stats
      PROVE  /\ stats[c] \in R!RivalStats
             /\ stats[c].count = rival.stats[c].count /\ stats[c].p99 = rival.stats[c].p99
             /\ stats[c].p50 <= rival.stats[c].p50
             /\ stats[c].p50 > 0 <=> rival.stats[c].p50 > 0
  <2> DEFINE s == rival.stats[c]
             half == (s.p50 + 1) \div 2
  <2>1. s \in R!RivalStats
    BY DEF R!IsRivalRun
  <2>2. stats[c] = [s EXCEPT !.p50 = half]
    OBVIOUS
  <2> HIDE DEF s, stats
  <2>3. s = [count |-> s.count, p50 |-> s.p50, p99 |-> s.p99] /\ s.count \in Nat /\ s.p50 \in Nat /\ s.p99 \in Nat
    BY <2>1 DEF R!RivalStats
  <2>4. half \in Nat /\ half <= s.p50 /\ (half > 0 <=> s.p50 > 0)
    BY <2>3
  <2> HIDE DEF half
  <2>5. stats[c] = [count |-> s.count, p50 |-> half, p99 |-> s.p99]
    BY <2>2, <2>3
  <2> QED
    BY <2>3, <2>4, <2>5 DEF s, R!RivalStats
<1>3. DOMAIN stats = DOMAIN rival.stats /\ stats \in [DOMAIN stats -> R!RivalStats]
  BY <1>2
<1>4. rival.sync \in Int /\ rival.low \in Nat /\ rival.high \in Nat
  BY DEF R!IsRivalRun
<1> HIDE DEF stats, f
<1>5. /\ f.host = rival.host /\ f.sync = rival.sync /\ f.low = rival.low /\ f.high = rival.high
      /\ f.queries = rival.queries /\ f.stats = stats
  BY <1>1
<1>6. R!IsRivalRun(f)
  BY <1>1, <1>3, <1>4, <1>5 DEF R!IsRivalRun
<1> QED
  BY <1>2, <1>3, <1>5, <1>6 DEF f

\* Two comparisons that differ in the rival's latencies only.
LEMMA FasterCompared ==
  ASSUME NEW res, R!IsRivalRun(res), NEW rival, R!IsRivalRun(rival)
  PROVE  LET r == R!CompareRival(res, rival)
             s == R!CompareRival(res, R!Faster(rival))
         IN /\ r.unit = s.unit /\ r.rivalUnit = s.rivalUnit /\ r.low = s.low /\ r.high = s.high
            /\ DOMAIN r.rows = DOMAIN s.rows
            /\ \A c \in DOMAIN r.rows :
                 /\ r.rows[c].mine = s.rows[c].mine /\ r.rows[c].mine \in R!RivalStats
                 /\ r.rows[c].theirs \in R!RivalStats /\ s.rows[c].theirs \in R!RivalStats
                 /\ \A m \in {"p50", "p99"} :
                      /\ s.rows[c].theirs[m] <= r.rows[c].theirs[m]
                      /\ s.rows[c].theirs[m] > 0 <=> r.rows[c].theirs[m] > 0
<1> DEFINE f == R!Faster(rival)
           r == R!CompareRival(res, rival)
           s == R!CompareRival(res, f)
<1>1. R!IsRivalRun(f) /\ f.host = rival.host /\ f.sync = rival.sync /\ f.low = rival.low /\ f.high = rival.high
  BY FasterIsRun, Zenon
<1>2. r.unit = s.unit /\ r.rivalUnit = s.rivalUnit /\ r.low = s.low /\ r.high = s.high
  <2> HIDE DEF f
  <2> QED
    BY <1>1 DEF R!CompareRival
<1>3. /\ DOMAIN f.stats = DOMAIN rival.stats
      /\ \A c \in DOMAIN rival.stats :
           /\ f.stats[c].count = rival.stats[c].count
           /\ f.stats[c].p99 = rival.stats[c].p99 /\ f.stats[c].p50 <= rival.stats[c].p50
           /\ f.stats[c].p50 > 0 <=> rival.stats[c].p50 > 0
  BY FasterIsRun
<1> DEFINE both(a) == {c \in DOMAIN res.stats \cap DOMAIN a.stats : res.stats[c].count > 0 /\ a.stats[c].count > 0}
<1>4. /\ DOMAIN r.rows = both(rival)
      /\ \A c \in DOMAIN r.rows : /\ r.rows[c].mine = res.stats[c] /\ r.rows[c].theirs = rival.stats[c]
                                  /\ r.rows[c].mine \in R!RivalStats /\ r.rows[c].theirs \in R!RivalStats
  BY RivalFields
<1>5. /\ DOMAIN s.rows = both(f)
      /\ \A c \in DOMAIN s.rows : /\ s.rows[c].mine = res.stats[c] /\ s.rows[c].theirs = f.stats[c]
                                  /\ s.rows[c].theirs \in R!RivalStats
  <2> HIDE DEF f
  <2> QED
    BY <1>1, RivalFields
<1> HIDE DEF f, r, s
<1>6. both(rival) = both(f)
  BY <1>3
<1>7. \A c \in both(rival) : c \in DOMAIN rival.stats
  OBVIOUS
<1> HIDE DEF both
<1>8. ASSUME NEW c \in DOMAIN r.rows, NEW m \in {"p50", "p99"}
      PROVE  /\ s.rows[c].theirs[m] <= r.rows[c].theirs[m]
             /\ s.rows[c].theirs[m] > 0 <=> r.rows[c].theirs[m] > 0
  <2>1. r.rows[c].theirs = rival.stats[c] /\ s.rows[c].theirs = f.stats[c] /\ c \in DOMAIN rival.stats
    BY <1>4, <1>5, <1>6, <1>7
  <2>2. r.rows[c].theirs.p99 \in Nat
    BY <1>4 DEF R!RivalStats
  <2> QED
    BY <1>3, <2>1, <2>2
<1> QED
  BY <1>2, <1>4, <1>5, <1>6, <1>8 DEF r, s, f

LEMMA FasterHelpsNot ==
  ASSUME NEW res, R!IsRivalRun(res), NEW rival, R!IsRivalRun(rival)
  PROVE  R!FasterRivalNeverHelps(res, rival)
<1> DEFINE r == R!CompareRival(res, rival)
           s == R!CompareRival(res, R!Faster(rival))
<1>1. /\ r.unit = s.unit /\ r.rivalUnit = s.rivalUnit /\ r.low = s.low /\ r.high = s.high
      /\ DOMAIN r.rows = DOMAIN s.rows
      /\ \A c \in DOMAIN r.rows :
           /\ r.rows[c].mine = s.rows[c].mine /\ r.rows[c].mine \in R!RivalStats
           /\ r.rows[c].theirs \in R!RivalStats /\ s.rows[c].theirs \in R!RivalStats
           /\ \A m \in {"p50", "p99"} :
                /\ s.rows[c].theirs[m] <= r.rows[c].theirs[m]
                /\ s.rows[c].theirs[m] > 0 <=> r.rows[c].theirs[m] > 0
  BY FasterCompared
<1>2. r.unit \in Int /\ r.rivalUnit \in Int
  BY RivalFields, Zenon
<1> HIDE DEF r, s
<1>3. ASSUME NEW v \in R!SlowReads(r)
      PROVE  v \in R!SlowReads(s)
  <2>1. PICK k \in (DOMAIN r.rows \cap R!ReadClasses) \X {"p50", "p99"} :
          LET mine == r.rows[k[1]].mine[k[2]]
              theirs == r.rows[k[1]].theirs[k[2]]
          IN /\ v = R!Finding("rival", k[1], k[2])
             /\ mine > 0 /\ theirs > 0 /\ theirs < R!ReadSpeedup * mine
    BY <1>3 DEF R!SlowReads
  <2>2. k \in (DOMAIN s.rows \cap R!ReadClasses) \X {"p50", "p99"} /\ k[1] \in DOMAIN r.rows /\ k[2] \in {"p50", "p99"}
    BY <1>1
  <2> DEFINE mine == r.rows[k[1]].mine[k[2]]
             theirs == r.rows[k[1]].theirs[k[2]]
             late == s.rows[k[1]].theirs[k[2]]
  <2>3. s.rows[k[1]].mine[k[2]] = mine /\ late <= theirs /\ (late > 0 <=> theirs > 0)
    BY <1>1, <2>2
  <2>4. mine \in Nat /\ theirs \in Nat /\ late \in Nat
    <3>1. /\ r.rows[k[1]].mine \in R!RivalStats /\ r.rows[k[1]].theirs \in R!RivalStats
          /\ s.rows[k[1]].theirs \in R!RivalStats
      BY <1>1, <2>2
    <3> QED
      BY <2>2, <3>1 DEF R!RivalStats
  <2>5. mine > 0 /\ late > 0 /\ late < R!ReadSpeedup * mine
    <3>1. mine > 0 /\ theirs > 0 /\ theirs < R!ReadSpeedup * mine
      BY <2>1
    <3> HIDE DEF mine, theirs, late
    <3> QED
      BY <2>3, <2>4, <3>1 DEF R!ReadSpeedup
  <2> QED
    BY <2>1, <2>2, <2>3, <2>5, Zenon DEF R!SlowReads
<1>4. "Write" \in DOMAIN r.rows => R!CommitCount(r) = R!CommitCount(s)
  BY <1>1 DEF R!CommitCount, R!Asked, R!CommitBand
<1>5. ASSUME "Write" \in DOMAIN r.rows, NEW v \in R!CommitRace(r)
      PROVE  v \in R!CommitRace(s)
  <2> DEFINE w == r.rows["Write"]
             x == s.rows["Write"]
  <2>1. /\ x.mine = w.mine /\ w.mine \in R!RivalStats /\ w.theirs \in R!RivalStats /\ x.theirs \in R!RivalStats
        /\ \A m \in {"p50", "p99"} :
             /\ x.theirs[m] <= w.theirs[m]
             /\ x.theirs[m] > 0 <=> w.theirs[m] > 0
    BY <1>1, <1>5
  <2>2. /\ R!Asked(r)
        /\ R!CommitSyncs(w.theirs.p50, r.rivalUnit) # R!Unprobed
        /\ \E m \in {"p50", "p99"} :
             /\ v = R!Finding("rival", "Write", m)
             /\ R!Over(R!CommitSyncs(w.mine[m], r.unit), R!CommitSyncs(w.theirs[m], r.rivalUnit))
    BY <1>5 DEF R!CommitRace
  <2>3. R!Asked(s)
    BY <1>1, <2>1, <2>2 DEF R!Asked
  <2>4. r.unit > 0 /\ r.rivalUnit > 0
    <3>1. R!CommitSyncs(w.mine.p50, r.unit) # R!Unprobed
      BY <2>2 DEF R!Asked
    <3>2. w.mine.p50 \in Nat /\ w.theirs.p50 \in Nat
      BY <2>1 DEF R!RivalStats
    <3> HIDE DEF w
    <3> QED
      BY <1>2, <2>2, <3>1, <3>2, SyncsCompare
  <2>5. R!CommitSyncs(x.theirs.p50, s.rivalUnit) # R!Unprobed
    <3>1. w.theirs.p50 \in Nat /\ x.theirs.p50 \in Nat
      BY <2>1 DEF R!RivalStats
    <3>2. w.theirs.p50 > 0
      BY <1>2, <2>2, <3>1, SyncsCompare
    <3>3. x.theirs.p50 > 0
      BY <2>1, <3>2
    <3> QED
      BY <1>1, <1>2, <2>4, <3>1, <3>3, SyncsCompare
  <2> HIDE DEF w, x
  <2>6. PICK m \in {"p50", "p99"} :
             /\ v = R!Finding("rival", "Write", m)
             /\ R!Over(R!CommitSyncs(w.mine[m], r.unit), R!CommitSyncs(w.theirs[m], r.rivalUnit))
    BY <2>2
  <2>7. R!Over(R!CommitSyncs(x.mine[m], s.unit), R!CommitSyncs(x.theirs[m], s.rivalUnit))
    <3> DEFINE a == w.mine[m]
               b == w.theirs[m]
               c == x.theirs[m]
    <3>1. a \in Nat /\ b \in Nat /\ c \in Nat /\ c <= b /\ (c > 0 <=> b > 0) /\ x.mine[m] = a
      <4>1. m = "p50" \/ m = "p99"
        OBVIOUS
      <4>2. a \in Nat /\ b \in Nat /\ c \in Nat
        BY <2>1, <4>1 DEF R!RivalStats
      <4>3. x.theirs[m] <= w.theirs[m] /\ (x.theirs[m] > 0 <=> w.theirs[m] > 0) /\ x.mine = w.mine
        BY <2>1
      <4> QED
        BY <4>2, <4>3
    <3>2. R!Over(R!CommitSyncs(a, r.unit), R!CommitSyncs(b, r.rivalUnit))
      BY <2>6
    <3> HIDE DEF a, b, c
    <3>3. R!Over(R!CommitSyncs(a, r.unit), R!CommitSyncs(c, r.rivalUnit))
      <4>1. CASE b = 0
        BY <3>1, <3>2, <4>1
      <4>2. CASE a = 0
        <5>1. R!CommitSyncs(a, r.unit) = <<0, 1>>
          BY <4>2 DEF R!CommitSyncs, R!Unprobed
        <5>2. R!CommitSyncs(b, r.rivalUnit) = <<b, r.rivalUnit>> \/ R!CommitSyncs(b, r.rivalUnit) = <<0, 1>>
          BY DEF R!CommitSyncs, R!Unprobed
        <5> QED
          BY <1>2, <2>4, <3>1, <3>2, <5>1, <5>2 DEF R!Over
      <4>3. CASE a > 0 /\ b > 0
        <5>1. /\ R!CommitSyncs(a, r.unit) = <<a, r.unit>> /\ R!CommitSyncs(b, r.rivalUnit) = <<b, r.rivalUnit>>
              /\ R!CommitSyncs(c, r.rivalUnit) = <<c, r.rivalUnit>>
          BY <1>2, <2>4, <3>1, <4>3 DEF R!CommitSyncs
        <5>2. a * r.rivalUnit > b * r.unit
          BY <3>2, <5>1 DEF R!Over
        <5>3. c * r.unit <= b * r.unit /\ c * r.unit \in Nat /\ b * r.unit \in Nat /\ a * r.rivalUnit \in Nat
          <6> DEFINE ours == r.unit
                     theirs == r.rivalUnit
          <6>1. a \in Nat /\ b \in Nat /\ c \in Nat /\ c <= b /\ ours \in Nat /\ theirs \in Nat
            BY <1>2, <2>4, <3>1
          <6> HIDE DEF ours, theirs
          <6>2. c * ours <= b * ours /\ c * ours \in Nat /\ b * ours \in Nat
            BY <6>1, ProductsGrow
          <6>3. a * theirs \in Nat
            BY <6>1, ProductsGrow
          <6> QED
            BY <6>2, <6>3 DEF ours, theirs
        <5>4. a * r.rivalUnit > c * r.unit
          BY <5>2, <5>3
        <5> QED
          BY <5>1, <5>4 DEF R!Over
      <4> QED
        BY <3>1, <4>1, <4>2, <4>3
    <3> QED
      BY <1>1, <3>1, <3>3 DEF c
  <2> QED
    BY <2>3, <2>5, <2>6, <2>7 DEF R!CommitRace, x
<1>6. R!Ruled(res, rival) \subseteq R!Ruled(res, R!Faster(rival))
  <2>1. \A v : v \in R!CheckRival(r) <=>
          v \in R!SlowReads(r) \/ ("Write" \in DOMAIN r.rows /\ (v \in R!CommitCount(r) \/ v \in R!CommitRace(r)))
    BY DEF R!CheckRival
  <2>2. \A v : v \in R!CheckRival(s) <=>
          v \in R!SlowReads(s) \/ ("Write" \in DOMAIN s.rows /\ (v \in R!CommitCount(s) \/ v \in R!CommitRace(s)))
    BY DEF R!CheckRival
  <2>3. \A v : v \in R!CheckRival(r) => v \in R!CheckRival(s)
    BY <1>1, <1>3, <1>4, <1>5, <2>1, <2>2
  <2> QED
    BY <2>3 DEF R!Ruled, r, s
<1>7. ASSUME "Write" \in DOMAIN R!CompareRival(res, res).rows
      PROVE  R!CommitRace(R!CompareRival(res, res)) = {}
  <2> DEFINE o == R!CompareRival(res, res)
             w == o.rows["Write"]
  <2>1. w.mine = w.theirs /\ w.mine \in R!RivalStats /\ o.unit \in Int
    BY <1>7, RivalFields
  <2>2. o.rivalUnit = o.unit
    BY DEF R!CompareRival
  <2>3. \A m \in {"p50", "p99"} :
          ~R!Over(R!CommitSyncs(w.mine[m], o.unit), R!CommitSyncs(w.theirs[m], o.rivalUnit))
    <3>1. \A m \in {"p50", "p99"} : w.mine[m] \in Nat
      BY <2>1 DEF R!RivalStats
    <3> HIDE DEF o
    <3> QED
      BY <2>1, <2>2, <3>1, SyncsCompare
  <2> HIDE DEF o
  <2>4. R!CommitRace(o) = {}
    BY <2>3 DEF R!CommitRace
  <2> QED
    BY <2>4 DEF o
<1> QED
  BY <1>6, <1>7 DEF R!FasterRivalNeverHelps

\* The verdict against a rival, for every two runs: which side drew the dearer probe
\* decides nothing on one machine, a commit is ruled over the ceiling only where the whole
\* band says so, and a faster rival never helps (rival.go).
THEOREM RivalVerdictIsFair == FiguresSpec => []RivalIsFair
<1>1. AskedInv => RivalIsFair
  <2> SUFFICES ASSUME AskedInv, Answered("rival")
               PROVE  /\ R!ProbesDoNotDecide(asked[1], asked[2])
                      /\ R!CeilingOutsideBand(asked[1], asked[2])
                      /\ R!FasterRivalNeverHelps(asked[1], asked[2])
    BY DEF RivalIsFair
  <2>1. R!IsRivalRun(asked[1]) /\ R!IsRivalRun(asked[2])
    BY FiguresAssumption DEF AskedInv, Answered
  <2> QED
    BY <2>1, ProbesDecideNothing, RuledOutsideBand, FasterHelpsNot
<1>2. FiguresSpec => []AskedInv
  BY AskedInvInit, AskedInvNext, PTL DEF FiguresSpec
<1> QED
  BY <1>1, <1>2, PTL

-----------------------------------------------------------------------------
(* Costs.                                                                    *)

LEMMA SameCardinality == \A Z : R!Cardinality(Z) = Cardinality(Z)
  BY DEF R!Cardinality, Cardinality
LEMMA SameFinite == \A Z : R!IsFiniteSet(Z) <=> IsFiniteSet(Z)
  BY DEF R!IsFiniteSet, IsFiniteSet

LEMMA CheapestIsRead ==
  ASSUME NEW side, R!IsReadings(side), NEW m \in {"cpu", "growth"}, R!BestCost(side, m).n > 0
  PROVE  \E i \in DOMAIN side : /\ R!CostOf(side[i], m).any
                                /\ R!CostOf(side[i], m).sum = R!BestCost(side, m).best
<1> DEFINE known == {i \in DOMAIN side : R!CostOf(side[i], m).any}
           sum == [i \in known |-> R!CostOf(side[i], m).sum]
           sums == {sum[i] : i \in known}
<1>1. known # {}
  <2>1. R!BestCost(side, m).n = R!Cardinality(known)
    BY DEF R!BestCost
  <2>2. Cardinality({}) = 0
    BY FS_EmptySet
  <2> HIDE DEF known
  <2> QED
    BY <2>1, <2>2, SameCardinality
<1>2. R!BestCost(side, m).best = R!Smallest({R!CostOf(side[i], m).sum : i \in known})
  BY <1>1 DEF R!BestCost
<1>3. {R!CostOf(side[i], m).sum : i \in known} = sums
  OBVIOUS
<1>4. \A i \in known : sum[i] \in Int
  <2> SUFFICES ASSUME NEW i \in known
               PROVE  R!CostOf(side[i], m).sum \in Int
    OBVIOUS
  <2>1. side[i].user \in Int /\ side[i].child \in Int /\ side[i].growth \in Int
    BY DEF R!IsReadings
  <2>2. CASE m = "cpu"
    BY <2>1, <2>2 DEF R!CostOf
  <2>3. CASE m = "growth"
    BY <2>1, <2>3 DEF R!CostOf
  <2> QED
    BY <2>2, <2>3
<1>5. IsFiniteSet(sums)
  <2>1. IsFiniteSet(known)
    <3>1. known \in SUBSET DOMAIN side /\ IsFiniteSet(DOMAIN side)
      BY SameFinite DEF R!IsReadings
    <3> HIDE DEF known
    <3> QED
      BY <3>1, FS_Subset
  <2>2. sum = [i \in known |-> sum[i]]
    OBVIOUS
  <2> HIDE DEF sum, known
  <2> QED
    BY <2>1, <2>2, FewValues
<1>6. \E x \in sums : \A y \in sums : x <= y
  <2>1. sums \in SUBSET Int /\ sums # {}
    <3> HIDE DEF sum, known
    <3> QED
      BY <1>1, <1>4
  <2> HIDE DEF sums
  <2> QED
    BY <1>5, <2>1, HasLeast
<1>7. R!Smallest(sums) \in sums
  <2> HIDE DEF sums
  <2> QED
    BY <1>6 DEF R!Smallest
<1>8. PICK i \in known : sum[i] = R!Smallest(sums)
  BY <1>7
<1>9. i \in DOMAIN side /\ R!CostOf(side[i], m).any /\ R!CostOf(side[i], m).sum = sum[i]
  OBVIOUS
<1> HIDE DEF sum, sums, known
<1> QED
  BY <1>2, <1>3, <1>8, <1>9

LEMMA UnreadSavesNothing ==
  ASSUME NEW before, R!IsReadings(before), NEW after, R!IsReadings(after)
  PROVE  R!UnknownIsNoSaving(before, after)
<1> SUFFICES ASSUME NEW r \in R!PairedCosts(before, after)
             PROVE  /\ \E i \in DOMAIN before : /\ R!CostOf(before[i], r.metric).any
                                                /\ R!CostOf(before[i], r.metric).sum = r.before.best
                    /\ \E i \in DOMAIN after : /\ R!CostOf(after[i], r.metric).any
                                               /\ R!CostOf(after[i], r.metric).sum = r.after.best
  BY DEF R!UnknownIsNoSaving
<1>1. /\ r.before.n > 0 /\ r.after.n > 0
      /\ \E m \in {"cpu", "growth"} :
           r = [metric |-> m, before |-> R!BestCost(before, m), after |-> R!BestCost(after, m)]
  BY DEF R!PairedCosts
<1>2. /\ r.metric \in {"cpu", "growth"}
      /\ r.before = R!BestCost(before, r.metric) /\ r.after = R!BestCost(after, r.metric)
  BY <1>1
<1> QED
  BY <1>1, <1>2, CheapestIsRead

-----------------------------------------------------------------------------
(* Factors, and the rows of a comparison in order.                           *)

IsFraction(f) == f \in (Nat \ {0}) \X (Nat \ {0})

LEMMA LeqTotal ==
  ASSUME NEW f, IsFraction(f), NEW g, IsFraction(g)
  PROVE  /\ R!Leq(f, g) \/ R!Leq(g, f)
         /\ R!Less(f, g) <=> ~R!Leq(g, f)
<1>1. f[1] \in Nat /\ f[2] \in Nat /\ g[1] \in Nat /\ g[2] \in Nat
  BY DEF IsFraction
<1>2. f[1] * g[2] \in Nat /\ g[1] * f[2] \in Nat
  BY <1>1, ProductsGrow
<1> QED
  BY <1>2 DEF R!Leq, R!Less

LEMMA CrossPasses ==
  ASSUME NEW a \in Nat, NEW b \in Nat, NEW c \in Nat, NEW d \in Nat, NEW x \in Nat, NEW y \in Nat,
         d > 0, a * d <= c * b, c * y <= x * d
  PROVE  a * y <= x * b
<1>1. /\ a * d \in Nat /\ c * b \in Nat /\ c * y \in Nat /\ x * d \in Nat /\ a * y \in Nat /\ x * b \in Nat
      /\ d >= 1
  BY ProductsGrow
<1>2. (a * d) * y <= (c * b) * y
  BY <1>1, ProductsGrow
<1>3. (c * y) * b <= (x * d) * b
  BY <1>1, ProductsGrow
<1>4. (a * y) * d <= (x * b) * d
  <2>1. (a * d) * y = (a * y) * d /\ (c * b) * y = (c * y) * b /\ (x * d) * b = (x * b) * d
    OBVIOUS
  <2>2. (a * y) * d \in Nat /\ (c * y) * b \in Nat /\ (x * b) * d \in Nat
    BY <1>1, ProductsGrow
  <2> QED
    BY <1>2, <1>3, <2>1, <2>2
<1> SUFFICES ASSUME x * b + 1 <= a * y
             PROVE  FALSE
  BY <1>1
<1>5. (x * b + 1) * d <= (a * y) * d /\ (x * b + 1) * d \in Nat /\ (a * y) * d \in Nat
  BY <1>1, ProductsGrow
<1>6. (x * b + 1) * d = (x * b) * d + d /\ (x * b) * d \in Nat
  BY <1>1, ProductsGrow
<1> QED
  BY <1>1, <1>4, <1>5, <1>6

LEMMA LeqPasses ==
  ASSUME NEW f, IsFraction(f), NEW g, IsFraction(g), NEW h, IsFraction(h), R!Leq(f, g), R!Leq(g, h)
  PROVE  R!Leq(f, h)
<1>1. f[1] \in Nat /\ f[2] \in Nat /\ g[1] \in Nat /\ g[2] \in Nat /\ h[1] \in Nat /\ h[2] \in Nat /\ g[2] > 0
  BY DEF IsFraction
<1>2. f[1] * g[2] <= g[1] * f[2] /\ g[1] * h[2] <= h[1] * g[2]
  BY DEF R!Leq
<1>3. f[1] * h[2] <= h[1] * f[2]
  BY <1>1, <1>2, CrossPasses
<1> QED
  BY <1>3 DEF R!Leq

\* Finitely many rows, each with a factor.
IsRows(rows) == IsFiniteSet(rows) /\ \A r \in rows : IsFraction(r.factor)
InOrder(rows) == {p \in rows \X rows : R!Leq(p[1].factor, p[2].factor)}

LEMMA RowsRank ==
  ASSUME NEW rows, IsRows(rows)
  PROVE  /\ Ranking(rows, InOrder(rows))
         /\ \A r, s \in rows : <<r, s>> \in InOrder(rows) <=> R!Leq(r.factor, s.factor)
<1>1. \A r, s \in rows : <<r, s>> \in InOrder(rows) <=> R!Leq(r.factor, s.factor)
  BY DEF InOrder
<1>2. \A r, s \in rows : R!Leq(r.factor, s.factor) \/ R!Leq(s.factor, r.factor)
  BY LeqTotal DEF IsRows
<1>3. \A r, s, t \in rows : R!Leq(r.factor, s.factor) /\ R!Leq(s.factor, t.factor) => R!Leq(r.factor, t.factor)
  BY LeqPasses DEF IsRows
<1> QED
  BY <1>1, <1>2, <1>3 DEF Ranking, IsRows

\* The factor at a rank is that of a row of this rank.
LEMMA AtRankIs ==
  ASSUME NEW rows, IsRows(rows), NEW k \in Nat, 1 <= k, k <= Cardinality(rows)
  PROVE  \E r \in rows : /\ R!AtRank(rows, k) = r.factor
                         /\ Cardinality(Below(rows, InOrder(rows), r)) < k
                         /\ k <= Cardinality(NotAbove(rows, InOrder(rows), r))
<1> DEFINE factors == {r.factor : r \in rows}
           less(f) == {r \in rows : R!Less(r.factor, f)}
           leq(f) == {r \in rows : R!Leq(r.factor, f)}
           at(f) == R!Cardinality(less(f)) < k /\ k <= R!Cardinality(leq(f))
<1>1. \A r \in rows : /\ Below(rows, InOrder(rows), r) = less(r.factor)
                      /\ NotAbove(rows, InOrder(rows), r) = leq(r.factor)
  <2> SUFFICES ASSUME NEW r \in rows
               PROVE  /\ Below(rows, InOrder(rows), r) = less(r.factor)
                      /\ NotAbove(rows, InOrder(rows), r) = leq(r.factor)
    OBVIOUS
  <2>1. \A s \in rows : (<<r, s>> \notin InOrder(rows)) <=> R!Less(s.factor, r.factor)
    BY RowsRank, LeqTotal DEF IsRows
  <2>2. \A s \in rows : <<s, r>> \in InOrder(rows) <=> R!Leq(s.factor, r.factor)
    BY RowsRank
  <2> QED
    BY <2>1, <2>2 DEF Below, NotAbove
<1>2. PICK r \in rows : /\ Cardinality(Below(rows, InOrder(rows), r)) < k
                        /\ k <= Cardinality(NotAbove(rows, InOrder(rows), r))
  BY RowsRank, RankExists
<1>3. r.factor \in factors /\ at(r.factor)
  BY <1>1, <1>2, SameCardinality
<1>4. R!AtRank(rows, k) = CHOOSE f \in factors : at(f)
  BY DEF R!AtRank
<1>5. R!AtRank(rows, k) \in factors /\ at(R!AtRank(rows, k))
  <2> HIDE DEF factors, at
  <2> QED
    BY <1>3, <1>4
<1>6. PICK s \in rows : R!AtRank(rows, k) = s.factor
  BY <1>5
<1> QED
  BY <1>1, <1>5, <1>6, SameCardinality

LEMMA RanksInOrder ==
  ASSUME NEW rows, IsRows(rows), NEW j \in Nat, NEW k \in Nat, 1 <= j, j <= k, k <= Cardinality(rows)
  PROVE  R!Leq(R!AtRank(rows, j), R!AtRank(rows, k))
<1>0. Cardinality(rows) \in Nat
  BY FS_CardinalityType DEF IsRows
<1>1. PICK r \in rows : /\ R!AtRank(rows, j) = r.factor
                        /\ Cardinality(Below(rows, InOrder(rows), r)) < j
  BY <1>0, AtRankIs
<1>2. PICK s \in rows : /\ R!AtRank(rows, k) = s.factor
                        /\ k <= Cardinality(NotAbove(rows, InOrder(rows), s))
  BY <1>0, AtRankIs
<1>3. <<r, s>> \in InOrder(rows)
  BY <1>1, <1>2, RowsRank, RanksRise
<1> QED
  BY <1>1, <1>2, <1>3, RowsRank

LEMMA LastRankIsWorst ==
  ASSUME NEW rows, IsRows(rows), rows # {}
  PROVE  LET n == Cardinality(rows)
         IN /\ n \in Nat /\ 1 <= n
            /\ \E r \in rows : R!AtRank(rows, n) = r.factor
            /\ \A r \in rows : R!Leq(r.factor, R!AtRank(rows, n))
<1>1. Cardinality(rows) \in Nat /\ 1 <= Cardinality(rows)
  <2>1. Cardinality(rows) \in Nat /\ (Cardinality(rows) = 0 <=> rows = {})
    BY FS_CardinalityType, FS_EmptySet DEF IsRows
  <2> QED
    BY <2>1
<1>2. PICK r \in rows : /\ R!AtRank(rows, Cardinality(rows)) = r.factor
                        /\ Cardinality(rows) <= Cardinality(NotAbove(rows, InOrder(rows), r))
  BY <1>1, AtRankIs
<1>3. NotAbove(rows, InOrder(rows), r) = rows
  <2>1. NotAbove(rows, InOrder(rows), r) \in SUBSET rows
    BY DEF NotAbove
  <2> QED
    BY <1>2, <2>1, CountsParts DEF IsRows
<1>4. \A s \in rows : R!Leq(s.factor, r.factor)
  BY <1>3, RowsRank DEF NotAbove
<1> QED
  BY <1>1, <1>2, <1>4

-----------------------------------------------------------------------------
(* The noise of repeated runs.                                               *)

LEMMA RunsAre ==
  ASSUME NEW runs, R!IsRuns(runs)
  PROVE  /\ Len(runs) \in Nat /\ DOMAIN runs = 1..Len(runs) /\ IsFiniteSet(DOMAIN runs)
         /\ runs = [i \in DOMAIN runs |-> runs[i]]
         /\ \A i \in DOMAIN runs :
              /\ IsFiniteSet(DOMAIN runs[i])
              /\ \A q \in DOMAIN runs[i] : R!IsRunStat(runs[i][q])
<1>1. Len(runs) \in Nat /\ DOMAIN runs = 1..Len(runs) /\ runs = [i \in 1..Len(runs) |-> runs[i]]
  BY DEF R!IsRuns
<1>2. IsFiniteSet(1..Len(runs))
  BY <1>1, FS_Interval
<1>3. \A i \in DOMAIN runs : R!IsRun(runs[i])
  BY DEF R!IsRuns
<1> QED
  BY <1>1, <1>2, <1>3, SameFinite DEF R!IsRun

LEMMA MetricIsNat ==
  ASSUME NEW stat, R!IsRunStat(stat), NEW m \in {"min", "p50", "p99"}
  PROVE  R!Metric(stat, m) \in Nat
<1>1. stat.min \in Nat /\ stat.p50 \in Nat /\ stat.p99 \in Nat
  BY DEF R!IsRunStat
<1>2. CASE m = "min"
  BY <1>1, <1>2 DEF R!Metric
<1>3. CASE m = "p50"
  BY <1>1, <1>3 DEF R!Metric
<1>4. CASE m = "p99"
  BY <1>1, <1>4 DEF R!Metric
<1> QED
  BY <1>2, <1>3, <1>4

\* What the runs read of one metric: finitely many numbers above zero, with a least and
\* a greatest.
LEMMA ReadingsAre ==
  ASSUME NEW runs, R!IsRuns(runs), NEW q, NEW m \in {"min", "p50", "p99"}, R!Measured(runs, q, m) # {}
  PROVE  LET low == R!Smallest(R!Readings(runs, q, m))
             high == R!Greatest(R!Readings(runs, q, m))
         IN /\ low \in Nat \ {0} /\ high \in Nat \ {0} /\ low \in R!Readings(runs, q, m)
            /\ \A i \in R!Measured(runs, q, m) :
                 /\ R!Metric(runs[i][q], m) \in Nat
                 /\ low <= R!Metric(runs[i][q], m) /\ R!Metric(runs[i][q], m) <= high
<1> DEFINE at == R!Measured(runs, q, m)
           read == [i \in at |-> R!Metric(runs[i][q], m)]
           all == {read[i] : i \in at}
<1>1. all = R!Readings(runs, q, m)
  BY DEF R!Readings
<1>2. at \in SUBSET DOMAIN runs /\ \A i \in at : q \in DOMAIN runs[i] /\ read[i] > 0
  BY DEF R!Measured
<1>3. \A i \in at : read[i] \in Nat
  <2> SUFFICES ASSUME NEW i \in at
               PROVE  R!Metric(runs[i][q], m) \in Nat
    OBVIOUS
  <2>1. R!IsRunStat(runs[i][q])
    BY <1>2, RunsAre
  <2> QED
    BY <2>1, MetricIsNat
<1>4. IsFiniteSet(all)
  <2>1. IsFiniteSet(at)
    BY <1>2, RunsAre, FS_Subset
  <2>2. read = [i \in at |-> read[i]]
    OBVIOUS
  <2> HIDE DEF at, read
  <2> QED
    BY <2>1, <2>2, FewValues
<1>5. \A i \in at : read[i] = R!Metric(runs[i][q], m)
  OBVIOUS
<1> HIDE DEF read
<1>6. all \in SUBSET Int /\ all # {} /\ \A x \in all : x \in Nat \ {0}
  BY <1>2, <1>3
<1>7. \A i \in at : R!Metric(runs[i][q], m) \in all
  BY <1>5
<1> HIDE DEF all, at
<1>8. R!Smallest(all) \in all /\ \A x \in all : R!Smallest(all) <= x
  BY <1>4, <1>6, HasLeast DEF R!Smallest
<1>9. R!Greatest(all) \in all /\ \A x \in all : x <= R!Greatest(all)
  BY <1>4, <1>6, HasMost DEF R!Greatest
<1> QED
  BY <1>1, <1>6, <1>7, <1>8, <1>9 DEF at

LEMMA QueriesAreFew ==
  ASSUME NEW runs, R!IsRuns(runs)
  PROVE  /\ IsFiniteSet(R!QueriesOf(runs))
         /\ \A i \in DOMAIN runs : \A q \in DOMAIN runs[i] : q \in R!QueriesOf(runs)
<1> DEFINE domain == [i \in DOMAIN runs |-> DOMAIN runs[i]]
           domains == {domain[i] : i \in DOMAIN runs}
<1>1. R!QueriesOf(runs) = UNION domains
  BY DEF R!QueriesOf
<1>2. domain = [i \in DOMAIN runs |-> domain[i]] /\ \A i \in DOMAIN runs : domain[i] = DOMAIN runs[i]
  OBVIOUS
<1> HIDE DEF domain
<1>3. IsFiniteSet(domains)
  BY <1>2, RunsAre, FewValues
<1>4. \A T \in domains : IsFiniteSet(T)
  BY <1>2, RunsAre
<1>5. \A i \in DOMAIN runs : DOMAIN runs[i] \in domains
  BY <1>2
<1> HIDE DEF domains
<1>6. IsFiniteSet(UNION domains)
  BY <1>3, <1>4, FS_UNION
<1> QED
  BY <1>1, <1>5, <1>6

LEMMA SpreadsAreRows ==
  ASSUME NEW runs, R!IsRuns(runs)
  PROVE  /\ IsRows(R!Spreads(runs))
         /\ \A s \in R!Spreads(runs) : R!Leq(R!One, s.factor)
<1> DEFINE K == {k \in R!QueriesOf(runs) \X {"p50", "p99"} : R!Cardinality(R!Measured(runs, k[1], k[2])) >= 2}
           spread == [k \in K |-> [query |-> k[1], metric |-> k[2],
                                   factor |-> <<R!Greatest(R!Readings(runs, k[1], k[2])),
                                                R!Smallest(R!Readings(runs, k[1], k[2]))>>]]
<1>1. R!Spreads(runs) = {spread[k] : k \in K}
  BY DEF R!Spreads
<1>2. IsFiniteSet(K)
  <2>1. IsFiniteSet({"p50", "p99"})
    <3>1. {"p50", "p99"} = {"p50"} \cup {"p99"}
      OBVIOUS
    <3>2. IsFiniteSet({"p50"})
      BY FS_Singleton
    <3>3. IsFiniteSet({"p50"} \cup {"p99"})
      BY <3>2, FS_AddElement
    <3> QED
      BY <3>1, <3>3
  <2>2. IsFiniteSet(R!QueriesOf(runs) \X {"p50", "p99"})
    BY <2>1, QueriesAreFew, FS_Product
  <2> QED
    BY <2>2, FS_Subset
<1>3. IsFiniteSet({spread[k] : k \in K})
  <2>1. spread = [k \in K |-> spread[k]]
    OBVIOUS
  <2> HIDE DEF spread, K
  <2> QED
    BY <1>2, <2>1, FewValues
<1>4. ASSUME NEW k \in K
      PROVE  IsFraction(spread[k].factor) /\ R!Leq(R!One, spread[k].factor)
  <2> DEFINE low == R!Smallest(R!Readings(runs, k[1], k[2]))
             high == R!Greatest(R!Readings(runs, k[1], k[2]))
             at == R!Measured(runs, k[1], k[2])
  <2>1. spread[k].factor = <<high, low>>
    OBVIOUS
  <2>2. k[2] \in {"min", "p50", "p99"} /\ R!Cardinality(at) >= 2
    OBVIOUS
  <2>3. at # {}
    BY <2>2, SameCardinality, FS_EmptySet
  <2>4. /\ low \in Nat \ {0} /\ high \in Nat \ {0}
        /\ \A i \in at : R!Metric(runs[i][k[1]], k[2]) \in Nat /\ low <= R!Metric(runs[i][k[1]], k[2])
                         /\ R!Metric(runs[i][k[1]], k[2]) <= high
    <3> HIDE DEF spread, K
    <3> QED
      BY <2>2, <2>3, ReadingsAre
  <2> HIDE DEF low, high, at, spread, K
  <2>5. low <= high
    BY <2>3, <2>4
  <2> QED
    BY <2>1, <2>4, <2>5 DEF IsFraction, R!Leq, R!One
<1> HIDE DEF spread, K
<1> QED
  BY <1>1, <1>3, <1>4 DEF IsRows

\* Two runs that measured a query have a spread, and it covers both of them.
LEMMA SpreadCovers ==
  ASSUME NEW runs, R!IsRuns(runs), NEW i \in DOMAIN runs, NEW j \in DOMAIN runs, i # j,
         NEW q, NEW m \in {"p50", "p99"}, i \in R!Measured(runs, q, m), j \in R!Measured(runs, q, m)
  PROVE  \E s \in R!Spreads(runs) :
           R!Leq(<<R!Metric(runs[i][q], m), R!Metric(runs[j][q], m)>>, s.factor)
<1> DEFINE at == R!Measured(runs, q, m)
           low == R!Smallest(R!Readings(runs, q, m))
           high == R!Greatest(R!Readings(runs, q, m))
           s == [query |-> q, metric |-> m, factor |-> <<high, low>>]
           late == R!Metric(runs[i][q], m)
           was == R!Metric(runs[j][q], m)
<1>1. Cardinality(at) >= 2
  <2>1. at \in SUBSET DOMAIN runs
    BY DEF R!Measured
  <2>2. IsFiniteSet(at) /\ Cardinality(at) \in Nat
    BY <2>1, RunsAre, FS_Subset, FS_CardinalityType
  <2>3. IsFiniteSet({i}) /\ Cardinality({i}) = 1
    BY FS_Singleton
  <2>4. Cardinality({i} \cup {j}) = 2
    BY <2>3, FS_AddElement
  <2>5. {i} \cup {j} \in SUBSET at
    OBVIOUS
  <2> HIDE DEF at
  <2> QED
    BY <2>2, <2>4, <2>5, FS_Subset
<1>2. s \in R!Spreads(runs)
  <2>1. q \in R!QueriesOf(runs)
    BY QueriesAreFew DEF R!Measured
  <2>2. R!Cardinality(at) >= 2
    BY <1>1, SameCardinality
  <2>3. <<q, m>> \in {k \in R!QueriesOf(runs) \X {"p50", "p99"} : R!Cardinality(R!Measured(runs, k[1], k[2])) >= 2}
    BY <2>1, <2>2
  <2> QED
    BY <2>3 DEF R!Spreads
<1>3. /\ late \in Nat /\ was \in Nat /\ low \in Nat /\ high \in Nat
      /\ late <= high /\ low <= was
  <2>1. at # {} /\ m \in {"min", "p50", "p99"}
    OBVIOUS
  <2> QED
    BY <2>1, ReadingsAre
<1> HIDE DEF late, was, low, high
<1>4. R!Leq(<<late, was>>, <<high, low>>)
  BY <1>3, ProductsGrow DEF R!Leq
<1> QED
  BY <1>2, <1>4 DEF late, was

LEMMA RanksOfNoise ==
  \A n \in Nat : n >= 1 =>
    /\ R!NearestRank(50, n) \in Nat /\ R!NearestRank(90, n) \in Nat
    /\ 1 <= R!NearestRank(50, n) /\ R!NearestRank(50, n) <= R!NearestRank(90, n) /\ R!NearestRank(90, n) <= n
    /\ R!NearestRank(100, n) = n
  BY DEF R!NearestRank

LEMMA FloorCovers ==
  ASSUME NEW runs, R!IsRuns(runs)
  PROVE  R!FloorCoversRuns(runs)
<1> DEFINE spreads == R!Spreads(runs)
           n == Cardinality(spreads)
           noise == R!MeasureNoise(runs, 100)
           median == R!MeasureNoise(runs, 50)
           usual == R!MeasureNoise(runs, 0)
<1>1. IsRows(spreads) /\ \A s \in spreads : R!Leq(R!One, s.factor)
  BY SpreadsAreRows
<1>2. IsFraction(R!One)
  BY DEF IsFraction, R!One
<1>3. Len(runs) \in Nat /\ DOMAIN runs = 1..Len(runs)
  BY RunsAre
<1>4. R!Leq(R!One, R!One)
  BY DEF R!Leq, R!One
<1> DEFINE ordered == /\ R!Leq(noise.floor, noise.worst) /\ R!Leq(noise.worst, noise.floor)
                      /\ R!Leq(R!One, median.floor) /\ R!Leq(median.floor, usual.floor)
                      /\ R!Leq(usual.floor, noise.floor)
           above == /\ IsFraction(noise.floor) /\ R!Leq(R!One, noise.floor)
                    /\ Len(runs) >= 2 => \A s \in spreads : R!Leq(s.factor, noise.floor)
<1>5. ordered /\ above
  <2>1. CASE Len(runs) < 2 \/ spreads = {}
    <3>1. noise.floor = R!One /\ noise.worst = R!One /\ median.floor = R!One /\ usual.floor = R!One
      BY <2>1 DEF R!MeasureNoise
    <3> HIDE DEF noise, median, usual
    <3> QED
      BY <1>2, <1>3, <1>4, <2>1, <3>1
  <2>2. CASE ~(Len(runs) < 2 \/ spreads = {})
    <3>1. n \in Nat /\ 1 <= n
      BY <1>1, <2>2, LastRankIsWorst
    <3>2. R!Cardinality(spreads) = n
      BY SameCardinality
    <3>3. /\ R!Pct(spreads, 100) = R!AtRank(spreads, R!NearestRank(100, n))
          /\ R!Pct(spreads, 90) = R!AtRank(spreads, R!NearestRank(90, n))
          /\ R!Pct(spreads, 50) = R!AtRank(spreads, R!NearestRank(50, n))
      BY <3>2 DEF R!Pct
    <3>4. /\ noise.floor = R!Pct(spreads, 100) /\ noise.worst = R!AtRank(spreads, R!Cardinality(spreads))
          /\ median.floor = R!Pct(spreads, 50) /\ usual.floor = R!Pct(spreads, 90)
      BY <2>2 DEF R!MeasureNoise
    <3> DEFINE j == R!NearestRank(50, n)
               k == R!NearestRank(90, n)
    <3>5. j \in Nat /\ k \in Nat /\ 1 <= j /\ j <= k /\ k <= n /\ R!NearestRank(100, n) = n
      BY <3>1, RanksOfNoise
    <3>6. /\ noise.floor = R!AtRank(spreads, n) /\ noise.worst = R!AtRank(spreads, n)
          /\ median.floor = R!AtRank(spreads, j) /\ usual.floor = R!AtRank(spreads, k)
      BY <3>2, <3>3, <3>4, <3>5
    <3> HIDE DEF j, k, noise, median, usual
    <3>7. R!Leq(R!AtRank(spreads, j), R!AtRank(spreads, k)) /\ R!Leq(R!AtRank(spreads, k), R!AtRank(spreads, n))
      BY <1>1, <3>1, <3>5, RanksInOrder
    <3>8. /\ IsFraction(R!AtRank(spreads, n)) /\ R!Leq(R!One, R!AtRank(spreads, n))
          /\ \A s \in spreads : R!Leq(s.factor, R!AtRank(spreads, n))
      BY <1>1, <2>2, LastRankIsWorst DEF IsRows
    <3>9. R!Leq(R!One, R!AtRank(spreads, j))
      <4>1. PICK r \in spreads : R!AtRank(spreads, j) = r.factor
        BY <1>1, <3>1, <3>5, AtRankIs
      <4> QED
        BY <1>1, <4>1
    <3>10. R!Leq(R!AtRank(spreads, n), R!AtRank(spreads, n))
      BY <1>1, <3>1, RanksInOrder
    <3> QED
      BY <3>6, <3>7, <3>8, <3>9, <3>10
  <2> QED
    BY <2>1, <2>2
<1>6. ASSUME NEW i \in DOMAIN runs, NEW j \in DOMAIN runs, NEW q \in DOMAIN runs[i] \cap DOMAIN runs[j],
             NEW m \in {"p50", "p99"}, runs[i][q].count > 0, runs[j][q].count > 0,
             R!Metric(runs[i][q], m) > 0, R!Metric(runs[j][q], m) > 0
      PROVE  R!Leq(<<R!Metric(runs[i][q], m), R!Metric(runs[j][q], m)>>, noise.floor)
  <2> DEFINE late == R!Metric(runs[i][q], m)
             was == R!Metric(runs[j][q], m)
  <2>1. i \in R!Measured(runs, q, m) /\ j \in R!Measured(runs, q, m)
    BY <1>6 DEF R!Measured
  <2>2. late \in Nat \ {0} /\ was \in Nat \ {0}
    <3>1. R!IsRunStat(runs[i][q]) /\ R!IsRunStat(runs[j][q])
      BY RunsAre
    <3> QED
      BY <1>6, <3>1, MetricIsNat
  <2>3. CASE i = j
    <3>1. late = was
      BY <2>3
    <3> HIDE DEF late, was, noise
    <3>2. IsFraction(<<late, was>>) /\ R!Leq(<<late, was>>, R!One)
      BY <2>2, <3>1 DEF IsFraction, R!Leq, R!One
    <3>3. R!Leq(<<late, was>>, noise.floor)
      BY <1>2, <1>5, <3>2, LeqPasses
    <3> QED
      BY <3>3 DEF late, was
  <2>4. CASE i # j
    <3>1. PICK s \in spreads : R!Leq(<<late, was>>, s.factor)
      BY <2>1, <2>4, SpreadCovers
    <3> HIDE DEF late, was, noise
    <3>2. IsFraction(<<late, was>>) /\ IsFraction(s.factor)
      BY <1>1, <2>2 DEF IsFraction, IsRows
    <3>3. Len(runs) >= 2
      BY <1>3, <2>4
    <3>4. R!Leq(<<late, was>>, noise.floor)
      BY <1>5, <3>1, <3>2, <3>3, LeqPasses
    <3> QED
      BY <3>4 DEF late, was
  <2> QED
    BY <2>3, <2>4
<1> HIDE DEF noise, median, usual
<1>7. R!CoversRuns(noise, median, usual, runs)
  BY <1>5, <1>6 DEF R!CoversRuns
<1> QED
  BY <1>7 DEF R!FloorCoversRuns, noise, median, usual

-----------------------------------------------------------------------------
(* Two builds, paired.                                                       *)

Best(side, w) == R!BestPerQuery(side[w], "min")

LEMMA BestIs ==
  ASSUME NEW side, R!IsSide(side), NEW w \in DOMAIN side
  PROVE  IsFiniteSet(DOMAIN Best(side, w)) /\ \A q \in DOMAIN Best(side, w) : Best(side, w)[q] \in Nat \ {0}
<1> DEFINE runs == side[w]
           has == {q \in R!QueriesOf(runs) : R!Readings(runs, q, "min") # {}}
<1>1. R!IsRuns(runs)
  BY DEF R!IsSide
<1>2. Best(side, w) = [q \in has |-> R!Smallest(R!Readings(runs, q, "min"))]
  BY DEF Best, R!BestPerQuery
<1> HIDE DEF runs
<1>3. IsFiniteSet(has)
  BY <1>1, QueriesAreFew, FS_Subset
<1>4. \A q \in has : R!Measured(runs, q, "min") # {}
  BY DEF R!Readings
<1>5. \A q \in has : R!Smallest(R!Readings(runs, q, "min")) \in Nat \ {0}
  BY <1>1, <1>4, ReadingsAre
<1> HIDE DEF has
<1> QED
  BY <1>2, <1>3, <1>5

LEMMA RowIs ==
  ASSUME NEW before, NEW after, NEW r
  PROVE  r \in R!PairedRows(before, after, "min") <=>
           \E w \in DOMAIN before \cap DOMAIN after :
             \E q \in DOMAIN Best(before, w) \cap DOMAIN Best(after, w) :
               r = [workload |-> w, query |-> q, factor |-> <<Best(after, w)[q], Best(before, w)[q]>>]
  BY DEF R!PairedRows, Best

LEMMA PairedAreRows ==
  ASSUME NEW before, R!IsSide(before), NEW after, R!IsSide(after)
  PROVE  IsRows(R!PairedRows(before, after, "min"))
<1> DEFINE W == DOMAIN before \cap DOMAIN after
           AskedOf(w) == DOMAIN Best(before, w) \cap DOMAIN Best(after, w)
           row(w) == [q \in AskedOf(w) |-> [workload |-> w, query |-> q,
                                      factor |-> <<Best(after, w)[q], Best(before, w)[q]>>]]
           rows == [w \in W |-> {row(w)[q] : q \in AskedOf(w)}]
           all == {rows[w] : w \in W}
<1>1. IsFiniteSet(W)
  BY SameFinite, FS_Subset DEF R!IsSide
<1>2. \A w \in W : IsFiniteSet(rows[w])
  <2> SUFFICES ASSUME NEW w \in W
               PROVE  IsFiniteSet({row(w)[q] : q \in AskedOf(w)})
    OBVIOUS
  <2>1. IsFiniteSet(AskedOf(w))
    <3>1. IsFiniteSet(DOMAIN Best(before, w)) /\ AskedOf(w) \in SUBSET DOMAIN Best(before, w)
      BY BestIs
    <3> HIDE DEF AskedOf
    <3> QED
      BY <3>1, FS_Subset
  <2>2. row(w) = [q \in AskedOf(w) |-> row(w)[q]]
    OBVIOUS
  <2> HIDE DEF AskedOf, row
  <2> QED
    BY <2>1, <2>2, FewValues
<1>3. IsFiniteSet(UNION all)
  <2>1. rows = [w \in W |-> rows[w]]
    OBVIOUS
  <2> HIDE DEF rows, W
  <2>2. IsFiniteSet(all)
    BY <1>1, <2>1, FewValues
  <2>3. \A T \in all : IsFiniteSet(T)
    BY <1>2
  <2> HIDE DEF all
  <2> QED
    BY <2>2, <2>3, FS_UNION
<1>4. \A r \in R!PairedRows(before, after, "min") : r \in UNION all
  <2> SUFFICES ASSUME NEW r \in R!PairedRows(before, after, "min")
               PROVE  \E w \in W : r \in rows[w]
    OBVIOUS
  <2>0. PICK w \in W : \E q \in AskedOf(w) :
          r = [workload |-> w, query |-> q, factor |-> <<Best(after, w)[q], Best(before, w)[q]>>]
    BY RowIs
  <2>1. PICK q \in AskedOf(w) : r = [workload |-> w, query |-> q, factor |-> <<Best(after, w)[q], Best(before, w)[q]>>]
    BY <2>0
  <2>2. r = row(w)[q]
    BY <2>1
  <2>3. r \in {row(w)[x] : x \in AskedOf(w)}
    <3> HIDE DEF row, AskedOf
    <3> QED
      BY <2>1, <2>2
  <2> QED
    BY <2>3
<1>5. \A r \in R!PairedRows(before, after, "min") : IsFraction(r.factor)
  <2> SUFFICES ASSUME NEW r \in R!PairedRows(before, after, "min")
               PROVE  IsFraction(r.factor)
    OBVIOUS
  <2>0. PICK w \in W : \E q \in AskedOf(w) :
          r = [workload |-> w, query |-> q, factor |-> <<Best(after, w)[q], Best(before, w)[q]>>]
    BY RowIs
  <2>1. PICK q \in AskedOf(w) : r = [workload |-> w, query |-> q, factor |-> <<Best(after, w)[q], Best(before, w)[q]>>]
    BY <2>0
  <2>2. Best(after, w)[q] \in Nat \ {0} /\ Best(before, w)[q] \in Nat \ {0}
    BY BestIs
  <2> QED
    BY <2>1, <2>2 DEF IsFraction
<1> HIDE DEF all
<1> QED
  BY <1>3, <1>4, <1>5, FS_Subset DEF IsRows

\* Swapping the sides turns each row over.
LEMMA SwappedRows ==
  ASSUME NEW before, NEW after
  PROVE  R!PairedRows(before, after, "min")
           = {[r EXCEPT !.factor = <<r.factor[2], r.factor[1]>>] : r \in R!PairedRows(after, before, "min")}
<1> DEFINE there == R!PairedRows(before, after, "min")
           back == R!PairedRows(after, before, "min")
           over(r) == [r EXCEPT !.factor = <<r.factor[2], r.factor[1]>>]
<1>1. \A w, q, x, y : over([workload |-> w, query |-> q, factor |-> <<x, y>>])
                        = [workload |-> w, query |-> q, factor |-> <<y, x>>]
  OBVIOUS
<1>2. \A r : r \in there <=>
        \E w \in DOMAIN before \cap DOMAIN after :
          \E q \in DOMAIN Best(before, w) \cap DOMAIN Best(after, w) :
            r = [workload |-> w, query |-> q, factor |-> <<Best(after, w)[q], Best(before, w)[q]>>]
  BY RowIs
<1>3. \A r : r \in back <=>
        \E w \in DOMAIN before \cap DOMAIN after :
          \E q \in DOMAIN Best(before, w) \cap DOMAIN Best(after, w) :
            r = [workload |-> w, query |-> q, factor |-> <<Best(before, w)[q], Best(after, w)[q]>>]
  BY RowIs
<1> HIDE DEF there, back, over
<1>4. ASSUME NEW r \in there
      PROVE  \E s \in back : r = over(s)
  <2>0. PICK w \in DOMAIN before \cap DOMAIN after : \E q \in DOMAIN Best(before, w) \cap DOMAIN Best(after, w) :
          r = [workload |-> w, query |-> q, factor |-> <<Best(after, w)[q], Best(before, w)[q]>>]
    BY <1>2
  <2>1. PICK q \in DOMAIN Best(before, w) \cap DOMAIN Best(after, w) :
          r = [workload |-> w, query |-> q, factor |-> <<Best(after, w)[q], Best(before, w)[q]>>]
    BY <2>0
  <2>2. [workload |-> w, query |-> q, factor |-> <<Best(before, w)[q], Best(after, w)[q]>>] \in back
    BY <1>3
  <2> QED
    BY <1>1, <2>1, <2>2
<1>5. ASSUME NEW s \in back
      PROVE  over(s) \in there
  <2>0. PICK w \in DOMAIN before \cap DOMAIN after : \E q \in DOMAIN Best(before, w) \cap DOMAIN Best(after, w) :
          s = [workload |-> w, query |-> q, factor |-> <<Best(before, w)[q], Best(after, w)[q]>>]
    BY <1>3
  <2>1. PICK q \in DOMAIN Best(before, w) \cap DOMAIN Best(after, w) :
          s = [workload |-> w, query |-> q, factor |-> <<Best(before, w)[q], Best(after, w)[q]>>]
    BY <2>0
  <2>2. over(s) = [workload |-> w, query |-> q, factor |-> <<Best(after, w)[q], Best(before, w)[q]>>]
    BY <1>1, <2>1
  <2> QED
    BY <1>2, <2>2
<1>6. there = {over(s) : s \in back}
  BY <1>4, <1>5
<1> QED
  BY <1>6 DEF there, back, over

\* The runs of a side and a further one.
LEMMA FurtherRun ==
  ASSUME NEW runs, R!IsRuns(runs), NEW run, R!IsRun(run)
  PROVE  /\ R!IsRuns(Append(runs, run))
         /\ \A i \in DOMAIN runs : i \in DOMAIN Append(runs, run) /\ Append(runs, run)[i] = runs[i]
<1> DEFINE n == Len(runs)
           more == Append(runs, run)
           Z == {runs[i] : i \in 1..n} \cup {run}
<1>1. n \in Nat /\ DOMAIN runs = 1..n /\ runs = [i \in 1..n |-> runs[i]]
  BY RunsAre
<1>2. \A i \in 1..n : runs[i] \in Z
  OBVIOUS
<1>3. run \in Z /\ \A z \in Z : R!IsRun(z)
  BY <1>1 DEF R!IsRuns
<1> HIDE DEF Z
<1>4. runs \in Seq(Z)
  <2>1. runs \in [1..n -> Z]
    BY <1>1, <1>2
  <2> QED
    BY <1>1, <2>1
<1>5. /\ more \in Seq(Z) /\ Len(more) = n + 1
      /\ \A i \in 1..n : more[i] = runs[i]
  BY <1>1, <1>3, <1>4
<1> HIDE DEF more, n
<1>6. DOMAIN more = 1..Len(more) /\ Len(more) \in Nat /\ more \in [1..Len(more) -> Z]
  BY <1>5
<1>7. R!IsRuns(more)
  BY <1>3, <1>6 DEF R!IsRuns
<1>8. \A i \in 1..n : i \in DOMAIN more
  BY <1>1, <1>5, <1>6
<1> QED
  BY <1>1, <1>5, <1>7, <1>8 DEF more

\* It only lowers a best value.
LEMMA FurtherRunLowers ==
  ASSUME NEW runs, R!IsRuns(runs), NEW run, R!IsRun(run),
         NEW q \in DOMAIN R!BestPerQuery(runs, "min")
  PROVE  /\ q \in DOMAIN R!BestPerQuery(Append(runs, run), "min")
         /\ R!BestPerQuery(Append(runs, run), "min")[q] <= R!BestPerQuery(runs, "min")[q]
<1> DEFINE more == Append(runs, run)
           best == R!Smallest(R!Readings(runs, q, "min"))
<1>1. /\ R!IsRuns(more)
      /\ \A i \in DOMAIN runs : i \in DOMAIN more /\ more[i] = runs[i]
  BY FurtherRun
<1>2. R!Readings(runs, q, "min") # {} /\ R!BestPerQuery(runs, "min")[q] = best
  BY DEF R!BestPerQuery
<1> HIDE DEF more
<1>3. R!Measured(runs, q, "min") # {}
  BY <1>2 DEF R!Readings
<1>4. best \in R!Readings(runs, q, "min")
  BY <1>3, ReadingsAre
<1>5. PICK i \in R!Measured(runs, q, "min") : best = R!Metric(runs[i][q], "min")
  BY <1>4 DEF R!Readings
<1>6. i \in R!Measured(more, q, "min") /\ more[i] = runs[i]
  BY <1>1 DEF R!Measured
<1>7. R!Smallest(R!Readings(more, q, "min")) <= best
  BY <1>1, <1>5, <1>6, ReadingsAre
<1>8. R!Readings(more, q, "min") # {}
  BY <1>6 DEF R!Readings
<1>9. q \in R!QueriesOf(more)
  BY <1>1, <1>6, QueriesAreFew DEF R!Measured
<1>10. q \in DOMAIN R!BestPerQuery(more, "min")
       /\ R!BestPerQuery(more, "min")[q] = R!Smallest(R!Readings(more, q, "min"))
  BY <1>8, <1>9 DEF R!BestPerQuery
<1> QED
  BY <1>2, <1>7, <1>10 DEF more

\* With the old build as it was, every row stays and is no slower.
LEMMA FurtherRowsAreLower ==
  ASSUME NEW before, R!IsSide(before), NEW after, R!IsSide(after), NEW run, R!IsRun(run),
         NEW more \in R!OneMore(after, run), NEW r \in R!PairedRows(before, after, "min")
  PROVE  LET those == {s \in R!PairedRows(before, more, "min") : s.workload = r.workload /\ s.query = r.query}
         IN those # {} /\ \A s \in those : R!Leq(s.factor, r.factor)
<1>1. PICK v \in DOMAIN after : more = [after EXCEPT ![v] = Append(after[v], run)]
  BY DEF R!OneMore
<1>2. /\ DOMAIN more = DOMAIN after /\ more[v] = Append(after[v], run)
      /\ \A x \in DOMAIN after : x # v => more[x] = after[x]
  BY <1>1 DEF R!IsSide
<1>3. /\ R!IsSide(more)
      /\ \A x \in DOMAIN after : R!IsRuns(after[x])
  <2>1. \A x \in DOMAIN after : R!IsRuns(after[x])
    BY DEF R!IsSide
  <2>2. \A x \in DOMAIN after : R!IsRuns(more[x])
    <3>1. R!IsRuns(Append(after[v], run))
      BY <2>1, FurtherRun
    <3> QED
      BY <1>2, <2>1, <3>1
  <2>3. more = [x \in DOMAIN more |-> more[x]]
    BY <1>1, Zenon
  <2>4. R!IsSide(more)
    BY <1>2, <2>2, <2>3 DEF R!IsSide
  <2> QED
    BY <2>1, <2>4
<1>4. PICK w \in DOMAIN before \cap DOMAIN after :
        \E q \in DOMAIN Best(before, w) \cap DOMAIN Best(after, w) :
          r = [workload |-> w, query |-> q, factor |-> <<Best(after, w)[q], Best(before, w)[q]>>]
  BY RowIs
<1>5. PICK q \in DOMAIN Best(before, w) \cap DOMAIN Best(after, w) :
        r = [workload |-> w, query |-> q, factor |-> <<Best(after, w)[q], Best(before, w)[q]>>]
  BY <1>4
<1>6. Best(after, w)[q] \in Nat \ {0} /\ Best(before, w)[q] \in Nat \ {0}
  BY BestIs
<1>7. q \in DOMAIN Best(more, w) /\ Best(more, w)[q] <= Best(after, w)[q]
  <2>1. CASE w = v
    BY <1>2, <1>3, <2>1, FurtherRunLowers DEF Best
  <2>2. CASE w # v
    <3>1. Best(more, w) = Best(after, w)
      BY <1>2, <2>2 DEF Best
    <3> QED
      BY <1>6, <3>1
  <2> QED
    BY <2>1, <2>2
<1>8. Best(more, w)[q] \in Nat \ {0}
  BY <1>2, <1>3, <1>7, BestIs
<1> DEFINE s == [workload |-> w, query |-> q, factor |-> <<Best(more, w)[q], Best(before, w)[q]>>]
<1>9. s \in R!PairedRows(before, more, "min")
  BY <1>2, <1>7, RowIs
<1>10. ASSUME NEW t \in R!PairedRows(before, more, "min"), t.workload = w, t.query = q
       PROVE  t = s
  <2>1. PICK x \in DOMAIN before \cap DOMAIN more :
          \E y \in DOMAIN Best(before, x) \cap DOMAIN Best(more, x) :
            t = [workload |-> x, query |-> y, factor |-> <<Best(more, x)[y], Best(before, x)[y]>>]
    BY RowIs
  <2>2. PICK y \in DOMAIN Best(before, x) \cap DOMAIN Best(more, x) :
          t = [workload |-> x, query |-> y, factor |-> <<Best(more, x)[y], Best(before, x)[y]>>]
    BY <2>1
  <2>3. x = w /\ y = q
    BY <1>10, <2>2
  <2> QED
    BY <2>2, <2>3
<1>11. R!Leq(s.factor, r.factor)
  <2>1. \A a, b, c \in Nat : a <= b => R!Leq(<<a, c>>, <<b, c>>)
    <3>1. \A a, b, c \in Nat : a <= b => a * c <= b * c
      OBVIOUS
    <3> QED
      BY <3>1 DEF R!Leq
  <2>2. s.factor = <<Best(more, w)[q], Best(before, w)[q]>> /\ r.factor = <<Best(after, w)[q], Best(before, w)[q]>>
    BY <1>5
  <2> QED
    BY <1>6, <1>7, <1>8, <2>1, <2>2
<1>12. r.workload = w /\ r.query = q /\ s.workload = w /\ s.query = q
  BY <1>5
<1> HIDE DEF s
<1> QED
  BY <1>9, <1>10, <1>11, <1>12

LEMMA PairedFairly ==
  ASSUME NEW before, R!IsSide(before), NEW after, R!IsSide(after), NEW run, R!IsRun(run)
  PROVE  R!PairingIsFair(before, after, run, "min", <<11, 10>>)
<1> DEFINE threshold == <<11, 10>>
           of(b, a) == R!PairedAB(b, a, "min", threshold)
           there == of(before, after)
           back == of(after, before)
           same == of(before, before)
           rows == R!PairedRows(before, after, "min")
           n == Cardinality(rows)
           at(k) == IF rows = {} THEN R!One ELSE R!AtRank(rows, k)
<1>1. \A b, a : of(b, a).rows = R!PairedRows(b, a, "min") /\ of(b, a).threshold = threshold
  BY DEF R!PairedAB
<1>2. there.best = at(1) /\ there.median = at(n \div 2 + 1) /\ there.worst = at(n)
  BY SameCardinality DEF R!PairedAB
<1>3. IsRows(rows)
  BY PairedAreRows
<1>4. there.rows = {[r EXCEPT !.factor = <<r.factor[2], r.factor[1]>>] : r \in back.rows}
  BY <1>1, SwappedRows
<1>5. \A x, y \in Nat \ {0} : R!Leq(threshold, <<x, y>>) <=> 11 * y <= 10 * x
  BY DEF R!Leq
<1>6. \A r \in R!Regressed(there), s \in R!Regressed(back) : r.query # s.query \/ r.workload # s.workload
  <2> SUFFICES ASSUME NEW r \in R!Regressed(there), NEW s \in R!Regressed(back),
                      r.query = s.query, r.workload = s.workload
               PROVE  FALSE
    OBVIOUS
  <2>1. r \in rows /\ R!Leq(threshold, r.factor)
    BY <1>1 DEF R!Regressed
  <2>2. s \in R!PairedRows(after, before, "min") /\ R!Leq(threshold, s.factor)
    BY <1>1 DEF R!Regressed
  <2>3. /\ r.workload \in DOMAIN before \cap DOMAIN after
        /\ r.query \in DOMAIN Best(before, r.workload) \cap DOMAIN Best(after, r.workload)
        /\ r.factor = <<Best(after, r.workload)[r.query], Best(before, r.workload)[r.query]>>
    BY <2>1, RowIs
  <2>4. s.factor = <<Best(before, s.workload)[s.query], Best(after, s.workload)[s.query]>>
    BY <2>2, RowIs
  <2> DEFINE x == Best(after, r.workload)[r.query]
             y == Best(before, r.workload)[r.query]
  <2>5. x \in Nat \ {0} /\ y \in Nat \ {0}
    BY <2>3, BestIs
  <2>6. r.factor = <<x, y>> /\ s.factor = <<y, x>>
    BY <2>3, <2>4
  <2> HIDE DEF x, y, threshold
  <2>7. 11 * y <= 10 * x /\ 11 * x <= 10 * y
    BY <1>5, <2>1, <2>2, <2>5, <2>6
  <2> QED
    BY <2>5, <2>7
<1>7. R!PairedPass(same)
  <2>1. ASSUME NEW r \in R!PairedRows(before, before, "min")
        PROVE  ~R!Leq(threshold, r.factor)
    <3>1. PICK w \in DOMAIN before : \E q \in DOMAIN Best(before, w) :
            r = [workload |-> w, query |-> q, factor |-> <<Best(before, w)[q], Best(before, w)[q]>>]
      BY RowIs
    <3>2. PICK q \in DOMAIN Best(before, w) :
            r = [workload |-> w, query |-> q, factor |-> <<Best(before, w)[q], Best(before, w)[q]>>]
      BY <3>1
    <3>3. PICK x \in Nat \ {0} : x = Best(before, w)[q]
      BY BestIs
    <3>4. r.factor = <<x, x>>
      BY <3>2, <3>3
    <3>5. ~(11 * x <= 10 * x)
      OBVIOUS
    <3> HIDE DEF threshold
    <3> QED
      BY <1>5, <3>4, <3>5
  <2>2. same.rows = R!PairedRows(before, before, "min") /\ same.threshold = threshold
    BY <1>1
  <2> HIDE DEF same, threshold
  <2> QED
    BY <2>1, <2>2 DEF R!PairedPass, R!Regressed
<1>8. \A paired \in {of(before, a) : a \in R!OneMore(after, run)} : \A r \in there.rows :
        LET those == {s \in paired.rows : s.workload = r.workload /\ s.query = r.query}
        IN those # {} /\ \A s \in those : R!Leq(s.factor, r.factor)
  <2>1. \A a \in R!OneMore(after, run) : \A r \in rows :
          LET those == {s \in R!PairedRows(before, a, "min") : s.workload = r.workload /\ s.query = r.query}
          IN those # {} /\ \A s \in those : R!Leq(s.factor, r.factor)
    BY FurtherRowsAreLower
  <2>2. there.rows = rows /\ \A a : of(before, a).rows = R!PairedRows(before, a, "min")
    BY <1>1
  <2> HIDE DEF of, rows, there
  <2> QED
    BY <2>1, <2>2
<1>9. R!Leq(there.best, there.median) /\ R!Leq(there.median, there.worst)
  <2>1. CASE rows = {}
    <3>1. R!Leq(R!One, R!One)
      BY DEF R!Leq, R!One
    <3>2. there.best = R!One /\ there.median = R!One /\ there.worst = R!One
      BY <1>2, <2>1
    <3> QED
      BY <3>1, <3>2
  <2>2. CASE rows # {}
    <3>1. n \in Nat /\ 1 <= n
      BY <1>3, <2>2, LastRankIsWorst
    <3> DEFINE middle == n \div 2 + 1
    <3>2. there.best = R!AtRank(rows, 1) /\ there.median = R!AtRank(rows, middle) /\ there.worst = R!AtRank(rows, n)
      BY <1>2, <2>2
    <3> HIDE DEF rows, there
    <3>3. middle \in Nat /\ 1 <= middle /\ middle <= n
      <4> HIDE DEF n
      <4> QED
        BY <3>1
    <3> HIDE DEF middle
    <3>4. R!Leq(R!AtRank(rows, 1), R!AtRank(rows, middle)) /\ R!Leq(R!AtRank(rows, middle), R!AtRank(rows, n))
      BY <1>3, <3>1, <3>3, RanksInOrder
    <3> QED
      BY <3>2, <3>4
  <2> QED
    BY <2>1, <2>2
<1>10. (\E r \in there.rows : TRUE) => (R!PairedPass(there) <=> R!Less(there.worst, there.threshold))
  <2> SUFFICES ASSUME rows # {}
               PROVE  R!PairedPass(there) <=> R!Less(there.worst, there.threshold)
    BY <1>1
  <2>1. /\ \E r \in rows : there.worst = r.factor
        /\ \A r \in rows : R!Leq(r.factor, there.worst)
    BY <1>2, <1>3, LastRankIsWorst
  <2>2. R!PairedPass(there) <=> \A r \in rows : ~R!Leq(threshold, r.factor)
    BY <1>1 DEF R!PairedPass, R!Regressed
  <2>3. IsFraction(threshold) /\ IsFraction(there.worst) /\ \A r \in rows : IsFraction(r.factor)
    BY <1>3, <2>1 DEF IsFraction, IsRows
  <2>4. there.threshold = threshold
    BY <1>1
  <2> HIDE DEF threshold, there, rows
  <2>5. R!Less(there.worst, threshold) <=> ~R!Leq(threshold, there.worst)
    BY <2>3, LeqTotal
  <2>6. \A r \in rows : R!Leq(threshold, r.factor) => R!Leq(threshold, there.worst)
    BY <2>1, <2>3, LeqPasses
  <2> QED
    BY <2>1, <2>2, <2>4, <2>5, <2>6
<1>11. R!FairPair(there, back, same, {of(before, a) : a \in R!OneMore(after, run)})
  <2> HIDE DEF there, back, same, of
  <2> QED
    BY <1>4, <1>6, <1>7, <1>8, <1>9, <1>10 DEF R!FairPair
<1> QED
  BY <1>11 DEF R!PairingIsFair

\* Of repeated runs, for every number of them: the worst spread covers every pair of runs
\* (gate/noise.go), a pairing of two builds has no favourite (gate/paired.go), and a cost
\* nobody could read saves nothing (ab_cmd.go).
THEOREM RepeatedRunsAreFair == FiguresSpec => []RepeatsAreFair
<1>1. AskedInv => RepeatsAreFair
  <2> SUFFICES ASSUME AskedInv
               PROVE  RepeatsAreFair
    OBVIOUS
  <2>1. ASSUME Answered("noise")
        PROVE  R!FloorCoversRuns(asked)
    BY <2>1, FiguresAssumption, FloorCovers DEF AskedInv, Answered
  <2>2. ASSUME Answered("pairs")
        PROVE  R!PairingIsFair(asked[1], asked[2], asked[3], "min", <<11, 10>>)
    <3>1. R!IsSide(asked[1]) /\ R!IsSide(asked[2]) /\ R!IsRun(asked[3])
      BY <2>2, FiguresAssumption DEF AskedInv, Answered
    <3> QED
      BY <3>1, PairedFairly
  <2>3. ASSUME Answered("costs")
        PROVE  R!UnknownIsNoSaving(asked[1], asked[2])
    <3>1. R!IsReadings(asked[1]) /\ R!IsReadings(asked[2])
      BY <2>3, FiguresAssumption DEF AskedInv, Answered
    <3> QED
      BY <3>1, UnreadSavesNothing
  <2> QED
    BY <2>1, <2>2, <2>3 DEF RepeatsAreFair
<1>2. FiguresSpec => []AskedInv
  BY AskedInvInit, AskedInvNext, PTL DEF FiguresSpec
<1> QED
  BY <1>1, <1>2, PTL

\* All the verdicts together.
THEOREM EveryVerdictIsFair == FiguresSpec => []VerdictsAreFair
<1>1. GateIsSound /\ RepeatsAreFair /\ RivalIsFair => VerdictsAreFair
  BY DEF VerdictsAreFair
<1> QED
  BY <1>1, GateIsFair, RepeatedRunsAreFair, RivalVerdictIsFair, PTL

-----------------------------------------------------------------------------
(* Sums, as the units the members of a set have together.                    *)

LEMMA SameSize == \A Z : Q!Cardinality(Z) = Cardinality(Z)
  BY DEF Q!Cardinality, Cardinality

\* A finite set, and what each member has.
Counts(I, f) == IsFiniteSet(I) /\ \A q \in I : f[q] \in Nat

LEMMA UnitIn ==
  ASSUME NEW I, NEW f
  PROVE  /\ \A q, k : <<q, k>> \in Q!Units(I, f) <=> q \in I /\ k \in 1..f[q]
         /\ \A u \in Q!Units(I, f) : u = <<u[1], u[2]>> /\ u[1] \in I /\ u[2] \in 1..f[u[1]]
  BY DEF Q!Units

LEMMA UnitsAreFew ==
  ASSUME NEW I, NEW f, Counts(I, f)
  PROVE  IsFiniteSet(Q!Units(I, f)) /\ Cardinality(Q!Units(I, f)) \in Nat
<1> DEFINE its == [q \in I |-> {q} \X (1..f[q])]
<1>1. IsFiniteSet({its[q] : q \in I})
  <2>1. IsFiniteSet(I) /\ its = [q \in I |-> its[q]]
    BY DEF Counts
  <2> HIDE DEF its
  <2> QED
    BY <2>1, FewValues
<1>2. \A q \in I : IsFiniteSet(its[q])
  <2> SUFFICES ASSUME NEW q \in I PROVE IsFiniteSet({q} \X (1..f[q]))
    OBVIOUS
  <2>0. 1 \in Int /\ f[q] \in Int
    BY DEF Counts
  <2>1. IsFiniteSet({q}) /\ IsFiniteSet(1..f[q])
    BY <2>0, FS_Singleton, FS_Interval
  <2> QED
    BY <2>1, FS_Product
<1>3. Q!Units(I, f) = UNION {its[q] : q \in I}
  BY DEF Q!Units
<1>4. IsFiniteSet(Q!Units(I, f))
  <2> HIDE DEF its
  <2>1. \A T \in {its[q] : q \in I} : IsFiniteSet(T)
    BY <1>2
  <2> QED
    BY <1>1, <1>3, <2>1, FS_UNION
<1> QED
  BY <1>4, FS_CardinalityType

LEMMA SumsAdd ==
  ASSUME NEW I, NEW f, NEW g, NEW h, Counts(I, f), Counts(I, g), \A q \in I : h[q] = f[q] + g[q]
  PROVE  Cardinality(Q!Units(I, h)) = Cardinality(Q!Units(I, f)) + Cardinality(Q!Units(I, g))
<1> DEFINE F == Q!Units(I, f)
           more == Q!Units(I, g)
           both == Q!Units(I, h)
           rest == {u \in both : u \notin F}
           move == [u \in more |-> <<u[1], u[2] + f[u[1]]>>]
<1>1. /\ \A q \in I : f[q] \in Nat /\ g[q] \in Nat /\ h[q] \in Nat
      /\ Counts(I, h)
  BY DEF Counts
<1>2. F \in SUBSET both
  BY <1>1, UnitIn
<1>3. \A q, k : <<q, k>> \in rest <=> q \in I /\ k \in (f[q] + 1)..h[q]
  <2> SUFFICES ASSUME NEW q, NEW k
               PROVE  <<q, k>> \in rest <=> q \in I /\ k \in (f[q] + 1)..h[q]
    BY Zenon
  <2>1. <<q, k>> \in rest <=> (q \in I /\ k \in 1..h[q]) /\ ~(q \in I /\ k \in 1..f[q])
    BY UnitIn
  <2> HIDE DEF rest
  <2> QED
    BY <1>1, <2>1
<1>4. move \in Bijection(more, rest)
  <2>1. ASSUME NEW u \in more
        PROVE  /\ u = <<u[1], u[2]>> /\ u[1] \in I /\ u[2] \in 1..g[u[1]]
               /\ u[2] \in Int /\ f[u[1]] \in Nat
               /\ move[u] = <<u[1], u[2] + f[u[1]]>> /\ move[u] \in rest
    <3>1. u = <<u[1], u[2]>> /\ u[1] \in I /\ u[2] \in 1..g[u[1]]
      BY UnitIn
    <3>2. /\ u[2] \in Int /\ f[u[1]] \in Nat
          /\ u[2] + f[u[1]] \in (f[u[1]] + 1)..h[u[1]]
      BY <1>1, <3>1
    <3> QED
      BY <1>3, <3>1, <3>2
  <2>2. ASSUME NEW u \in more, NEW v \in more, move[u] = move[v]
        PROVE  u = v
    <3>1. u[1] = v[1] /\ u[2] + f[u[1]] = v[2] + f[v[1]]
      BY <2>1, <2>2
    <3>2. u[2] \in Int /\ v[2] \in Int /\ f[u[1]] \in Nat
      BY <2>1, <2>2
    <3>3. u[2] = v[2]
      BY <3>1, <3>2
    <3> QED
      BY <2>1, <3>1, <3>3
  <2>3. ASSUME NEW r \in rest
        PROVE  \E u \in more : move[u] = r
    <3>1. r = <<r[1], r[2]>>
      BY UnitIn
    <3>2. r[1] \in I /\ r[2] \in (f[r[1]] + 1)..h[r[1]]
      BY <1>3, <3>1
    <3>3. r[2] - f[r[1]] \in 1..g[r[1]] /\ (r[2] - f[r[1]]) + f[r[1]] = r[2]
      BY <1>1, <3>2
    <3>4. <<r[1], r[2] - f[r[1]]>> \in more
      BY <3>2, <3>3, UnitIn
    <3> QED
      BY <3>1, <3>3, <3>4
  <2> HIDE DEF move, more, rest
  <2>4. move \in [more -> rest]
    BY <2>1 DEF move
  <2> QED
    BY <2>2, <2>3, <2>4 DEF Bijection, Injection, Surjection, IsInjective
<1>5. IsFiniteSet(F) /\ IsFiniteSet(more) /\ IsFiniteSet(both)
  BY <1>1, UnitsAreFew
<1>6. IsFiniteSet(rest) /\ Cardinality(rest) = Cardinality(more)
  <2> HIDE DEF move, more, rest
  <2>1. ExistsBijection(more, rest)
    BY <1>4 DEF ExistsBijection
  <2> QED
    BY <1>5, <2>1, FS_Bijection
<1>7. /\ both = F \cup rest /\ F \cap rest = {}
      /\ Cardinality({}) = 0
  BY <1>2, FS_EmptySet
<1>8. Cardinality(both) = Cardinality(F) + Cardinality(rest) - 0
  <2> HIDE DEF F, rest, both
  <2> QED
    BY <1>5, <1>6, <1>7, FS_Union
<1>9. Cardinality(F) \in Nat /\ Cardinality(rest) \in Nat
  <2> HIDE DEF F, rest
  <2> QED
    BY <1>5, <1>6, FS_CardinalityType
<1> HIDE DEF F, rest, more, both
<1>10. Cardinality(both) = Cardinality(F) + Cardinality(more)
  BY <1>6, <1>8, <1>9
<1> QED
  BY <1>10 DEF F, more, both

LEMMA SumsBound ==
  ASSUME NEW I, NEW f, Counts(I, f), NEW J \in SUBSET I, NEW c \in Nat,
         \A q \in J : f[q] <= c, \A q \in I \ J : f[q] = 0
  PROVE  /\ IsFiniteSet(J) /\ Cardinality(J) \in Nat
         /\ Cardinality(Q!Units(I, f)) <= Cardinality(J) * c
<1>1. IsFiniteSet(J) /\ Cardinality(J) \in Nat
  BY FS_Subset, FS_CardinalityType DEF Counts
<1>2. IsFiniteSet(1..c) /\ Cardinality(1..c) = c
  <2>1. 1 \in Int /\ c \in Int
    OBVIOUS
  <2>2. IsFiniteSet(1..c) /\ Cardinality(1..c) = IF 1 > c THEN 0 ELSE c - 1 + 1
    BY <2>1, FS_Interval
  <2> QED
    BY <2>2
<1>3. IsFiniteSet(J \X (1..c)) /\ Cardinality(J \X (1..c)) = Cardinality(J) * c
  BY <1>1, <1>2, FS_Product
<1>4. Q!Units(I, f) \in SUBSET (J \X (1..c))
  <2> SUFFICES ASSUME NEW u \in Q!Units(I, f)
               PROVE  u \in J \X (1..c)
    OBVIOUS
  <2>1. u = <<u[1], u[2]>> /\ u[1] \in I /\ u[2] \in 1..f[u[1]]
    BY UnitIn
  <2>2. u[1] \in J /\ u[2] \in 1..c
    BY <2>1 DEF Counts
  <2> QED
    BY <2>1, <2>2
<1> QED
  BY <1>1, <1>3, <1>4, FS_Subset

LEMMA SumOfOnes ==
  ASSUME NEW I, NEW f, Counts(I, f), NEW J \in SUBSET I,
         \A q \in J : f[q] = 1, \A q \in I \ J : f[q] = 0
  PROVE  Cardinality(Q!Units(I, f)) = Cardinality(J)
<1>1. IsFiniteSet(J) /\ IsFiniteSet(Q!Units(I, f))
  BY UnitsAreFew, FS_Subset DEF Counts
<1> DEFINE one == [q \in J |-> <<q, 1>>]
<1>2. one \in Bijection(J, Q!Units(I, f))
  <2>1. \A q \in J : one[q] = <<q, 1>> /\ one[q] \in Q!Units(I, f)
    <3> SUFFICES ASSUME NEW q \in J PROVE <<q, 1>> \in Q!Units(I, f)
      BY Zenon
    <3>1. q \in I /\ 1 \in 1..f[q]
      OBVIOUS
    <3> QED
      BY <3>1, UnitIn
  <2>2. \A u \in Q!Units(I, f) : \E q \in J : one[q] = u
    <3> SUFFICES ASSUME NEW u \in Q!Units(I, f) PROVE \E q \in J : one[q] = u
      OBVIOUS
    <3>1. u = <<u[1], u[2]>> /\ u[1] \in I /\ u[2] \in 1..f[u[1]]
      BY UnitIn
    <3>2. u[1] \in J /\ u[2] = 1
      BY <3>1
    <3> QED
      BY <2>1, <3>1, <3>2
  <2>3. \A p, q \in J : one[p] = one[q] => p = q
    BY <2>1
  <2>4. one \in [J -> Q!Units(I, f)]
    BY <2>1
  <2> HIDE DEF one
  <2> QED
    BY <2>2, <2>3, <2>4 DEF Bijection, Injection, Surjection, IsInjective
<1>3. ExistsBijection(J, Q!Units(I, f))
  <2> HIDE DEF one
  <2> QED
    BY <1>2 DEF ExistsBijection
<1> QED
  BY <1>1, <1>3, FS_Bijection

-----------------------------------------------------------------------------
(* Division.                                                                 *)

LEMMA DivMod ==
  ASSUME NEW c \in Nat \ {0}, NEW a \in Nat
  PROVE  /\ a = c * (a \div c) + (a % c) /\ a \div c \in Nat /\ a % c \in 0..c - 1
  BY SMT

LEMMA Distributes ==
  ASSUME NEW c \in Int, NEW x \in Int, NEW y \in Int
  PROVE  /\ c * (x - y) = c * x - c * y /\ c * (x + y) = c * x + c * y
         /\ (x - y) * c = x * c - y * c /\ (x + y) * c = x * c + y * c
         /\ c * x \in Int /\ c * x = x * c
  BY SMT

LEMMA TimesOneOrMore == ASSUME NEW c \in Nat, NEW x \in Int, x >= 1 PROVE c * x >= c
  BY SMT
LEMMA TimesNoneOrLess == ASSUME NEW c \in Nat, NEW x \in Int, x <= 0 PROVE c * x <= 0
  BY SMT

\* There is one way to divide.
LEMMA OneQuotient ==
  ASSUME NEW c \in Nat \ {0}, NEW x \in Int, NEW y \in Int, NEW r \in 0..c - 1, NEW s \in 0..c - 1,
         c * x + r = c * y + s
  PROVE  x = y /\ r = s
<1>1. c * (x - y) = s - r /\ c * (y - x) = r - s
  <2>1. c * (x - y) = c * x - c * y /\ c * (y - x) = c * y - c * x /\ c * x \in Int /\ c * y \in Int
    BY Distributes
  <2> QED
    BY <2>1
<1>2. ~(x - y >= 1)
  BY <1>1, TimesOneOrMore
<1>3. ~(y - x >= 1)
  BY <1>1, TimesOneOrMore
<1>4. x = y
  BY <1>2, <1>3
<1> QED
  BY <1>4

LEMMA RemainderIs ==
  ASSUME NEW c \in Nat \ {0}, NEW x \in Nat, NEW r \in 0..c - 1
  PROVE  /\ c * x + r \in Nat /\ (c * x + r) % c = r /\ (c * x + r) \div c = x
<1> DEFINE a == c * x + r
<1>1. a \in Nat
  <2>1. c * x \in Nat
    BY ProductsGrow
  <2> QED
    BY <2>1
<1> HIDE DEF a
<1> DEFINE d == a \div c
           s == a % c
<1>2. a = c * d + s /\ d \in Nat /\ s \in 0..c - 1
  BY <1>1, DivMod
<1> HIDE DEF d, s
<1>3. c * d + s = c * x + r
  BY <1>2 DEF a
<1>4. d = x /\ s = r
  BY <1>2, <1>3, OneQuotient
<1> QED
  BY <1>1, <1>4 DEF a, d, s

LEMMA SumsScale ==
  ASSUME NEW I, NEW f, NEW h, Counts(I, f), NEW c \in Nat \ {0}, \A q \in I : h[q] = c * f[q]
  PROVE  Cardinality(Q!Units(I, h)) = Cardinality(Q!Units(I, f)) * c
<1> DEFINE few == Q!Units(I, f) \X (1..c)
           many == Q!Units(I, h)
           at == [p \in few |-> <<p[1][1], c * (p[1][2] - 1) + p[2]>>]
<1>1. \A q \in I : f[q] \in Nat /\ h[q] \in Nat /\ h[q] = c * f[q]
  <2> SUFFICES ASSUME NEW q \in I PROVE c * f[q] \in Nat /\ f[q] \in Nat
    OBVIOUS
  <2>1. f[q] \in Nat
    BY DEF Counts
  <2> QED
    BY <2>1, ProductsGrow
<1>2. Counts(I, h)
  BY <1>1 DEF Counts
<1>3. IsFiniteSet(few) /\ Cardinality(few) = Cardinality(Q!Units(I, f)) * c
  <2>1. 1 \in Int /\ c \in Int
    OBVIOUS
  <2>2. IsFiniteSet(1..c) /\ Cardinality(1..c) = IF 1 > c THEN 0 ELSE c - 1 + 1
    BY <2>1, FS_Interval
  <2>3. Cardinality(1..c) = c
    BY <2>2
  <2>4. IsFiniteSet(Q!Units(I, f))
    BY UnitsAreFew
  <2> QED
    BY <2>2, <2>3, <2>4, FS_Product
<1>4. ASSUME NEW p \in few
      PROVE  LET q == p[1][1]  k == p[1][2]  j == p[2]
             IN /\ p = <<<<q, k>>, j>> /\ q \in I /\ k \in 1..f[q] /\ j \in 1..c /\ k \in Int
                /\ at[p] = <<q, c * (k - 1) + j>> /\ at[p] \in many
  <2> DEFINE q == p[1][1]  k == p[1][2]  j == p[2]
  <2>1. p = <<p[1], j>> /\ p[1] \in Q!Units(I, f) /\ j \in 1..c
    OBVIOUS
  <2>2. p[1] = <<q, k>> /\ q \in I /\ k \in 1..f[q]
    BY <2>1, UnitIn
  <2>3. at[p] = <<q, c * (k - 1) + j>>
    OBVIOUS
  <2> HIDE DEF q, k, j
  <2>4. c * (k - 1) \in Nat /\ c * (k - 1) <= c * (f[q] - 1) /\ c * (f[q] - 1) = h[q] - c /\ k \in Int
    <3>1. k - 1 \in Nat /\ f[q] - 1 \in Nat /\ k - 1 <= f[q] - 1 /\ k \in Int /\ f[q] \in Int
      BY <1>1, <2>2
    <3>2. c * (f[q] - 1) = c * f[q] - c * 1
      BY <3>1, Distributes
    <3> QED
      BY <1>1, <2>2, <3>1, <3>2, ProductsGrow
  <2>5. c * (k - 1) + j \in 1..h[q]
    BY <1>1, <2>1, <2>2, <2>4
  <2>6. <<q, c * (k - 1) + j>> \in many
    BY <2>2, <2>5, UnitIn
  <2> HIDE DEF at, many
  <2>7. /\ p = <<<<q, k>>, j>> /\ q \in I /\ k \in 1..f[q] /\ j \in 1..c /\ k \in Int
        /\ at[p] = <<q, c * (k - 1) + j>> /\ at[p] \in many
    BY <2>1, <2>2, <2>3, <2>4, <2>6
  <2> QED
    BY <2>7 DEF q, k, j
<1>5. ASSUME NEW p \in few, NEW o \in few, at[p] = at[o]
      PROVE  p = o
  <2>1. /\ p[1][1] = o[1][1] /\ c * (p[1][2] - 1) + p[2] = c * (o[1][2] - 1) + o[2]
        /\ p[1][2] - 1 \in Int /\ o[1][2] - 1 \in Int /\ p[2] - 1 \in 0..c - 1 /\ o[2] - 1 \in 0..c - 1
    BY <1>4, <1>5
  <2>2. c * (p[1][2] - 1) \in Int /\ c * (o[1][2] - 1) \in Int
    BY <2>1, Distributes
  <2>3. c * (p[1][2] - 1) + (p[2] - 1) = c * (o[1][2] - 1) + (o[2] - 1)
    BY <2>1, <2>2
  <2> DEFINE x == p[1][2] - 1  y == o[1][2] - 1  r == p[2] - 1  s == o[2] - 1
  <2>4. /\ x \in Int /\ y \in Int /\ r \in 0..c - 1 /\ s \in 0..c - 1 /\ c * x + r = c * y + s
        /\ p[1][2] = x + 1 /\ o[1][2] = y + 1 /\ p[2] = r + 1 /\ o[2] = s + 1
    <3>1. p[1][2] \in Int /\ o[1][2] \in Int /\ p[2] \in 1..c /\ o[2] \in 1..c
      BY <1>4
    <3> QED
      BY <2>1, <2>3, <3>1
  <2>5. p[1][2] = o[1][2] /\ p[2] = o[2]
    <3> HIDE DEF x, y, r, s
    <3>1. x = y /\ r = s
      BY <2>4, OneQuotient
    <3> QED
      BY <2>4, <3>1
  <2> QED
    BY <1>4, <2>1, <2>5
<1>6. ASSUME NEW u \in many
      PROVE  \E p \in few : at[p] = u
  <2>1. u = <<u[1], u[2]>> /\ u[1] \in I /\ u[2] \in 1..h[u[1]] /\ f[u[1]] \in Nat /\ h[u[1]] = c * f[u[1]]
    BY <1>1, UnitIn
  <2> DEFINE a == u[2] - 1
  <2>2. a \in Nat /\ a < c * f[u[1]]
    BY <1>1, <2>1
  <2> HIDE DEF a
  <2> DEFINE d == a \div c
             r == a % c
  <2>3. a = c * d + r /\ d \in Nat /\ r \in 0..c - 1
    BY <2>2, DivMod
  <2> HIDE DEF d, r
  <2>4. d < f[u[1]]
    <3> HIDE DEF few, many, at
    <3> SUFFICES ASSUME f[u[1]] <= d PROVE FALSE
      BY <2>1, <2>3
    <3>1. c * f[u[1]] <= c * d /\ c * f[u[1]] \in Nat /\ c * d \in Nat
      BY <2>1, <2>3, ProductsGrow
    <3> QED
      BY <2>2, <2>3, <3>1
  <2> DEFINE e == d + 1
             z == r + 1
  <2>5. /\ e \in 1..f[u[1]] /\ z \in 1..c
        /\ c * (e - 1) + z = u[2]
    <3>1. u[2] \in Int /\ c * d \in Int /\ d + 1 - 1 = d
      BY <2>1, <2>3, Distributes
    <3>2. u[2] = a + 1
      BY <3>1 DEF a
    <3> HIDE DEF few, many, at
    <3>3. e - 1 = d /\ z = r + 1
      BY <2>3
    <3>4. c * d + z = u[2]
      BY <2>3, <3>1, <3>2
    <3> QED
      BY <2>1, <2>3, <2>4, <3>3, <3>4
  <2> HIDE DEF e, z
  <2>6. <<<<u[1], e>>, z>> \in few
    <3>1. <<u[1], e>> \in Q!Units(I, f)
      BY <2>1, <2>5, UnitIn
    <3> QED
      BY <2>5, <3>1
  <2>7. at[<<<<u[1], e>>, z>>] = <<u[1], c * (e - 1) + z>>
    BY <2>6
  <2> HIDE DEF few, at
  <2> QED
    BY <2>1, <2>5, <2>6, <2>7
<1>7. at \in Bijection(few, many)
  <2>1. at \in [few -> many]
    BY <1>4
  <2> HIDE DEF at, few, many
  <2> QED
    BY <1>5, <1>6, <2>1 DEF Bijection, Injection, Surjection, IsInjective
<1> HIDE DEF at, few, many
<1>8. ExistsBijection(few, many)
  BY <1>7 DEF ExistsBijection
<1>9. Cardinality(many) = Cardinality(few)
  BY <1>3, <1>8, FS_Bijection
<1> QED
  BY <1>3, <1>9 DEF many

-----------------------------------------------------------------------------
(* The mix.                                                                  *)

Mixing(I, w, total) ==
  /\ IsFiniteSet(I) /\ I \subseteq Nat /\ I # {} /\ total \in Nat \ {0}
  /\ \A q \in I : w[q] \in Nat \ {0}

LEMMA UpTo == ASSUME NEW n \in Nat PROVE IsFiniteSet(0..n - 1) /\ Cardinality(0..n - 1) = n
<1>1. 0 \in Int /\ n - 1 \in Int
  OBVIOUS
<1>2. IsFiniteSet(0..n - 1) /\ Cardinality(0..n - 1) = IF 0 > n - 1 THEN 0 ELSE n - 1 - 0 + 1
  BY <1>1, FS_Interval
<1> QED
  BY <1>2

LEMMA AllIs ==
  ASSUME NEW I, NEW w, NEW total, Mixing(I, w, total)
  PROVE  /\ Counts(I, w) /\ Q!Sum(I, w) = Cardinality(Q!Units(I, w)) /\ Q!Sum(I, w) \in Nat \ {0}
<1>1. Counts(I, w)
  BY DEF Mixing, Counts
<1>2. IsFiniteSet(Q!Units(I, w)) /\ Cardinality(Q!Units(I, w)) \in Nat
  BY <1>1, UnitsAreFew
<1>3. Q!Sum(I, w) = Cardinality(Q!Units(I, w))
  BY SameSize DEF Q!Sum
<1>4. PICK q \in I : w[q] \in Nat \ {0}
  BY DEF Mixing
<1>5. <<q, 1>> \in Q!Units(I, w)
  <2>1. 1 \in 1..w[q]
    BY <1>4
  <2> QED
    BY <2>1, UnitIn
<1>6. Cardinality(Q!Units(I, w)) # 0
  BY <1>2, <1>5, FS_EmptySet
<1> QED
  BY <1>1, <1>2, <1>3, <1>6

\* An exact share is its whole slots and what is cut off.
LEMMA PartsOfShare ==
  ASSUME NEW I, NEW w, NEW total, Mixing(I, w, total), NEW q \in I
  PROVE  LET all == Q!Sum(I, w)
             whole == Q!Whole(I, w, total)
             cut == Q!Cut(I, w, total)
         IN /\ whole[q] \in Nat /\ cut[q] \in 0..all - 1 /\ w[q] * total \in Nat
            /\ w[q] * total = all * whole[q] + cut[q] /\ all * whole[q] \in Nat
<1> DEFINE all == Q!Sum(I, w)
           a == w[q] * total
<1>1. all \in Nat \ {0}
  BY AllIs
<1>2. w[q] \in Nat /\ total \in Nat
  BY DEF Mixing
<1>3. a \in Nat
  BY <1>2, ProductsGrow
<1>4. Q!Whole(I, w, total)[q] = a \div all /\ Q!Cut(I, w, total)[q] = a % all
  BY DEF Q!Whole, Q!Cut
<1> HIDE DEF a, all
<1>5. a = all * (a \div all) + (a % all) /\ a \div all \in Nat /\ a % all \in 0..all - 1
  BY <1>1, <1>3, DivMod
<1>6. all * (a \div all) \in Nat
  BY <1>1, <1>5, ProductsGrow
<1> QED
  BY <1>3, <1>4, <1>5, <1>6 DEF a, all

\* The slots the whole parts leave over make up what was cut off, and are fewer than the
\* queries.
LEMMA LeftOver ==
  ASSUME NEW I, NEW w, NEW total, Mixing(I, w, total)
  PROVE  LET all == Q!Sum(I, w)
             whole == Q!Whole(I, w, total)
             cut == Q!Cut(I, w, total)
             left == total - Q!Sum(I, whole)
         IN /\ Counts(I, whole) /\ Counts(I, cut) /\ left \in Nat /\ left < Cardinality(I)
            /\ left * all = Cardinality(Q!Units(I, cut))
            /\ Q!Sum(I, whole) = Cardinality(Q!Units(I, whole)) /\ Q!Sum(I, whole) \in Nat
<1> DEFINE all == Q!Sum(I, w)
           whole == Q!Whole(I, w, total)
           cut == Q!Cut(I, w, total)
           n == Cardinality(I)
           asks == [q \in I |-> total * w[q]]
           buys == [q \in I |-> all * whole[q]]
<1>1. /\ all \in Nat \ {0} /\ total \in Nat \ {0} /\ Counts(I, w)
      /\ all = Cardinality(Q!Units(I, w))
  BY AllIs DEF Mixing
<1>2. n \in Nat \ {0}
  BY FS_CardinalityType, FS_EmptySet DEF Mixing
<1> HIDE DEF all, whole, cut
<1>3. \A q \in I : /\ whole[q] \in Nat /\ cut[q] \in 0..all - 1 /\ cut[q] \in Nat
                   /\ buys[q] \in Nat /\ asks[q] = buys[q] + cut[q]
  <2> SUFFICES ASSUME NEW q \in I
               PROVE  /\ whole[q] \in Nat /\ cut[q] \in 0..all - 1 /\ cut[q] \in Nat
                      /\ all * whole[q] \in Nat /\ total * w[q] = all * whole[q] + cut[q]
    OBVIOUS
  <2>1. /\ whole[q] \in Nat /\ cut[q] \in 0..all - 1 /\ w[q] * total \in Nat
        /\ w[q] * total = all * whole[q] + cut[q] /\ all * whole[q] \in Nat
    BY PartsOfShare DEF all, whole, cut
  <2>2. w[q] \in Int /\ total \in Int
    BY DEF Mixing
  <2>3. total * w[q] = w[q] * total
    BY <2>2, Distributes
  <2> QED
    BY <1>1, <2>1, <2>3
<1>4. \A q \in I : asks[q] = total * w[q] /\ buys[q] = all * whole[q]
  OBVIOUS
<1> HIDE DEF asks, buys
<1>5. Counts(I, whole) /\ Counts(I, cut) /\ Counts(I, buys)
  BY <1>1, <1>3 DEF Counts
<1> DEFINE sw == Cardinality(Q!Units(I, whole))
           sc == Cardinality(Q!Units(I, cut))
<1>6. sw \in Nat /\ sc \in Nat
  BY <1>5, UnitsAreFew
<1>7. Cardinality(Q!Units(I, asks)) = all * total
  BY <1>1, <1>4, SumsScale
<1>8. Cardinality(Q!Units(I, buys)) = sw * all
  BY <1>1, <1>4, <1>5, SumsScale
<1>9. Cardinality(Q!Units(I, asks)) = Cardinality(Q!Units(I, buys)) + sc
  BY <1>3, <1>5, SumsAdd
<1>10. Q!Sum(I, whole) = sw
  BY SameSize DEF Q!Sum
<1>11. sc <= n * (all - 1)
  <2> DEFINE c == all - 1
  <2>1. c \in Nat /\ I \in SUBSET I /\ (\A q \in I : cut[q] <= c) /\ (\A q \in I \ I : cut[q] = 0)
    BY <1>1, <1>3
  <2> HIDE DEF c
  <2>2. sc <= n * c
    BY <1>5, <2>1, SumsBound
  <2> QED
    BY <2>2 DEF c
<1> HIDE DEF sw, sc, n
<1> DEFINE left == total - sw
<1>12. left * all = sc
  <2>1. left * all = total * all - sw * all /\ total * all = all * total
        /\ total * all \in Int /\ sw * all \in Int
    BY <1>1, <1>6, Distributes
  <2> QED
    BY <1>6, <1>7, <1>8, <1>9, <2>1
<1>13. left \in Int
  BY <1>1, <1>6
<1> HIDE DEF left
<1>14. left >= 0
  <2> SUFFICES ASSUME left <= 0 - 1 PROVE FALSE
    BY <1>13
  <2>1. all * (left + 1) <= 0
    BY <1>1, <1>13, TimesNoneOrLess
  <2>2. all * (left + 1) = left * all + all /\ left * all \in Int
    <3>1. all * (left + 1) = all * left + all * 1 /\ all * left = left * all /\ all * left \in Int
      BY <1>1, <1>13, Distributes
    <3>2. all * 1 = all
      BY <1>1
    <3> QED
      BY <3>1, <3>2
  <2> QED
    BY <1>1, <1>6, <1>12, <2>1, <2>2
<1>15. left < n
  <2> SUFFICES ASSUME n <= left PROVE FALSE
    BY <1>2, <1>13
  <2>1. n * all <= left * all
    BY <1>1, <1>2, <1>13, <1>14, ProductsGrow
  <2>2. n * (all - 1) = n * all - n * 1 /\ n * all \in Int /\ n * 1 = n
    <3>1. n * 1 = n
      BY <1>2
    <3> QED
      BY <1>1, <1>2, <3>1, Distributes
  <2> QED
    BY <1>2, <1>6, <1>11, <1>12, <2>1, <2>2
<1>16. left = total - Q!Sum(I, whole)
  BY <1>10 DEF left
<1> QED
  BY <1>5, <1>6, <1>10, <1>12, <1>13, <1>14, <1>15, <1>16 DEF all, whole, cut, n, sw, sc

\* Everyone has a place of their own in the order the slots left over are served in.
LEMMA PlacesAre ==
  ASSUME NEW I, IsFiniteSet(I), I \subseteq Nat, NEW cut, \A q \in I : cut[q] \in Nat
  PROVE  LET place(q) == Cardinality(Q!Before(I, cut, q))
         IN /\ \A q \in I : /\ place(q) \in 0..Cardinality(I) - 1
                            /\ Q!Before(I, cut, q) \in SUBSET I /\ IsFiniteSet(Q!Before(I, cut, q))
            /\ \A p, q \in I : p \in Q!Before(I, cut, q) => place(p) < place(q)
            /\ \A p, q \in I : place(p) = place(q) => p = q
<1> DEFINE ahead(q) == Q!Before(I, cut, q)
           place(q) == Cardinality(ahead(q))
<1>1. \A p, q \in I : p \in ahead(q) <=> cut[p] > cut[q] \/ (cut[p] = cut[q] /\ p < q)
  BY DEF Q!Before
<1>2. \A q \in I : ahead(q) \in SUBSET I /\ q \notin ahead(q)
  <2>1. \A q \in I : ahead(q) \in SUBSET I
    BY DEF Q!Before
  <2>2. \A q \in I : q \notin ahead(q)
    BY <1>1
  <2> QED
    BY <2>1, <2>2
<1>3. \A p, q \in I : p \in ahead(q) => ahead(p) \in SUBSET ahead(q)
  <2> SUFFICES ASSUME NEW p \in I, NEW q \in I, p \in ahead(q), NEW o \in ahead(p)
               PROVE  o \in ahead(q)
    OBVIOUS
  <2>1. o \in I
    BY <1>2
  <2>2. cut[o] \in Nat /\ cut[p] \in Nat /\ cut[q] \in Nat /\ o \in Nat /\ p \in Nat /\ q \in Nat
    BY <2>1
  <2>3. cut[o] > cut[p] \/ (cut[o] = cut[p] /\ o < p)
    BY <1>1, <2>1
  <2>4. cut[p] > cut[q] \/ (cut[p] = cut[q] /\ p < q)
    BY <1>1
  <2>5. cut[o] > cut[q] \/ (cut[o] = cut[q] /\ o < q)
    BY <2>2, <2>3, <2>4
  <2> QED
    BY <1>1, <2>1, <2>5
<1>4. \A p, q \in I : p # q => p \in ahead(q) \/ q \in ahead(p)
  BY <1>1
<1> HIDE DEF ahead
<1>5. \A q \in I : IsFiniteSet(ahead(q)) /\ place(q) \in Nat
  <2> SUFFICES ASSUME NEW q \in I PROVE IsFiniteSet(ahead(q)) /\ place(q) \in Nat
    OBVIOUS
  <2>1. ahead(q) \in SUBSET I
    BY <1>2
  <2>2. IsFiniteSet(ahead(q))
    BY <2>1, FS_Subset
  <2> QED
    BY <2>2, FS_CardinalityType
<1>6. \A p, q \in I : p \in ahead(q) => place(p) < place(q)
  <2> SUFFICES ASSUME NEW p \in I, NEW q \in I, p \in ahead(q) PROVE place(p) < place(q)
    OBVIOUS
  <2>1. ahead(p) \in SUBSET ahead(q) /\ ahead(p) # ahead(q) /\ IsFiniteSet(ahead(q))
    BY <1>2, <1>3, <1>5
  <2>2. place(p) <= place(q) /\ place(p) # place(q)
    BY <2>1, FS_Subset
  <2> QED
    BY <1>5, <2>2
<1>7. \A q \in I : place(q) < Cardinality(I) /\ Cardinality(I) \in Nat
  <2> SUFFICES ASSUME NEW q \in I PROVE place(q) < Cardinality(I) /\ Cardinality(I) \in Nat
    OBVIOUS
  <2>1. ahead(q) \in SUBSET I /\ ahead(q) # I
    BY <1>2
  <2>2. place(q) <= Cardinality(I) /\ place(q) # Cardinality(I) /\ Cardinality(I) \in Nat
    BY <2>1, FS_Subset, FS_CardinalityType
  <2> QED
    BY <1>5, <2>2
<1>8. \A q \in I : place(q) \in 0..Cardinality(I) - 1
  BY <1>5, <1>7
<1>9. \A p, q \in I : place(p) = place(q) => p = q
  BY <1>4, <1>5, <1>6
<1> QED
  BY <1>2, <1>5, <1>6, <1>8, <1>9 DEF ahead

\* As many are served as there are slots left.
LEMMA ServedAre ==
  ASSUME NEW I, IsFiniteSet(I), I \subseteq Nat, NEW cut, \A q \in I : cut[q] \in Nat,
         NEW left \in Nat, left < Cardinality(I)
  PROVE  Cardinality({q \in I : Cardinality(Q!Before(I, cut, q)) < left}) = left
<1> DEFINE n == Cardinality(I)
           place == [q \in I |-> Cardinality(Q!Before(I, cut, q))]
           served == {q \in I : place[q] < left}
           other == {q \in I : ~(place[q] < left)}
<1>1. /\ \A q \in I : place[q] \in 0..n - 1
      /\ \A p, q \in I : place[p] = place[q] => p = q
  BY PlacesAre
<1>2. n \in Nat
  BY FS_CardinalityType
<1>3. served = {q \in I : Cardinality(Q!Before(I, cut, q)) < left}
  OBVIOUS
<1> HIDE DEF place, n
<1>4. IsFiniteSet(served) /\ Cardinality(served) <= left
  <2> DEFINE T == 0..left - 1
             f == [q \in served |-> place[q]]
  <2>1. f \in [served -> T]
    <3>1. \A q \in served : place[q] \in T
      BY <1>1, <1>2
    <3> HIDE DEF T, served
    <3> QED
      BY <3>1
  <2>2. \A p, q \in served : f[p] = f[q] => p = q
    BY <1>1
  <2>3. IsFiniteSet(T) /\ Cardinality(T) = left
    BY UpTo
  <2> HIDE DEF T, f, served
  <2>4. f \in Injection(served, T)
    BY <2>1, <2>2 DEF Injection, IsInjective
  <2> QED
    BY <2>3, <2>4, FS_Injection
<1>5. IsFiniteSet(other) /\ Cardinality(other) <= n - left
  <2> DEFINE T == left..n - 1
             f == [q \in other |-> place[q]]
  <2>1. f \in [other -> T]
    <3>1. \A q \in other : place[q] \in T
      BY <1>1, <1>2
    <3> HIDE DEF T, other
    <3> QED
      BY <3>1
  <2>2. \A p, q \in other : f[p] = f[q] => p = q
    BY <1>1
  <2>3. IsFiniteSet(T) /\ Cardinality(T) = n - left
    <3>1. left \in Int /\ n - 1 \in Int /\ ~(left > n - 1)
      BY <1>2 DEF n
    <3>2. IsFiniteSet(T) /\ Cardinality(T) = IF left > n - 1 THEN 0 ELSE n - 1 - left + 1
      BY <3>1, FS_Interval
    <3> QED
      BY <1>2, <3>1, <3>2
  <2> HIDE DEF T, f, other
  <2>4. f \in Injection(other, T)
    BY <2>1, <2>2 DEF Injection, IsInjective
  <2> QED
    BY <2>3, <2>4, FS_Injection
<1>6. served \cup other = I /\ served \cap other = {}
  OBVIOUS
<1> HIDE DEF served, other
<1>7. /\ Cardinality(served) \in Nat /\ Cardinality(other) \in Nat
      /\ n = Cardinality(served) + Cardinality(other) - 0
  <2>1. Cardinality(served) \in Nat /\ Cardinality(other) \in Nat /\ Cardinality({}) = 0
    BY <1>4, <1>5, FS_CardinalityType, FS_EmptySet
  <2>2. Cardinality(served \cup other) =
          Cardinality(served) + Cardinality(other) - Cardinality(served \cap other)
    BY <1>4, <1>5, FS_Union
  <2> QED
    BY <1>6, <2>1, <2>2 DEF n
<1> QED
  BY <1>2, <1>3, <1>4, <1>5, <1>7

\* With fewer slots left over than queries, a query has a turn or it has none.
LEMMA TurnsAre ==
  ASSUME NEW I, IsFiniteSet(I), I \subseteq Nat, NEW cut, \A q \in I : cut[q] \in Nat,
         NEW left \in Nat, left < Cardinality(I), NEW q \in I
  PROVE  Q!Cardinality(Q!Turns(I, cut, left, q)) =
           IF Cardinality(Q!Before(I, cut, q)) < left THEN 1 ELSE 0
<1> DEFINE place == Cardinality(Q!Before(I, cut, q))
           n == Cardinality(I)
           turns == {k \in 0..(left - 1) : k % n = place}
<1>1. place \in 0..n - 1
  BY PlacesAre
<1>2. n \in Nat
  BY FS_CardinalityType
<1>3. Q!Turns(I, cut, left, q) = turns
  BY SameSize DEF Q!Turns
<1> HIDE DEF place, n
<1>4. \A k \in 0..(left - 1) : k % n = k
  BY <1>2 DEF n
<1>5. turns = IF place < left THEN {place} ELSE {}
  <2>1. CASE place < left
    <3>1. place \in 0..(left - 1) /\ place \in Nat
      BY <1>1, <1>2, <2>1
    <3>2. \A k : k \in turns <=> k \in {place}
      BY <1>4, <3>1
    <3> HIDE DEF turns
    <3> QED
      BY <2>1, <3>2
  <2>2. CASE ~(place < left)
    <3>1. \A k : k \notin turns
      BY <1>1, <1>2, <1>4, <2>2
    <3> HIDE DEF turns
    <3> QED
      BY <2>2, <3>1
  <2> HIDE DEF turns
  <2> QED
    BY <2>1, <2>2
<1> HIDE DEF turns
<1>6. Cardinality(turns) = IF place < left THEN 1 ELSE 0
  BY <1>5, FS_EmptySet, FS_Singleton
<1> QED
  BY <1>3, <1>6, SameSize DEF place

\* What each query of the mix is given.
Extras(I, cut, left) == [q \in I |-> IF Cardinality(Q!Before(I, cut, q)) < left THEN 1 ELSE 0]

LEMMA SharesAre ==
  ASSUME NEW pools, NEW weights, NEW total, Mixing(Q!Firing(pools, weights), weights, total)
  PROVE  LET I == Q!Firing(pools, weights)
             cut == Q!Cut(I, weights, total)
             whole == Q!Whole(I, weights, total)
             left == total - Q!Sum(I, whole)
             shares == Q!Shares(pools, weights, total)
         IN /\ DOMAIN shares = I
            /\ \A q \in I : shares[q] = whole[q] + Extras(I, cut, left)[q] /\ shares[q] \in Nat
            /\ Q!Sum(I, shares) = total
<1> DEFINE I == Q!Firing(pools, weights)
           cut == Q!Cut(I, weights, total)
           whole == Q!Whole(I, weights, total)
           left == total - Q!Sum(I, whole)
           shares == Q!Shares(pools, weights, total)
           extras == Extras(I, cut, left)
           served == {q \in I : Cardinality(Q!Before(I, cut, q)) < left}
<1>1. shares = [q \in I |-> whole[q] + Q!Cardinality(Q!Turns(I, cut, left, q))]
  BY DEF Q!Shares
<1>2. IsFiniteSet(I) /\ I \subseteq Nat /\ total \in Nat
  BY DEF Mixing
<1>3. /\ Counts(I, whole) /\ Counts(I, cut) /\ left \in Nat /\ left < Cardinality(I)
      /\ Q!Sum(I, whole) = Cardinality(Q!Units(I, whole)) /\ Q!Sum(I, whole) \in Nat
  BY LeftOver
<1>4. left = total - Q!Sum(I, whole)
  OBVIOUS
<1> HIDE DEF I, cut, whole, left, shares
<1>5. \A q \in I : cut[q] \in Nat /\ whole[q] \in Nat
  BY <1>3 DEF Counts
<1>6. \A q \in I : /\ extras[q] = Q!Cardinality(Q!Turns(I, cut, left, q))
                   /\ extras[q] \in {0, 1} /\ (extras[q] = 1 <=> q \in served)
  <2> SUFFICES ASSUME NEW q \in I
               PROVE  /\ extras[q] = Q!Cardinality(Q!Turns(I, cut, left, q))
                      /\ extras[q] \in {0, 1} /\ (extras[q] = 1 <=> q \in served)
    OBVIOUS
  <2>1. Q!Cardinality(Q!Turns(I, cut, left, q)) =
          IF Cardinality(Q!Before(I, cut, q)) < left THEN 1 ELSE 0
    BY <1>2, <1>3, <1>5, TurnsAre
  <2>2. extras[q] = IF Cardinality(Q!Before(I, cut, q)) < left THEN 1 ELSE 0
    BY DEF Extras
  <2>3. q \in served <=> Cardinality(Q!Before(I, cut, q)) < left
    OBVIOUS
  <2> HIDE DEF extras, served
  <2> QED
    BY <2>1, <2>2, <2>3
<1>7. DOMAIN shares = I /\ \A q \in I : shares[q] = whole[q] + extras[q]
  BY <1>1, <1>6
<1>8. Cardinality(served) = left
  BY <1>2, <1>3, <1>5, ServedAre
<1>9. served \in SUBSET I
  OBVIOUS
<1> HIDE DEF extras, served
<1>10. Counts(I, extras)
  BY <1>2, <1>6 DEF Counts
<1>11. Cardinality(Q!Units(I, extras)) = left
  BY <1>6, <1>8, <1>9, <1>10, SumOfOnes
<1>12. Cardinality(Q!Units(I, shares)) =
         Cardinality(Q!Units(I, whole)) + Cardinality(Q!Units(I, extras))
  BY <1>3, <1>7, <1>10, SumsAdd
<1>13. Q!Sum(I, shares) = total
  <2>1. Q!Sum(I, shares) = Cardinality(Q!Units(I, shares))
    BY SameSize DEF Q!Sum
  <2> QED
    BY <1>2, <1>3, <1>4, <1>11, <1>12, <2>1
<1>14. \A q \in I : shares[q] \in Nat
  BY <1>5, <1>6, <1>7
<1> QED
  BY <1>7, <1>13, <1>14 DEF I, cut, whole, left, shares, extras

\* A query that gets one of the slots left over had a part of a slot cut off.
LEMMA ServedWereCut ==
  ASSUME NEW I, NEW w, NEW total, Mixing(I, w, total), NEW q \in I,
         Cardinality(Q!Before(I, Q!Cut(I, w, total), q)) < total - Q!Sum(I, Q!Whole(I, w, total))
  PROVE  Q!Cut(I, w, total)[q] > 0
<1> DEFINE all == Q!Sum(I, w)
           cut == Q!Cut(I, w, total)
           left == total - Q!Sum(I, Q!Whole(I, w, total))
           ahead == Q!Before(I, cut, q)
           j == Cardinality(ahead)
           c == all - 1
           sc == Cardinality(Q!Units(I, cut))
<1>1. all \in Nat \ {0} /\ IsFiniteSet(I) /\ I \subseteq Nat
  BY AllIs DEF Mixing
<1>2. \A p \in I : cut[p] \in 0..all - 1
  BY PartsOfShare
<1>3. Counts(I, cut) /\ left \in Nat /\ left * all = sc
  BY LeftOver
<1>4. j < left
  OBVIOUS
<1>5. \A p \in I : cut[p] \in Nat /\ cut[p] <= c
  <2> HIDE DEF all, cut
  <2> QED
    BY <1>1, <1>2
<1>6. \A p \in I : p \in ahead <=> cut[p] > cut[q] \/ (cut[p] = cut[q] /\ p < q)
  BY DEF Q!Before
<1>7. ahead \in SUBSET I
  BY DEF Q!Before
<1> HIDE DEF all, cut, left, ahead
<1> SUFFICES ASSUME cut[q] = 0 PROVE FALSE
  BY <1>5 DEF cut
<1>8. \A p \in I \ ahead : cut[p] = 0
  BY <1>5, <1>6
<1>9. c \in Nat /\ \A p \in ahead : cut[p] <= c
  BY <1>1, <1>5, <1>7
<1> HIDE DEF c, sc
<1>10. j \in Nat /\ sc <= j * c
  BY <1>3, <1>7, <1>8, <1>9, SumsBound DEF sc
<1> HIDE DEF j
<1>11. j * c <= (left - 1) * c
  <2>1. left - 1 \in Nat /\ j <= left - 1
    BY <1>3, <1>4, <1>10
  <2> QED
    BY <1>9, <1>10, <2>1, ProductsGrow
<1>12. left * all = left * c + left /\ (left - 1) * c = left * c - c /\ left * c \in Int
  <2>1. all = c + 1
    BY <1>1 DEF c
  <2>2. left * (c + 1) = left * c + left * 1 /\ left * 1 = left
    BY <1>3, <1>9, Distributes
  <2>3. (left - 1) * c = left * c - 1 * c /\ 1 * c = c /\ left * c \in Int
    BY <1>3, <1>9, Distributes
  <2> QED
    BY <2>1, <2>2, <2>3
<1>13. j * c \in Int /\ sc \in Int
  <2>1. left * all \in Int
    BY <1>1, <1>3, Distributes
  <2> QED
    BY <1>3, <1>9, <1>10, <2>1, Distributes
<1> QED
  BY <1>3, <1>4, <1>9, <1>10, <1>11, <1>12, <1>13

LEMMA MixingWhenFiring ==
  ASSUME NEW pools, NEW weights, Q!IsMix(pools, weights), NEW total \in Nat \ {0},
         Q!Firing(pools, weights) # {}
  PROVE  Mixing(Q!Firing(pools, weights), weights, total)
<1> DEFINE I == Q!Firing(pools, weights)
<1>1. I \in SUBSET (DOMAIN weights) /\ \A q \in I : weights[q] > 0
  BY DEF Q!Firing
<1>2. Q!IsFiniteSet(DOMAIN weights) /\ DOMAIN weights \subseteq Nat
  BY DEF Q!IsMix
<1>3. \A q \in DOMAIN weights : weights[q] \in Int
  BY DEF Q!IsMix
<1>4. IsFiniteSet(DOMAIN weights)
  BY <1>2 DEF Q!IsFiniteSet, IsFiniteSet
<1> HIDE DEF I
<1>5. IsFiniteSet(I)
  BY <1>1, <1>4, FS_Subset
<1> QED
  BY <1>1, <1>2, <1>3, <1>5 DEF Mixing, I

\* The shares a mix is cut into are exact.
LEMMA SharesAreExact ==
  ASSUME NEW pools, NEW weights, Q!IsMix(pools, weights), NEW total \in Nat \ {0},
         Q!Firing(pools, weights) # {}
  PROVE  Q!MixIsExact(pools, weights, total, Q!Shares(pools, weights, total))
<1> DEFINE I == Q!Firing(pools, weights)
           all == Q!Sum(I, weights)
           cut == Q!Cut(I, weights, total)
           whole == Q!Whole(I, weights, total)
           left == total - Q!Sum(I, whole)
           shares == Q!Shares(pools, weights, total)
           place(q) == Cardinality(Q!Before(I, cut, q))
           extras == Extras(I, cut, left)
<1>1. Mixing(I, weights, total)
  BY MixingWhenFiring
<1>2. /\ DOMAIN shares = I /\ Q!Sum(I, shares) = total
      /\ \A q \in I : shares[q] = whole[q] + extras[q] /\ shares[q] \in Nat
  BY <1>1, SharesAre
<1>3. all \in Nat \ {0} /\ IsFiniteSet(I) /\ I \subseteq Nat
  BY <1>1, AllIs DEF Mixing
<1>4. \A q \in I : /\ whole[q] \in Nat /\ cut[q] \in 0..all - 1 /\ weights[q] * total \in Nat
                   /\ weights[q] * total = all * whole[q] + cut[q] /\ all * whole[q] \in Nat
                   /\ weights[q] \in Nat
  <2>1. \A q \in I : weights[q] \in Nat
    BY <1>1 DEF Mixing
  <2> QED
    BY <1>1, <2>1, PartsOfShare
<1>5. \A q \in I : cut[q] = 0 => ~(place(q) < left)
  <2> SUFFICES ASSUME NEW q \in I, cut[q] = 0, place(q) < left PROVE FALSE
    OBVIOUS
  <2>1. cut[q] > 0
    BY <1>1, ServedWereCut
  <2> QED
    BY <2>1
<1>6. left \in Nat
  BY <1>1, LeftOver
<1>7. \A q \in I : extras[q] = IF place(q) < left THEN 1 ELSE 0
  BY DEF Extras
<1>8. \A p, q \in I : cut[p] > cut[q] => place(p) < place(q)
  <2> SUFFICES ASSUME NEW p \in I, NEW q \in I, cut[p] > cut[q] PROVE place(p) < place(q)
    OBVIOUS
  <2>1. \A o \in I : cut[o] \in Nat
    <3> HIDE DEF all, cut
    <3> QED
      BY <1>3, <1>4
  <2>2. p \in Q!Before(I, cut, q)
    BY DEF Q!Before
  <2> HIDE DEF I, cut
  <2> QED
    BY <1>3, <2>1, <2>2, PlacesAre
<1>9. \A q \in I : place(q) \in Int
  <2> SUFFICES ASSUME NEW q \in I PROVE place(q) \in Int
    OBVIOUS
  <2>1. \A o \in I : cut[o] \in Nat
    <3> HIDE DEF all, cut
    <3> QED
      BY <1>3, <1>4
  <2> HIDE DEF I, cut
  <2>2. place(q) \in 0..Cardinality(I) - 1
    BY <1>3, <2>1, PlacesAre
  <2>3. Cardinality(I) \in Nat
    BY <1>3, FS_CardinalityType
  <2> QED
    BY <2>2, <2>3
<1> HIDE DEF I, all, cut, whole, left, shares, place, extras
<1>10. ASSUME NEW q \in I
       PROVE  /\ all * shares[q] < weights[q] * total + all
              /\ all * shares[q] > weights[q] * total - all
              /\ weights[q] * total >= all => shares[q] >= 1
  <2> DEFINE a == weights[q] * total
             d == all * whole[q]
  <2>1. /\ whole[q] \in Nat /\ cut[q] \in 0..all - 1 /\ a \in Nat /\ a = d + cut[q] /\ d \in Nat
        /\ shares[q] = whole[q] + extras[q] /\ shares[q] \in Nat
    BY <1>2, <1>4
  <2>2. extras[q] \in {0, 1} /\ (extras[q] = 1 => cut[q] # 0)
    BY <1>5, <1>7
  <2>3. all * shares[q] = d + all * extras[q]
    BY <1>3, <2>1, <2>2, Distributes
  <2>4. all * extras[q] = IF extras[q] = 1 THEN all ELSE 0
    <3>1. all * 1 = all /\ all * 0 = 0
      BY <1>3
    <3> HIDE DEF all
    <3> QED
      BY <2>2, <3>1
  <2>5. whole[q] = 0 => d = 0
    BY <1>3
  <2> HIDE DEF a, d
  <2>6. all * shares[q] < a + all /\ all * shares[q] > a - all
    BY <1>3, <2>1, <2>2, <2>3, <2>4
  <2>7. a >= all => shares[q] >= 1
    <3> SUFFICES ASSUME a >= all PROVE whole[q] # 0
      BY <2>1, <2>2
    <3> QED
      BY <1>3, <2>1, <2>5
  <2> QED
    BY <2>6, <2>7 DEF a
<1>11. ASSUME NEW q \in I, NEW p \in I, weights[p] > weights[q]
       PROVE  shares[p] >= shares[q]
  <2>1. /\ whole[p] \in Nat /\ cut[p] \in 0..all - 1 /\ all * whole[p] \in Nat
        /\ whole[q] \in Nat /\ cut[q] \in 0..all - 1 /\ all * whole[q] \in Nat
        /\ weights[p] * total = all * whole[p] + cut[p]
        /\ weights[q] * total = all * whole[q] + cut[q]
        /\ shares[p] = whole[p] + extras[p] /\ shares[q] = whole[q] + extras[q]
        /\ extras[p] \in {0, 1} /\ extras[q] \in {0, 1}
    BY <1>2, <1>4, <1>7
  <2>2. weights[q] * total <= weights[p] * total
    BY <1>4, <1>11, ProductsGrow
  <2>3. CASE whole[p] >= whole[q] + 1
    BY <2>1, <2>3
  <2>4. CASE whole[p] < whole[q]
    <3>1. all * (whole[q] - whole[p]) >= all
      BY <1>3, <2>1, <2>4, TimesOneOrMore
    <3>2. all * (whole[q] - whole[p]) = all * whole[q] - all * whole[p]
      BY <1>3, <2>1, Distributes
    <3> DEFINE x == all * whole[q]
               y == all * whole[p]
    <3>3. x - y >= all /\ x \in Nat /\ y \in Nat /\ x + cut[q] <= y + cut[p]
      BY <2>1, <2>2, <3>1, <3>2
    <3> HIDE DEF x, y
    <3> QED
      BY <1>3, <2>1, <3>3
  <2>5. CASE whole[p] = whole[q]
    <3>1. cut[p] > cut[q] \/ cut[p] = cut[q]
      <4> DEFINE y == all * whole[p]
      <4>1. y + cut[q] <= y + cut[p] /\ y \in Nat
        BY <2>1, <2>2, <2>5
      <4>2. cut[p] \in Int /\ cut[q] \in Int
        BY <1>3, <2>1
      <4> HIDE DEF y
      <4> QED
        BY <4>1, <4>2
    <3>2. cut[p] # cut[q]
      <4> SUFFICES ASSUME cut[p] = cut[q] PROVE FALSE
        OBVIOUS
      <4>1. weights[p] * total = weights[q] * total
        BY <2>1, <2>5
      <4>2. total * (weights[p] - weights[q]) >= total
        <5>1. /\ weights[p] - weights[q] \in Int /\ weights[p] - weights[q] >= 1
              /\ total \in Nat
          BY <1>4, <1>11
        <5> QED
          BY <5>1, TimesOneOrMore
      <4>3. /\ total * (weights[p] - weights[q]) = total * weights[p] - total * weights[q]
            /\ total * weights[p] = weights[p] * total /\ total * weights[q] = weights[q] * total
            /\ total * weights[q] \in Int
        BY <1>4, Distributes
      <4> QED
        BY <4>1, <4>2, <4>3
    <3>3. place(p) < place(q)
      BY <1>8, <3>1, <3>2
    <3>4. extras[q] = 1 => extras[p] = 1
      BY <1>6, <1>7, <1>9, <3>3
    <3> QED
      BY <2>1, <2>5, <3>4
  <2> QED
    BY <2>1, <2>3, <2>4, <2>5
<1>12. /\ Q!Sum(DOMAIN shares, shares) = total
       /\ \A q \in DOMAIN shares :
            /\ all * shares[q] < weights[q] * total + all
            /\ all * shares[q] > weights[q] * total - all
            /\ weights[q] * total >= all => shares[q] >= 1
            /\ \A p \in DOMAIN shares : weights[p] > weights[q] => shares[p] >= shares[q]
  BY <1>2, <1>10, <1>11
<1> QED
  BY <1>12 DEF Q!MixIsExact, all, I, shares

-----------------------------------------------------------------------------
(* The draws of a query.                                                     *)

\* Of the numbers below c, those that leave a given remainder.
Leaving(c, m, d) == {k \in 0..c - 1 : k % m = d - 1}

LEMMA RemaindersFew == ASSUME NEW c \in Nat, NEW m, NEW d PROVE IsFiniteSet(Leaving(c, m, d))
<1>1. Leaving(c, m, d) \in SUBSET (0..c - 1) /\ IsFiniteSet(0..c - 1)
  BY UpTo DEF Leaving
<1> QED
  BY <1>1, FS_Subset

\* Nearly as many numbers leave one remainder as another.
LEMMA RemaindersAreEven ==
  ASSUME NEW c \in Nat, NEW m \in Nat \ {0}, NEW d \in 1..m, NEW e \in 1..m, d < e
  PROVE  /\ Cardinality(Leaving(c, m, e)) <= Cardinality(Leaving(c, m, d))
         /\ Cardinality(Leaving(c, m, d)) <= Cardinality(Leaving(c, m, e)) + 1
<1> DEFINE dd == Leaving(c, m, d)
           ee == Leaving(c, m, e)
           less == dd \ {d - 1}
           back == [k \in ee |-> k - (e - d)]
           ahead == [k \in less |-> k - m + (e - d)]
<1>1. IsFiniteSet(dd) /\ IsFiniteSet(ee)
  BY RemaindersFew
<1>2. \A k \in Int : /\ k \in dd <=> k \in 0..c - 1 /\ k % m = d - 1
                     /\ k \in ee <=> k \in 0..c - 1 /\ k % m = e - 1
  BY DEF Leaving
<1>3. dd \subseteq Int /\ ee \subseteq Int
  BY DEF Leaving
<1> HIDE DEF dd, ee
<1>4. ASSUME NEW k \in ee
      PROVE  k \in Int /\ k - (e - d) \in dd
  <2> DEFINE x == k \div m
  <2>1. k \in Int /\ k \in 0..c - 1 /\ k % m = e - 1
    BY <1>2, <1>3
  <2> DEFINE r == k % m
  <2>2. k = m * x + (e - 1) /\ x \in Nat
    <3>1. k \in Nat
      BY <2>1
    <3>2. k = m * x + r /\ x \in Nat
      BY <3>1, DivMod
    <3>3. r = e - 1
      BY <2>1
    <3> HIDE DEF x, r
    <3> QED
      BY <3>2, <3>3
  <2> HIDE DEF x, r
  <2>3. m * x \in Nat
    BY <2>2, ProductsGrow
  <2>4. d - 1 \in 0..m - 1
    OBVIOUS
  <2> DEFINE k2 == m * x + (d - 1)
  <2>5. k2 \in Nat /\ k2 % m = d - 1
    BY <2>2, <2>4, RemainderIs
  <2>6. k2 = k - (e - d)
    BY <2>2, <2>3
  <2> HIDE DEF k2
  <2>7. k2 \in 0..c - 1
    BY <2>1, <2>5, <2>6
  <2> QED
    BY <1>2, <2>1, <2>5, <2>6, <2>7
<1>5. ASSUME NEW k \in less
      PROVE  k \in Int /\ k - m + (e - d) \in ee
  <2> DEFINE x == k \div m
  <2>1. k \in Int /\ k \in 0..c - 1 /\ k % m = d - 1 /\ k # d - 1
    BY <1>2, <1>3
  <2> DEFINE r == k % m
  <2>2. k = m * x + (d - 1) /\ x \in Nat
    <3>1. k \in Nat
      BY <2>1
    <3>2. k = m * x + r /\ x \in Nat
      BY <3>1, DivMod
    <3>3. r = d - 1
      BY <2>1
    <3> HIDE DEF x, r
    <3> QED
      BY <3>2, <3>3
  <2> HIDE DEF x, r
  <2>3. x # 0
    BY <2>1, <2>2
  <2>4. m * (x - 1) = m * x - m /\ m * (x - 1) \in Nat /\ m * x \in Nat
    <3>1. m * (x - 1) = m * x - m * 1 /\ m * 1 = m
      BY <2>2, Distributes
    <3>2. x - 1 \in Nat
      BY <2>2, <2>3
    <3> QED
      BY <2>2, <3>1, <3>2, ProductsGrow
  <2> DEFINE k2 == m * (x - 1) + (e - 1)
  <2>5. k2 \in Nat /\ k2 % m = e - 1
    <3>1. x - 1 \in Nat /\ e - 1 \in 0..m - 1
      BY <2>2, <2>3
    <3> QED
      BY <3>1, RemainderIs
  <2>6. k2 = k - m + (e - d)
    BY <2>1, <2>2, <2>4
  <2> HIDE DEF k2
  <2>7. k2 \in 0..c - 1
    BY <2>1, <2>5, <2>6
  <2> QED
    BY <1>2, <2>1, <2>5, <2>6, <2>7
<1>6. Cardinality(ee) <= Cardinality(dd)
  <2>1. back \in [ee -> dd] /\ \A j, k \in ee : back[j] = back[k] => j = k
    BY <1>4
  <2> HIDE DEF back
  <2>2. back \in Injection(ee, dd)
    BY <2>1 DEF Injection, IsInjective
  <2> QED
    BY <1>1, <2>2, FS_Injection
<1>7. IsFiniteSet(less) /\ Cardinality(dd) <= Cardinality(less) + 1 /\ Cardinality(less) \in Nat
  <2>1. /\ IsFiniteSet(less) /\ Cardinality(dd) \in Nat
        /\ Cardinality(less) = IF d - 1 \in dd THEN Cardinality(dd) - 1 ELSE Cardinality(dd)
    BY <1>1, FS_RemoveElement, FS_CardinalityType
  <2> HIDE DEF less
  <2>2. Cardinality(less) \in Nat
    BY <2>1, FS_CardinalityType
  <2> QED
    BY <2>1, <2>2
<1>8. Cardinality(less) <= Cardinality(ee)
  <2> HIDE DEF less
  <2>1. ahead \in [less -> ee] /\ \A j, k \in less : ahead[j] = ahead[k] => j = k
    BY <1>5
  <2> HIDE DEF ahead
  <2>2. ahead \in Injection(less, ee)
    BY <2>1 DEF Injection, IsInjective
  <2> QED
    BY <1>1, <2>2, FS_Injection
<1>9. Cardinality(dd) \in Nat /\ Cardinality(ee) \in Nat
  BY <1>1, FS_CardinalityType
<1> HIDE DEF less
<1> QED
  BY <1>1, <1>6, <1>7, <1>8, <1>9 DEF dd, ee

\* What the shuffle makes of a mix uses a query's draws evenly.
LEMMA OpsAreEven ==
  ASSUME NEW total \in Nat, NEW pools, NEW s, DOMAIN s = 1..total,
         \A i \in 1..total : pools[s[i]] \in Nat \ {0}
  PROVE  Q!DrawsAreEven(Q!OpsOf(s, pools), pools)
<1> DEFINE fires == Q!OpsOf(s, pools)
           uses(q, d) == {i \in DOMAIN fires : fires[i] = [query |-> q, draw |-> d]}
<1>1. fires = [i \in 1..total |->
                 [query |-> s[i],
                  draw |-> (Cardinality({j \in 1..(i - 1) : s[j] = s[i]}) % pools[s[i]]) + 1]]
  BY SameSize DEF Q!OpsOf
<1>2. SUFFICES ASSUME NEW q \in {fires[i].query : i \in DOMAIN fires},
                      NEW d \in 1..pools[q], NEW e \in 1..pools[q], d < e
               PROVE  Cardinality(uses(q, d)) \in
                        {Cardinality(uses(q, e)), Cardinality(uses(q, e)) + 1}
  BY SameSize DEF Q!DrawsAreEven
<1> DEFINE m == pools[q]
           K == {i \in 1..total : s[i] = q}
           none == [i \in K |-> 0]
           rank == [i \in K |-> Cardinality(Q!Before(K, none, i))]
           c == Cardinality(K)
<1>3. m \in Nat \ {0}
  <2>1. PICK i \in 1..total : fires[i].query = q
    BY <1>1
  <2>2. q = s[i]
    BY <1>1, <2>1
  <2> QED
    BY <2>2
<1>4. IsFiniteSet(K) /\ K \subseteq Nat /\ c \in Nat
  <2>1. K \in SUBSET (1..total) /\ IsFiniteSet(1..total)
    BY FS_Interval
  <2>2. K \subseteq Nat
    OBVIOUS
  <2> HIDE DEF K
  <2>3. IsFiniteSet(K)
    BY <2>1, FS_Subset
  <2> QED
    BY <2>2, <2>3, FS_CardinalityType
<1>5. \A i \in K : none[i] \in Nat /\ none[i] = 0
  OBVIOUS
<1>6. \A i \in K : Q!Before(K, none, i) = {j \in 1..(i - 1) : s[j] = s[i]}
  <2> SUFFICES ASSUME NEW i \in K
               PROVE  Q!Before(K, none, i) = {j \in 1..(i - 1) : s[j] = s[i]}
    OBVIOUS
  <2>1. Q!Before(K, none, i) = {p \in K : p < i}
    BY <1>5 DEF Q!Before
  <2>2. \A p : p \in 1..total /\ p < i <=> p \in 1..(i - 1)
    OBVIOUS
  <2> QED
    BY <2>1, <2>2
<1>7. \A i \in 1..total : /\ i \in DOMAIN fires
                          /\ fires[i] = [query |-> fires[i].query, draw |-> fires[i].draw]
                          /\ fires[i].query = q <=> i \in K
                          /\ i \in K => fires[i].draw = (rank[i] % m) + 1
  <2> SUFFICES ASSUME NEW i \in 1..total
               PROVE  /\ i \in DOMAIN fires
                      /\ fires[i] = [query |-> fires[i].query, draw |-> fires[i].draw]
                      /\ fires[i].query = q <=> i \in K
                      /\ i \in K => fires[i].draw = (rank[i] % m) + 1
    OBVIOUS
  <2>1. i \in DOMAIN fires
    BY <1>1
  <2> DEFINE drawn == (Cardinality({j \in 1..(i - 1) : s[j] = s[i]}) % pools[s[i]]) + 1
  <2>2. fires[i] = [query |-> s[i], draw |-> drawn]
    BY <1>1
  <2>3. i \in K <=> s[i] = q
    OBVIOUS
  <2>4. i \in K => drawn = (rank[i] % m) + 1
    BY <1>6, <2>3
  <2> HIDE DEF fires, drawn, rank, m, K
  <2> QED
    BY <2>1, <2>2, <2>3, <2>4
<1>8. /\ \A i \in K : rank[i] \in 0..c - 1
      /\ \A i, j \in K : rank[i] = rank[j] => i = j
  <2> HIDE DEF K, none
  <2> QED
    BY <1>4, <1>5, PlacesAre
<1>9. /\ \A i \in K : i \in 1..total
      /\ DOMAIN fires = 1..total
  BY <1>1
<1> HIDE DEF K, fires, none
<1>10. \A k \in 0..c - 1 : \E i \in K : rank[i] = k
  <2> DEFINE T == 0..c - 1
  <2>1. rank \in [K -> T] /\ \A i, j \in K : rank[i] = rank[j] => i = j
    BY <1>8
  <2>2. IsFiniteSet(T) /\ Cardinality(T) = c
    BY <1>4, UpTo
  <2> HIDE DEF rank, T
  <2>3. rank \in Injection(K, T)
    BY <2>1 DEF Injection, IsInjective
  <2>4. rank \in Surjection(K, T)
    BY <2>2, <2>3, FS_Injection
  <2> QED
    BY <2>4 DEF Surjection, T
<1> HIDE DEF rank, c
<1>11. ASSUME NEW x \in 1..m
       PROVE  Cardinality(uses(q, x)) = Cardinality(Leaving(c, m, x))
  <2> DEFINE D == uses(q, x)
             L == Leaving(c, m, x)
             f == [i \in D |-> rank[i]]
  <2>1. \A i : i \in D <=> i \in K /\ rank[i] % m = x - 1
    <3> SUFFICES ASSUME NEW i \in 1..total
                 PROVE  i \in D <=> i \in K /\ rank[i] % m = x - 1
      BY <1>9
    <3>1. i \in D <=> fires[i].query = q /\ fires[i].draw = x
      BY <1>7
    <3>2. i \in K => rank[i] % m \in Int
      BY <1>3, <1>4, <1>8
    <3> DEFINE r == rank[i] % m
    <3>3. i \in K => fires[i].draw = r + 1
      BY <1>7
    <3>4. fires[i].query = q <=> i \in K
      BY <1>7
    <3> HIDE DEF r, D
    <3> QED
      BY <1>3, <3>1, <3>2, <3>3, <3>4 DEF r
  <2>2. \A k : k \in L <=> k \in 0..c - 1 /\ k % m = x - 1
    BY DEF Leaving
  <2> HIDE DEF D, L
  <2>3. f \in [D -> L] /\ \A i, j \in D : f[i] = f[j] => i = j
    BY <1>8, <2>1, <2>2
  <2>4. \A k \in L : \E i \in D : f[i] = k
    BY <1>10, <2>1, <2>2
  <2> HIDE DEF f
  <2>5. f \in Bijection(D, L)
    BY <2>3, <2>4 DEF Bijection, Injection, Surjection, IsInjective
  <2>6. IsFiniteSet(D)
    <3>1. D \in SUBSET K
      BY <2>1
    <3> QED
      BY <1>4, <3>1, FS_Subset
  <2>7. ExistsBijection(D, L)
    BY <2>5 DEF ExistsBijection
  <2>8. Cardinality(D) = Cardinality(L)
    BY <2>6, <2>7, FS_Bijection
  <2> QED
    BY <2>8 DEF D, L
<1> HIDE DEF m, uses
<1>12. /\ Cardinality(Leaving(c, m, e)) <= Cardinality(Leaving(c, m, d))
       /\ Cardinality(Leaving(c, m, d)) <= Cardinality(Leaving(c, m, e)) + 1
       /\ Cardinality(Leaving(c, m, e)) \in Nat /\ Cardinality(Leaving(c, m, d)) \in Nat
  <2>1. d \in 1..m /\ e \in 1..m /\ d < e
    BY <1>2 DEF m
  <2>2. IsFiniteSet(Leaving(c, m, d)) /\ IsFiniteSet(Leaving(c, m, e))
    BY <1>4, RemaindersFew
  <2> QED
    BY <1>3, <1>4, <2>1, <2>2, RemaindersAreEven, FS_CardinalityType
<1>13. /\ Cardinality(uses(q, d)) = Cardinality(Leaving(c, m, d))
       /\ Cardinality(uses(q, e)) = Cardinality(Leaving(c, m, e))
  BY <1>2, <1>11 DEF m
<1> QED
  BY <1>12, <1>13

\* A mix's schedule is exact in its shares and even in its draws.
LEMMA MixedAreExact ==
  ASSUME NEW pools, NEW weights, Q!IsMix(pools, weights), NEW total \in Int,
         NEW fires \in Q!MixedSchedules(pools, weights, total), fires # <<>>
  PROVE  /\ Q!MixIsExact(pools, weights, total, Q!Shares(pools, weights, total))
         /\ Q!DrawsAreEven(fires, pools)
<1>1. total \in Nat \ {0} /\ Q!Firing(pools, weights) # {}
  BY DEF Q!MixedSchedules
<1> DEFINE shares == Q!Shares(pools, weights, total)
<1>2. PICK s \in Q!Interleavings(shares, total) : fires = Q!OpsOf(s, pools)
  BY <1>1 DEF Q!MixedSchedules
<1>3. DOMAIN shares = Q!Firing(pools, weights)
  BY <1>1, MixingWhenFiring, SharesAre
<1>4. s \in [1..total -> Q!Firing(pools, weights)]
  BY <1>2, <1>3 DEF Q!Interleavings
<1>5. \A i \in 1..total : pools[s[i]] \in Nat \ {0}
  <2>1. \A q \in Q!Firing(pools, weights) : q \in DOMAIN pools /\ pools[q] > 0
    BY DEF Q!Firing
  <2>2. \A q \in DOMAIN pools : pools[q] \in Nat
    BY DEF Q!IsMix
  <2> QED
    BY <1>4, <2>1, <2>2
<1>6. Q!DrawsAreEven(fires, pools)
  BY <1>1, <1>2, <1>4, <1>5, OpsAreEven
<1> QED
  BY <1>1, <1>6, SharesAreExact

-----------------------------------------------------------------------------
(* The arrivals of an open run.                                              *)

LEMMA QuotientBounds ==
  ASSUME NEW c \in Nat \ {0}, NEW a \in Nat, NEW x \in Int
  PROVE  x <= a \div c <=> c * x <= a
<1> DEFINE d == a \div c
           r == a % c
<1>1. a = c * d + r /\ d \in Nat /\ r \in 0..c - 1
  BY DivMod
<1> HIDE DEF d, r
<1>2. /\ c * (d - x) = c * d - c * x /\ c * (x - d) = c * x - c * d
      /\ c * x \in Int /\ c * d \in Int
  BY <1>1, Distributes
<1>3. d - x \in Nat => c * (d - x) \in Nat
  BY ProductsGrow
<1>4. x - d >= 1 => c * (x - d) >= c
  BY <1>1, TimesOneOrMore
<1> DEFINE u == c * d
           v == c * x
<1>5. x <= d => v <= a
  <2> SUFFICES ASSUME x <= d PROVE v <= a
    OBVIOUS
  <2>1. c * (d - x) \in Nat
    BY <1>1, <1>3
  <2>2. u - v \in Nat /\ u \in Int /\ v \in Int /\ a = u + r
    BY <1>1, <1>2, <2>1
  <2> HIDE DEF u, v
  <2> QED
    BY <1>1, <2>2
<1>6. ~(x <= d) => ~(v <= a)
  <2> SUFFICES ASSUME x > d PROVE v > a
    BY <1>1, <1>2
  <2>1. c * (x - d) >= c
    BY <1>1, <1>4
  <2>2. v - u >= c /\ u \in Int /\ v \in Int /\ a = u + r
    BY <1>1, <1>2, <2>1
  <2> HIDE DEF u, v
  <2> QED
    BY <1>1, <2>2
<1> QED
  BY <1>5, <1>6 DEF d

\* The arrivals that fall in a warmup are the first so many.
LEMMA SkippedAre ==
  ASSUME NEW step \in Nat \ {0}, NEW warmup \in Nat
  PROVE  \E p \in Nat : /\ warmup <= p * step /\ p * step < warmup + step
                        /\ \A i \in Int : i > p <=> (i - 1) * step >= warmup
<1> DEFINE a == warmup + step - 1
           p == a \div step
           r == a % step
<1>1. a \in Nat
  OBVIOUS
<1> HIDE DEF a
<1>2. a = step * p + r /\ p \in Nat /\ r \in 0..step - 1
  BY <1>1, DivMod
<1>3. step * p = p * step /\ step * p \in Int
  BY <1>2, Distributes
<1> DEFINE u == p * step
<1>4. u \in Int /\ a = u + r
  BY <1>2, <1>3
<1> HIDE DEF r, u
<1>5. warmup <= u /\ u < warmup + step
  BY <1>2, <1>4 DEF a
<1>6. ASSUME NEW i \in Int
      PROVE  i > p <=> (i - 1) * step >= warmup
  <2>1. i <= p <=> step * i <= a
    BY <1>1, QuotientBounds
  <2>2. (i - 1) * step = i * step - 1 * step /\ 1 * step = step /\ i * step = step * i /\ i * step \in Int
    BY Distributes
  <2> DEFINE v == i * step
  <2>3. (i - 1) * step = v - step /\ v \in Int /\ (i <= p <=> v <= a)
    BY <2>1, <2>2
  <2> HIDE DEF v, p
  <2> QED
    BY <1>2, <2>3 DEF a
<1> QED
  BY <1>2, <1>5, <1>6 DEF u

\* What the interval's cut moves into the warmup, and no more, is lost.
LEMMA LostIs ==
  ASSUME NEW rate \in Nat \ {0}, NEW step \in Nat \ {0}, NEW cut \in Nat, Second \in Nat \ {0},
         Second = rate * step + cut, NEW warmup \in Nat, NEW p \in Nat,
         warmup <= p * step, p * step < warmup + step,
         NEW x \in Nat, Second * x <= rate * warmup, rate * warmup < Second * x + Second
  PROVE  /\ x <= p
         /\ \A lost \in Int : lost <= p - x => (lost - 2) * step * Second < warmup * cut
<1> DEFINE sec == Second
<1>1. sec \in Nat \ {0} /\ sec = rate * step + cut /\ sec * x <= rate * warmup
      /\ rate * warmup < sec * x + sec
  OBVIOUS
<1> HIDE DEF sec
<1>2. /\ rate * warmup \in Nat /\ sec * x \in Nat /\ p * step \in Nat /\ sec * p \in Nat
      /\ rate * step \in Nat /\ warmup * cut \in Nat
  BY <1>1, ProductsGrow
<1>3. x <= p
  <2>1. rate * warmup <= rate * (p * step) /\ rate * (p * step) \in Nat
    BY <1>2, ProductsGrow
  <2>2. rate * (p * step) = (rate * step) * p
    OBVIOUS
  <2>3. (rate * step) * p <= sec * p
    BY <1>1, <1>2, ProductsGrow
  <2>4. sec * x <= sec * p
    BY <1>1, <1>2, <2>1, <2>2, <2>3
  <2> SUFFICES ASSUME x - p >= 1 PROVE FALSE
    OBVIOUS
  <2>5. sec * (x - p) >= sec /\ sec * (x - p) = sec * x - sec * p
    BY <1>1, TimesOneOrMore, Distributes
  <2> QED
    BY <1>1, <1>2, <2>4, <2>5
<1>4. (p - x - 2) * (step * sec) < warmup * cut
  <2> DEFINE pss == (p * step) * sec
             wsec == warmup * sec
             ssec == step * sec
             xss == (sec * x) * step
             rws == (rate * warmup) * step
             wrs == warmup * (rate * step)
  <2>1. (p - x - 2) * ssec = pss - xss - 2 * ssec
    <3>1. ssec \in Int
      BY <1>1, Distributes
    <3>2. (p - x - 2) * ssec = p * ssec - x * ssec - 2 * ssec
      <4>1. (p - x - 2) * ssec = (p - x) * ssec - 2 * ssec /\ (p - x) * ssec = p * ssec - x * ssec
        BY <3>1, Distributes
      <4> QED
        BY <4>1
    <3>3. p * ssec = pss /\ x * ssec = xss
      BY <1>1
    <3> QED
      BY <3>2, <3>3
  <2>2. pss < wsec + ssec
    <3>1. sec * (warmup + step - p * step) >= sec
      BY <1>1, <1>2, TimesOneOrMore
    <3> DEFINE y == p * step
    <3>2. y \in Int
      BY <1>2
    <3> HIDE DEF y
    <3>3. /\ sec * ((warmup + step) - y) = sec * (warmup + step) - sec * y
          /\ sec * (warmup + step) = sec * warmup + sec * step
          /\ sec * warmup \in Int /\ sec * step \in Int /\ sec * y \in Int
      BY <1>1, <3>2, Distributes
    <3>4. sec * y = y * sec /\ sec * warmup = wsec /\ sec * step = ssec
      BY <1>1, <3>2, Distributes
    <3>5. sec * warmup + sec * step - sec * y >= sec
      BY <3>1, <3>3 DEF y
    <3> DEFINE i == sec * warmup
               j == sec * step
               k == sec * y
    <3>6. i + j - k >= sec /\ i \in Int /\ j \in Int /\ k \in Int
      BY <3>3, <3>5
    <3>7. i = wsec /\ j = ssec /\ k = pss
      BY <3>4 DEF y
    <3> HIDE DEF i, j, k, pss, wsec, ssec
    <3> QED
      BY <1>1, <3>6, <3>7
  <2>3. rws - ssec < xss
    <3>1. step * ((sec * x + sec) - rate * warmup) >= step
      BY <1>1, <1>2, TimesOneOrMore
    <3> DEFINE y == sec * x
               z == rate * warmup
    <3>2. y \in Int /\ z \in Int
      BY <1>2
    <3> HIDE DEF y, z
    <3>3. /\ step * ((y + sec) - z) = step * (y + sec) - step * z
          /\ step * (y + sec) = step * y + step * sec
          /\ step * y \in Int /\ step * z \in Int /\ step * sec \in Int
      BY <1>1, <3>2, Distributes
    <3>4. step * y = y * step /\ step * z = z * step
      BY <3>2, Distributes
    <3>8. step * ((y + sec) - z) >= step
      BY <3>1 DEF y, z
    <3>5. step * y + step * sec - step * z >= step
      BY <3>3, <3>8
    <3> DEFINE i == step * y
               j == step * sec
               k == step * z
    <3>6. i + j - k >= step /\ i \in Int /\ j \in Int /\ k \in Int
      BY <3>3, <3>5
    <3>7. i = xss /\ j = ssec /\ k = rws
      BY <3>4 DEF y, z
    <3> HIDE DEF i, j, k, xss, ssec, rws
    <3> QED
      BY <1>1, <3>6, <3>7
  <2>4. rws = wrs /\ wsec = wrs + warmup * cut
    <3>1. rws = wrs
      OBVIOUS
    <3>2. warmup * sec = warmup * (rate * step) + warmup * cut
      BY <1>1, <1>2, Distributes
    <3> QED
      BY <3>1, <3>2
  <2>5. pss \in Int /\ wsec \in Int /\ ssec \in Int /\ xss \in Int /\ rws \in Int /\ wrs \in Int
    BY <1>1, <1>2, Distributes
  <2> DEFINE wc == warmup * cut
  <2>6. wsec = wrs + wc /\ wc \in Int
    BY <1>2, <2>4
  <2>7. pss - xss - 2 * ssec < wc
    <3> HIDE DEF pss, wsec, ssec, xss, rws, wrs, wc
    <3> QED
      BY <2>2, <2>3, <2>4, <2>5, <2>6
  <2> QED
    BY <2>1, <2>7
<1>5. ASSUME NEW lost \in Int, lost <= p - x
      PROVE  (lost - 2) * step * sec < warmup * cut
  <2> DEFINE ss == step * sec
             short == (p - x - 2) - (lost - 2)
  <2>1. ss \in Nat
    BY <1>1, ProductsGrow
  <2>2. (lost - 2) * step * sec = (lost - 2) * ss
    BY <1>1
  <2> HIDE DEF ss
  <2>3. short \in Nat
    BY <1>5
  <2>4. short * ss = (p - x - 2) * ss - (lost - 2) * ss /\ short * ss \in Nat
        /\ (p - x - 2) * ss \in Int /\ (lost - 2) * ss \in Int
    <3>1. p - x - 2 \in Int /\ lost - 2 \in Int
      OBVIOUS
    <3> QED
      BY <2>1, <2>3, <3>1, Distributes, ProductsGrow
  <2> DEFINE i == (p - x - 2) * ss
             j == (lost - 2) * ss
  <2>5. i - j \in Nat /\ i \in Int /\ j \in Int
    BY <2>4
  <2>6. i < warmup * cut
    BY <1>4 DEF ss
  <2> HIDE DEF i, j
  <2>7. j < warmup * cut
    BY <1>2, <2>5, <2>6
  <2> QED
    BY <2>2, <2>7 DEF j
<1> QED
  BY <1>3, <1>5 DEF sec

\* An open run records what it was asked to, within its window.
LEMMA OpenRunRecords ==
  ASSUME Second \in Nat \ {0}, NEW count \in Nat, NEW rate \in Int, NEW warmup \in Nat
  PROVE  LET total == Q!MixTotal(count, rate, warmup)
         IN Q!WindowHoldsRecorded(Q!Recorded(total, rate, warmup), count, rate, warmup)
<1> DEFINE total == Q!MixTotal(count, rate, warmup)
           kept == Q!Recorded(total, rate, warmup)
           step == Second \div rate
           cut == Second % rate
           lost == count - Cardinality(kept)
<1> SUFFICES ASSUME rate \in 1..Second
             PROVE  /\ lost >= 0
                    /\ (lost - 2) * step * Second < warmup * cut
                    /\ \A i \in kept : Q!Offset(i, rate) - warmup <= Q!Window(total, rate, warmup)
  BY SameSize DEF Q!WindowHoldsRecorded, Q!Interval
<1>1. /\ rate \in Nat \ {0} /\ Second = rate * step + cut /\ step \in Nat \ {0} /\ cut \in Nat
  <2>1. rate \in Nat \ {0}
    OBVIOUS
  <2>2. Second = rate * step + cut /\ step \in Nat /\ cut \in 0..rate - 1
    BY <2>1, DivMod
  <2>3. step # 0
    <3> SUFFICES ASSUME step = 0 PROVE FALSE
      OBVIOUS
    <3>1. rate * 0 = 0
      BY <2>1
    <3> HIDE DEF step, cut
    <3> QED
      BY <2>1, <2>2, <3>1
  <2> HIDE DEF step, cut
  <2> QED
    BY <2>1, <2>2, <2>3
<1>2. \A i : Q!Offset(i, rate) = (i - 1) * step
  BY <1>1 DEF Q!Offset, Q!Interval
<1> DEFINE a == rate * warmup
           x == a \div Second
<1>3. total = count + x
  BY DEF Q!MixTotal
<1>4. a \in Nat
  BY <1>1, ProductsGrow
<1>5. x \in Nat /\ Second * x <= a /\ a < Second * x + Second
  <2> HIDE DEF a
  <2> DEFINE r == a % Second
  <2>1. a = Second * x + r /\ x \in Nat /\ r \in 0..Second - 1
    BY <1>4, DivMod
  <2> DEFINE y == Second * x
  <2>2. y \in Nat
    BY <2>1, ProductsGrow
  <2> HIDE DEF x, r, y
  <2>3. y <= a /\ a < y + Second
    BY <2>1, <2>2 DEF y
  <2> QED
    BY <2>1, <2>3 DEF y
<1>6. kept = {i \in 1..total : (i - 1) * step >= warmup}
  BY <1>2 DEF Q!Recorded
<1>7. PICK p \in Nat : /\ warmup <= p * step /\ p * step < warmup + step
                       /\ \A i \in Int : i > p <=> (i - 1) * step >= warmup
  BY <1>1, SkippedAre
<1> HIDE DEF step, cut, x, total, kept
<1>8. /\ x <= p
      /\ \A lose \in Int : lose <= p - x => (lose - 2) * step * Second < warmup * cut
  BY <1>1, <1>5, <1>7, LostIs
<1>9. kept = (p + 1)..total /\ total \in Nat
  <2>1. total \in Nat
    BY <1>3, <1>5
  <2>2. kept = {i \in 1..total : i > p}
    BY <1>6, <1>7, <2>1
  <2> QED
    BY <2>1, <2>2
<1>10. Cardinality(kept) = IF p + 1 > total THEN 0 ELSE total - p
  <2>1. p + 1 \in Int /\ total \in Int
    BY <1>9
  <2>2. Cardinality((p + 1)..total) = IF p + 1 > total THEN 0 ELSE total - (p + 1) + 1
    BY <2>1, FS_Interval
  <2> QED
    BY <1>9, <2>1, <2>2
<1>11. lost \in Int /\ lost >= 0 /\ lost <= p - x
  BY <1>3, <1>5, <1>8, <1>9, <1>10
<1>12. (lost - 2) * step * Second < warmup * cut
  <2> HIDE DEF lost
  <2> QED
    BY <1>8, <1>11
<1>13. ASSUME NEW i \in kept
       PROVE  Q!Offset(i, rate) - warmup <= Q!Window(total, rate, warmup)
  <2> DEFINE b == total * Second
             all == b \div rate
             o == (i - 1) * step
  <2>1. i \in Int /\ i \in 1..total /\ total \in Nat \ {0} /\ i - 1 \in Nat /\ i - 1 <= total
    BY <1>9
  <2>2. b \in Nat /\ o \in Nat
    BY <1>1, <2>1, ProductsGrow
  <2>3. all \in Nat
    <3> HIDE DEF b
    <3> QED
      BY <1>1, <2>2, DivMod
  <2>4. rate * o <= b
    <3>1. rate * o = (i - 1) * (rate * step)
      BY <1>1, <2>1
    <3>2. rate * step <= Second /\ rate * step \in Nat
      <4> DEFINE y == rate * step
      <4>1. y \in Nat
        BY <1>1, ProductsGrow
      <4>2. Second = y + cut
        BY <1>1
      <4> HIDE DEF y
      <4>3. y <= Second
        BY <1>1, <4>1, <4>2
      <4> QED
        BY <4>1, <4>3 DEF y
    <3>3. (i - 1) * (rate * step) <= total * Second
      BY <2>1, <3>2, ProductsGrow
    <3> QED
      BY <3>1, <3>3
  <2>5. o <= all
    <3> HIDE DEF b, o
    <3> QED
      BY <1>1, <2>2, <2>4, QuotientBounds
  <2>6. Q!Window(total, rate, warmup) = IF all > warmup THEN all - warmup ELSE 0
    BY <1>1, <2>1 DEF Q!Window
  <2>7. Q!Offset(i, rate) = o
    BY <1>2
  <2> HIDE DEF o, all
  <2> QED
    BY <2>2, <2>3, <2>5, <2>6, <2>7
<1> QED
  BY <1>11, <1>12, <1>13

-----------------------------------------------------------------------------
(* The warmup pass.                                                          *)

\* The pass stops at the first op that is enough, and the valve is always enough.
LEMMA PassWarms ==
  ASSUME Valve \in Nat, NEW took \in Seq(Nat)
  PROVE  Q!WarmsEveryQuery(Q!Fired(took, 0), took)
<1> DEFINE n == Len(took)
           least == Q!WarmupOps(200 * n)
           elapsed[k \in 0..(Valve + 1)] ==
             IF k = 0 THEN 0 ELSE elapsed[k - 1] + took[((k - 1) % n) + 1]
           done(k) == k > Valve \/ (elapsed[k] > 3 * Second /\ k >= least)
           stops(k) == done(k) /\ \A j \in 0..(k - 1) : ~done(j)
<1>1. Q!Fired(took, 0) = IF n = 0 THEN 0 ELSE CHOOSE k \in 0..(Valve + 1) : stops(k)
  BY DEF Q!Fired
<1>2. n = 0 => least = 0
  BY DEF Q!WarmupOps
<1> HIDE DEF elapsed
<1>3. \E k \in 0..(Valve + 1) : stops(k)
  <2> DEFINE T == {k \in 0..(Valve + 1) : done(k)}
  <2>1. Valve + 1 \in T
    OBVIOUS
  <2>2. T \in SUBSET Int /\ T \in SUBSET (0..(Valve + 1)) /\ IsFiniteSet(0..(Valve + 1))
    BY FS_Interval
  <2>3. \A k : k \in T <=> k \in 0..(Valve + 1) /\ done(k)
    OBVIOUS
  <2> HIDE DEF T, done
  <2>4. IsFiniteSet(T)
    BY <2>2, FS_Subset
  <2>5. PICK m \in T : \A k \in T : m <= k
    BY <2>1, <2>2, <2>4, HasLeast
  <2>6. m \in 0..(Valve + 1) /\ done(m) /\ \A j \in 0..(m - 1) : ~done(j)
    BY <2>3, <2>5
  <2> QED
    BY <2>6
<1>4. n # 0 => done(Q!Fired(took, 0))
  <2> HIDE DEF done, n
  <2> QED
    BY <1>1, <1>3
<1> QED
  BY <1>1, <1>2, <1>4 DEF Q!WarmsEveryQuery

\* The schedules, for every mix, rate and warmup: the shares are exact and the draws even
\* (measure/mixed.go), an open run records within its window what it was asked to
\* (measure/run.go), and the warmup pass reaches every query (cmd/graph-bench/exec.go).
THEOREM SchedulesAreExact == FiguresSpec => []ScheduleIsExact
<1>1. AskedInv => ScheduleIsExact
  <2> SUFFICES ASSUME AskedInv
               PROVE  ScheduleIsExact
    OBVIOUS
  <2>1. ASSUME Answered("mix"), told # <<>>
        PROVE  /\ Q!MixIsExact(asked[1], asked[2], asked[3], Q!Shares(asked[1], asked[2], asked[3]))
               /\ Q!DrawsAreEven(told, asked[1])
    <3>1. Q!IsMix(asked[1], asked[2]) /\ asked[3] \in Int
      BY <2>1, FiguresAssumption DEF AskedInv, Answered
    <3>2. told \in Q!MixedSchedules(asked[1], asked[2], asked[3])
      BY <2>1 DEF AskedInv
    <3> QED
      BY <2>1, <3>1, <3>2, MixedAreExact
  <2>2. ASSUME Answered("open")
        PROVE  Q!WindowHoldsRecorded(told, asked[1], asked[2], asked[3])
    <3>1. asked[1] \in Nat /\ asked[2] \in Int /\ asked[3] \in Nat /\ Second \in Nat \ {0}
      BY <2>2, FiguresAssumption DEF AskedInv, Answered
    <3>2. told = Q!Recorded(Q!MixTotal(asked[1], asked[2], asked[3]), asked[2], asked[3])
      BY <2>2 DEF AskedInv
    <3> QED
      BY <3>1, <3>2, OpenRunRecords
  <2>3. ASSUME Answered("warm"), asked[2] = 0
        PROVE  Q!WarmsEveryQuery(told, asked[1])
    <3>1. asked[1] \in Seq(Nat) /\ Valve \in Nat
      BY <2>3, FiguresAssumption DEF AskedInv, Answered
    <3>2. told = Q!Fired(asked[1], 0)
      BY <2>3 DEF AskedInv
    <3> QED
      BY <3>1, <3>2, PassWarms
  <2> QED
    BY <2>1, <2>2, <2>3 DEF ScheduleIsExact
<1>2. FiguresSpec => []AskedInv
  BY AskedInvInit, AskedInvNext, PTL DEF FiguresSpec
<1> QED
  BY <1>1, <1>2, PTL

================================================================================
