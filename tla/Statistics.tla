------------------------------ MODULE Statistics ------------------------------
(***************************************************************************)
(* What the harness makes of its samples: the summary of a group           *)
(* (measure/measure.go), the drift over a run (drift.go) and the traversal *)
(* rate of a kernel (teps.go), each beside the definition it is held to.   *)
(*                                                                         *)
(* A duration is a natural number of ticks. The code's divisions of        *)
(* floats are exact fractions here, <<numerator, denominator>>.            *)
(***************************************************************************)
EXTENDS Integers, SequencesExt

CONSTANTS
  Classes,  \* query classes
  NoError   \* the nil error of a sample that completed

NoQuery == ""
Zero == <<0, 1>>

\* The samples of a run.
IsSamples(samples) ==
  /\ Len(samples) \in Nat /\ DOMAIN samples = 1..Len(samples)
  /\ \A i \in DOMAIN samples :
       /\ samples[i].class \in Classes
       /\ samples[i].latency \in Nat /\ samples[i].rows \in Nat /\ samples[i].start \in Nat

\* A summary is of a group: the positions of its samples.
Done(samples, group) == {i \in group : samples[i].err = NoError}
LatenciesOfAll(samples, group) == [i \in group |-> samples[i].latency]
Latencies(samples, group) == [i \in Done(samples, group) |-> samples[i].latency]

\* A sum is the number of units its terms have together.
Total(f) == Cardinality(UNION {{i} \X (1..f[i]) : i \in DOMAIN f})

\* The n-th in order: fewer than n are below it, and n are not above it.
NthLeast(f, n) ==
  CHOOSE v \in {f[i] : i \in DOMAIN f} :
    /\ Cardinality({i \in DOMAIN f : f[i] < v}) < n
    /\ n <= Cardinality({i \in DOMAIN f : f[i] <= v})

\* Nearest rank: int(n*p + 0.999999), kept inside the slice. pct is p in hundredths.
Percentile(lat, pct) ==
  LET n == Cardinality(DOMAIN lat)
      rank == (n * pct * 10000 + 999999) \div 1000000
  IN IF n = 0 THEN 0
     ELSE NthLeast(lat, CASE rank < 1 -> 1 [] rank > n -> n [] OTHER -> rank)

SquareRoot(v) == CHOOSE r \in 0..v : r * r <= v /\ v < (r + 1) * (r + 1)

\* The population deviation about the mean, which has been cut to a whole tick.
StdDev(lat, mean) ==
  IF Cardinality(DOMAIN lat) < 2 THEN 0
  ELSE LET squares == [i \in DOMAIN lat |-> (lat[i] - mean) * (lat[i] - mean)]
       IN SquareRoot(Total(squares) \div Cardinality(DOMAIN lat))

FirstError(samples, group) ==
  LET failed == group \ Done(samples, group)
  IN IF failed = {} THEN NoError ELSE samples[Min(failed)].err

SummarizeGroup(class, samples, group, window) ==
  LET lat == Latencies(samples, group)
      n == Cardinality(DOMAIN lat)
      mean == IF n = 0 THEN 0 ELSE Total(lat) \div n
      rows == Total([i \in Done(samples, group) |-> samples[i].rows])
  IN [class |-> class, count |-> Cardinality(group), errors |-> Cardinality(group) - n,
      firstError |-> FirstError(samples, group),
      p50 |-> Percentile(lat, 50), p90 |-> Percentile(lat, 90),
      p95 |-> Percentile(lat, 95), p99 |-> Percentile(lat, 99),
      min |-> IF n = 0 THEN 0 ELSE NthLeast(lat, 1), max |-> IF n = 0 THEN 0 ELSE NthLeast(lat, n),
      mean |-> mean, stdDev |-> StdDev(lat, mean),
      throughput |-> IF n = 0 \/ window = 0 THEN Zero ELSE <<n, window>>,
      rowThroughput |-> IF n = 0 \/ window = 0 THEN Zero ELSE <<rows, window>>]

OfClass(samples, c) == {i \in DOMAIN samples : samples[i].class = c}
OfQuery(samples, q) == {i \in DOMAIN samples : samples[i].query = q}

\* By class every sample; by query those that name one, under the class of the
\* first of them.
Summarize(samples, window) ==
  LET queries == {samples[i].query : i \in DOMAIN samples} \ {NoQuery}
  IN [byClass |-> [c \in {samples[i].class : i \in DOMAIN samples} |->
                     SummarizeGroup(c, samples, OfClass(samples, c), window)],
      byQuery |-> [q \in queries |->
                     LET group == OfQuery(samples, q)
                     IN SummarizeGroup(samples[Min(group)].class, samples, group, window)]]

-----------------------------------------------------------------------------
(* Drift: the run cut into windows by when each sample started.              *)

NoDrift == <<>>  \* the nil map

Median(xs) ==
  LET n == Len(xs)  high == NthLeast(xs, (n \div 2) + 1)
  IN IF n % 2 = 1 THEN high ELSE (NthLeast(xs, n \div 2) + high) \div 2

\* The median of the second half over the median of the first; of an odd number the
\* middle one is in neither.
Trend(p99s) ==
  LET n == Len(p99s)  half == n \div 2
      first == Median([i \in 1..half |-> p99s[i]])
      second == Median([i \in 1..half |-> p99s[n - half + i]])
  IN IF half = 0 \/ first <= 0 THEN Zero ELSE <<second, first>>

WholeWindows(samples, window) ==
  LET starts == {samples[i].start : i \in DOMAIN samples}
  IN Max({0} \cup starts) \div window

InWindow(samples, class, window, w) ==
  {i \in OfClass(samples, class) : samples[i].start \div window = w}

\* A class is compared when no whole window is without a sample of it.
Compared(samples, window) ==
  {c \in {samples[i].class : i \in DOMAIN samples} :
     \A w \in 0..(WholeWindows(samples, window) - 1) :
       InWindow(samples, c, window, w) # {}}

DriftOf(samples, window) ==
  LET windows == WholeWindows(samples, window)
      stat(c, w) == SummarizeGroup(c, samples, InWindow(samples, c, window, w), window)
      p99s(c) == [i \in 1..windows |-> stat(c, i - 1).p99]
      \* The first of the worst windows: the code replaces on strictly greater.
      worst(c) == CHOOSE w \in 0..(windows - 1) :
                    /\ \A v \in 0..(windows - 1) : stat(c, v).p99 <= stat(c, w).p99
                    /\ \A v \in 0..(w - 1) : stat(c, v).p99 < stat(c, w).p99
  IN IF windows < 2 \/ Compared(samples, window) = {} THEN NoDrift
     ELSE [c \in Compared(samples, window) |->
             [windows |-> windows, first |-> stat(c, 0), worst |-> stat(c, worst(c)),
              worstAt |-> worst(c) * window, p99s |-> p99s(c), trend |-> Trend(p99s(c))]]

-----------------------------------------------------------------------------
(* Traversed edges per second.                                               *)

Teps(edges, d) == IF d <= 0 \/ edges <= 0 THEN Zero ELSE <<edges, d>>

\* n over the sum of the reciprocals, of the rates that are positive. All rates of a
\* kernel have the same numerator, its edges, so the reciprocals add over it.
HarmonicMean(rates) ==
  LET positive == {i \in DOMAIN rates : rates[i][1] > 0}
      time == Total([i \in positive |-> rates[i][2]])
  IN IF positive = {} THEN Zero
     ELSE <<Cardinality(positive) * rates[Min(positive)][1], time>>

NewTraversal(edges, durs) ==
  LET perRep == [i \in DOMAIN durs |-> Teps(edges, durs[i])]
  IN [edges |-> edges, perRep |-> perRep, harmonicMean |-> HarmonicMean(perRep)]

\* The analytics protocol keeps the repetitions after the first.
Kept(durs, discardFirst) == IF discardFirst THEN SubSeq(durs, 2, Len(durs)) ELSE durs

-----------------------------------------------------------------------------
(* What the numbers are held to.                                             *)

\* Spec 08 1: "rank = ceil(n*p)". The least latency that at least p of the completed
\* queries did not exceed.
IsNearestRank(v, lat, pct) ==
  LET n == Cardinality(DOMAIN lat)
      atMost(x) == Cardinality({i \in DOMAIN lat : lat[i] <= x})
  IN /\ 100 * atMost(v) >= pct * n
     /\ \A i \in DOMAIN lat : lat[i] < v => 100 * atMost(lat[i]) < pct * n
     /\ \E i \in DOMAIN lat : v = lat[i]

\* "Errors are counted toward Count but excluded from the percentile slice, so P99
\* describes completed queries only."
DescribesCompleted(stat, samples, group) ==
  LET lat == Latencies(samples, group)
  IN /\ stat.count = Cardinality(group)
     /\ stat.count = stat.errors + Cardinality(DOMAIN lat)
     /\ (stat.firstError = NoError) <=> (stat.errors = 0)
     /\ DOMAIN lat # {} =>
          /\ \A pq \in {<<stat.p50, 50>>, <<stat.p90, 90>>, <<stat.p95, 95>>,
                        <<stat.p99, 99>>, <<stat.max, 100>>} :
               IsNearestRank(pq[1], lat, pq[2])
          /\ \A i \in DOMAIN lat : stat.min <= lat[i]
          /\ stat.min <= stat.mean /\ stat.mean <= stat.max
          /\ stat.stdDev <= stat.max - stat.min
          /\ stat.stdDev = 0 \/ stat.min < stat.max
     /\ DOMAIN lat = {} => {stat.p50, stat.p99, stat.max, stat.stdDev} = {0}

\* Each sample is in one class, and in at most one query.
IsSummaryOf(sum, samples) ==
  /\ \A c \in Classes :
       IF OfClass(samples, c) = {} THEN c \notin DOMAIN sum.byClass
       ELSE DescribesCompleted(sum.byClass[c], samples, OfClass(samples, c))
  /\ \A q \in DOMAIN sum.byQuery :
       DescribesCompleted(sum.byQuery[q], samples, OfQuery(samples, q))
  /\ Total([c \in DOMAIN sum.byClass |-> sum.byClass[c].count]) = Len(samples)

\* A comparison is between windows that are whole and none of which is empty, the
\* worst of them is at least as bad as the first and was one of them, and a run whose
\* second half repeats its first has not drifted.
ComparesWholeWindows(drift, samples, window) ==
  \A c \in DOMAIN drift :
    LET d == drift[c]  half == Len(d.p99s) \div 2
    IN /\ d.windows >= 2
       /\ \E i \in DOMAIN samples : samples[i].start >= d.windows * window
       /\ \A w \in 0..(d.windows - 1) : \E i \in DOMAIN samples :
            /\ samples[i].class = c
            /\ samples[i].start \in (w * window)..((w + 1) * window - 1)
       /\ d.worst.p99 >= d.first.p99
       /\ \A i \in DOMAIN d.p99s : d.p99s[i] <= d.worst.p99
       /\ d.p99s[d.worstAt \div window + 1] = d.worst.p99
       /\ (\A i \in 1..half : /\ d.p99s[i] > 0
                              /\ d.p99s[Len(d.p99s) - half + i] = d.p99s[i])
            => d.trend[1] = d.trend[2]
       /\ (\A i \in 1..half : \A j \in (Len(d.p99s) - half + 1)..Len(d.p99s) :
              d.p99s[i] < d.p99s[j])
            => d.trend[1] > d.trend[2] \/ d.trend = Zero

\* The aggregate rate of the repetitions that took measurable time is all their edge
\* work over all their time, and lies between the slowest and the fastest of them.
IsAggregateRate(t, durs) ==
  LET timed == {i \in DOMAIN durs : durs[i] > 0}
      leq(r, s) == r[1] * s[2] <= s[1] * r[2]
  IN IF timed = {} \/ t.edges <= 0 THEN t.harmonicMean = Zero
     ELSE /\ t.harmonicMean[1] * Total([i \in timed |-> durs[i]]) =
               Cardinality(timed) * t.edges * t.harmonicMean[2]
          /\ \E i \in timed : leq(<<t.edges, durs[i]>>, t.harmonicMean)
          /\ \E i \in timed : leq(t.harmonicMean, <<t.edges, durs[i]>>)
=============================================================================
