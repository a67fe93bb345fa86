--------------------------------- MODULE Warmup ---------------------------------
(***************************************************************************)
(* WarmupDetector (measure/warmup.go): latencies go into buckets of a      *)
(* fixed width, and the engine is declared warm when the p99s of the last  *)
(* buckets agree. Nothing but its tests feeds it: the run pipeline warms   *)
(* up by the fixed path of module Schedule.                                *)
(***************************************************************************)
EXTENDS Integers, SequencesExt

CONSTANTS
  Width,        \* BucketWidth, in ticks
  Tol,          \* the tolerance, in hundredths
  Streak,       \* agreeing buckets required
  MinBuckets, MinDuration, MinOps,  \* the floors
  Values, Gaps, \* the latencies and the times between two arrivals that are tried
  MaxOps        \* bound: samples fed

ASSUME WarmupAssumption ==
  /\ {Width, Tol, Streak, MinBuckets, MinDuration, MinOps, MaxOps} \subseteq Nat
  /\ Values \subseteq Nat /\ Gaps \subseteq Nat

VARIABLES
  bucket,   \* latencies of the bucket being filled
  buckets,  \* p99s of the completed ones
  began,    \* when the bucket, and when the first one, began; 0 before a sample
  first,
  now,      \* the arrival of the last sample, from 1
  ops, stable,
  parts     \* history: what went into each completed bucket, and the samples fed by its end

vars == <<bucket, buckets, began, first, now, ops, stable, parts>>

Init ==
  /\ bucket = <<>> /\ buckets = <<>> /\ parts = <<>>
  /\ began = 0 /\ first = 0 /\ now = 0
  /\ ops = 0
  /\ stable = FALSE

Distance(a, b) == IF a > b THEN a - b ELSE b - a

\* The n-th in order: fewer than n are below it, and n are not above it.
NthLeast(lat, n) ==
  CHOOSE v \in ToSet(lat) :
    /\ Cardinality({i \in DOMAIN lat : lat[i] < v}) < n
    /\ n <= Cardinality({i \in DOMAIN lat : lat[i] <= v})

\* percentile(sortedCopy(bucket), 0.99): below a hundred samples, the largest.
Rank99(n) == (n * 990000 + 999999) \div 1000000
P99(lat) == IF lat = <<>> THEN 0 ELSE NthLeast(lat, Rank99(Len(lat)))

WarmedUp(p99s) ==
  LET n == Len(p99s)
  IN /\ n >= MinBuckets /\ n > Streak
     /\ \A i \in (n - Streak + 1)..n :
          /\ p99s[i - 1] # 0
          /\ 100 * Distance(p99s[i], p99s[i - 1]) <= Tol * p99s[i - 1]

FloorOfOps(count, at) == count >= MinOps
Floor(count, at) == count >= MinOps /\ at - first >= MinDuration

\* The sample opens the next bucket at its own arrival, however long the gap was.
Close(latency, at) ==
  /\ buckets' = Append(buckets, P99(bucket))
  /\ parts' = Append(parts, [lat |-> bucket, upto |-> ops])
  /\ bucket' = <<latency>>
  /\ began' = at
  /\ stable' = (Floor(ops + 1, at) /\ WarmedUp(buckets'))

Fill(latency, at) ==
  /\ bucket' = Append(bucket, latency)
  /\ began' = IF ops = 0 THEN at ELSE began
  /\ UNCHANGED <<buckets, parts, stable>>

\* Only the first sample after the bucket's end closes it.
Add(latency, at) ==
  /\ ~stable /\ ops < MaxOps
  /\ now' = at /\ ops' = ops + 1
  /\ first' = IF ops = 0 THEN at ELSE first
  /\ IF ops > 0 /\ at - began >= Width THEN Close(latency, at) ELSE Fill(latency, at)

Next == \E latency \in Values, gap \in Gaps : Add(latency, now + gap)

Spec == Init /\ [][Next]_vars

Outcome == IF stable THEN "stable" ELSE "capped"

TypeOK ==
  /\ bucket \in Seq(Values) /\ buckets \in Seq(Values) /\ Len(parts) = Len(buckets)
  /\ ops \in 0..MaxOps /\ stable \in BOOLEAN

\* The least of some latencies that ninety-nine in a hundred of them do not exceed.
IsP99(v, lat) ==
  LET atMost(x) == Cardinality({i \in DOMAIN lat : lat[i] <= x})
  IN /\ v \in ToSet(lat)
     /\ 100 * atMost(v) >= 99 * Len(lat)
     /\ \A u \in ToSet(lat) : u < v => 100 * atMost(u) < 99 * Len(lat)

\* Every sample fed is in the window it arrived in, and no window is empty.
FedBefore(windows, i) == IF i = 0 THEN 0 ELSE windows[i].upto
NothingDropped ==
  /\ \A i \in DOMAIN parts : parts[i].lat # <<>> /\ parts[i].upto = FedBefore(parts, i - 1) + Len(parts[i].lat)
  /\ ops = FedBefore(parts, Len(parts)) + Len(bucket)

\* warmup.go: warm is declared after the floors, when consecutive windows agree, and never
\* in a lull. Said of the latencies themselves: the p99 of each of the last windows is
\* within the tolerance of the p99 of the one before, and no sample was dropped on the way.
StableIsEarned ==
  /\ NothingDropped
  /\ stable =>
       /\ ops >= MinOps /\ now - first >= MinDuration
       /\ Len(parts) >= MinBuckets /\ Len(parts) > Streak
       /\ \A i \in (Len(parts) - Streak + 1)..Len(parts) :
            \E u \in ToSet(parts[i - 1].lat), v \in ToSet(parts[i].lat) :
              /\ IsP99(u, parts[i - 1].lat) /\ IsP99(v, parts[i].lat)
              /\ u > 0 /\ 100 * Distance(v, u) <= Tol * u
=================================================================================
