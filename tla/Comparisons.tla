------------------------------ MODULE Comparisons ------------------------------
(***************************************************************************)
(* What runs say of one another: the noise of a machine over repeated runs *)
(* (gate/noise.go), the best-of-N comparison of two builds                 *)
(* (gate/paired.go, ab_cmd.go), and one run against a rival engine's run   *)
(* of the same workload (gate/rival.go): reads as a ratio, writes in       *)
(* durable syncs a commit.                                                 *)
(*                                                                         *)
(* A run of a comparison maps a query to its stat [count, min, p50, p99]   *)
(* in ticks; a factor is a fraction. A rival's latencies and probes are    *)
(* microseconds.                                                           *)
(***************************************************************************)
EXTENDS Integers, SequencesExt

IsRunStat(s) == s \in [count : Nat, min : Nat, p50 : Nat, p99 : Nat]
IsRun(r) ==
  /\ IsFiniteSet(DOMAIN r)
  /\ \A q \in DOMAIN r : IsRunStat(r[q])
IsRuns(runs) ==
  /\ Len(runs) \in Nat
  /\ runs = [i \in 1..Len(runs) |-> runs[i]]
  /\ \A i \in DOMAIN runs : IsRun(runs[i])
\* The repeats of each workload that one side ran.
IsSide(side) ==
  /\ IsFiniteSet(DOMAIN side)
  /\ side = [w \in DOMAIN side |-> side[w]]
  /\ \A w \in DOMAIN side : IsRuns(side[w])
IsReadings(side) ==
  /\ IsFiniteSet(DOMAIN side)
  /\ \A i \in DOMAIN side : side[i] \in [user : Int, child : Int, growth : Int]

Leq(f, g) == f[1] * g[2] <= g[1] * f[2]
Less(f, g) == f[1] * g[2] < g[1] * f[2]
One == <<1, 1>>

Smallest(S) == CHOOSE x \in S : \A y \in S : x <= y
Greatest(S) == CHOOSE x \in S : \A y \in S : y <= x

\* The k-th factor in order: fewer than k rows are below it, and k are not above it.
AtRank(rows, k) ==
  CHOOSE f \in {r.factor : r \in rows} :
    /\ Cardinality({r \in rows : Less(r.factor, f)}) < k
    /\ k <= Cardinality({r \in rows : Leq(r.factor, f)})

\* Nearest rank, half up: int(p/100*n + 0.5), kept inside the slice.
NearestRank(p, n) ==
  LET rank == (2 * p * n + 100) \div 200
  IN CASE rank < 1 -> 1 [] rank > n -> n [] OTHER -> rank
Pct(rows, p) == AtRank(rows, NearestRank(p, Cardinality(rows)))

Metric(stat, metric) ==
  CASE metric = "p50" -> stat.p50 [] metric = "p99" -> stat.p99 [] OTHER -> stat.min

\* The runs that measured one metric of one query, and what they read.
Measured(runs, q, metric) ==
  {i \in DOMAIN runs : /\ q \in DOMAIN runs[i] /\ runs[i][q].count > 0
                       /\ Metric(runs[i][q], metric) > 0}
Readings(runs, q, metric) == {Metric(runs[i][q], metric) : i \in Measured(runs, q, metric)}

QueriesOf(runs) == UNION {DOMAIN runs[i] : i \in DOMAIN runs}

\* One spread for each query and metric that at least two runs have: the widest
\* disagreement of an unchanged binary.
Spreads(runs) ==
  {[query |-> k[1], metric |-> k[2],
    factor |-> <<Greatest(Readings(runs, k[1], k[2])), Smallest(Readings(runs, k[1], k[2]))>>]
     : k \in {k \in QueriesOf(runs) \X {"p50", "p99"} : Cardinality(Measured(runs, k[1], k[2])) >= 2}}

\* The floor is a percentile of the spreads, so that one query does not set it.
MeasureNoise(runs, percentile) ==
  LET p == IF percentile <= 0 \/ percentile > 100 THEN 90 ELSE percentile
      spreads == Spreads(runs)
  IN IF Len(runs) < 2 \/ spreads = {}
     THEN [runs |-> Len(runs), floor |-> One, worst |-> One, spreads |-> {}]
     ELSE [runs |-> Len(runs), floor |-> Pct(spreads, p),
           worst |-> AtRank(spreads, Cardinality(spreads)), spreads |-> spreads]

Usable(noise, factor) == noise.runs > 1 /\ Less(noise.floor, factor)

\* One side's best value of each query it has, over its repeats.
BestPerQuery(runs, metric) ==
  [q \in {q \in QueriesOf(runs) : Readings(runs, q, metric) # {}} |->
     Smallest(Readings(runs, q, metric))]

\* before and after map a workload to its repeats; a row for each query both sides have.
PairedRows(before, after, metric) ==
  LET best(side, w) == BestPerQuery(side[w], metric)
      rows(w) == {[workload |-> w, query |-> q,
                   factor |-> <<best(after, w)[q], best(before, w)[q]>>] :
                    q \in DOMAIN best(before, w) \cap DOMAIN best(after, w)}
  IN UNION {rows(w) : w \in DOMAIN before \cap DOMAIN after}

PairedAB(before, after, metric, threshold) ==
  LET rows == PairedRows(before, after, metric)
      n == Cardinality(rows)
      at(k) == IF rows = {} THEN One ELSE AtRank(rows, k)
  IN [rows |-> rows, threshold |-> threshold, best |-> at(1), median |-> at(n \div 2 + 1), worst |-> at(n)]

Regressed(paired) == {r \in paired.rows : Leq(paired.threshold, r.factor)}
PairedPass(paired) == Regressed(paired) = {}

\* A cost adds the readings the platform could give; negative is one it could not.
CostOf(resource, metric) ==
  LET known(v) == IF v >= 0 THEN v ELSE 0
  IN CASE metric = "cpu" -> [any |-> resource.user >= 0 \/ resource.child >= 0,
                             sum |-> known(resource.user) + known(resource.child)]
       [] metric = "growth" -> [any |-> resource.growth >= 0, sum |-> known(resource.growth)]

BestCost(readings, metric) ==
  LET known == {i \in DOMAIN readings : CostOf(readings[i], metric).any}
  IN [n |-> Cardinality(known),
      best |-> IF known = {} THEN 0 ELSE Smallest({CostOf(readings[i], metric).sum : i \in known})]

PairedCosts(before, after) ==
  LET row(m) == [metric |-> m, before |-> BestCost(before, m), after |-> BestCost(after, m)]
  IN {r \in {row(m) : m \in {"cpu", "growth"}} :
        r.before.n > 0 /\ r.after.n > 0 /\ r.before.best > 0}

-----------------------------------------------------------------------------
(* What the comparisons are held to.                                         *)

\* With the worst spread as the floor, no run of the set regresses against another: that
\* is what the floor is for. The suggested floor is one of the spreads, and no spread
\* is below one.
CoversRuns(noise, median, usual, runs) ==
     /\ \A i, j \in DOMAIN runs : \A q \in DOMAIN runs[i] \cap DOMAIN runs[j] :
          \A m \in {"p50", "p99"} :
            LET now == Metric(runs[i][q], m)  was == Metric(runs[j][q], m)
            IN (runs[i][q].count > 0 /\ runs[j][q].count > 0 /\ now > 0 /\ was > 0)
                 => Leq(<<now, was>>, noise.floor)
     /\ Leq(noise.floor, noise.worst) /\ Leq(noise.worst, noise.floor)
     /\ Leq(One, median.floor) /\ Leq(median.floor, usual.floor) /\ Leq(usual.floor, noise.floor)
FloorCoversRuns(runs) ==
  CoversRuns(MeasureNoise(runs, 100), MeasureNoise(runs, 50), MeasureNoise(runs, 0), runs)

\* Swapping the sides inverts every row: one change cannot read as slower both ways. A
\* side against itself has not regressed, and one more repeat of the new build, whatever it
\* read, makes no row slower that was there without it.
FairPair(there, back, same, more) ==
     /\ there.rows = {[r EXCEPT !.factor = <<r.factor[2], r.factor[1]>>] : r \in back.rows}
     /\ \A r \in Regressed(there), s \in Regressed(back) :
          r.query # s.query \/ r.workload # s.workload
     /\ PairedPass(same)
     /\ \A paired \in more : \A r \in there.rows :
          LET now == {s \in paired.rows : s.workload = r.workload /\ s.query = r.query}
          IN now # {} /\ \A s \in now : Leq(s.factor, r.factor)
     /\ Leq(there.best, there.median) /\ Leq(there.median, there.worst)
     /\ (\E r \in there.rows : TRUE) =>
          (PairedPass(there) <=> Less(there.worst, there.threshold))
\* A side after a further run of one of its workloads.
OneMore(side, run) == {[side EXCEPT ![w] = Append(@, run)] : w \in DOMAIN side}
PairingIsFair(before, after, run, metric, threshold) ==
  LET of(b, a) == PairedAB(b, a, metric, threshold)
  IN FairPair(of(before, after), of(after, before), of(before, before),
              {of(before, a) : a \in OneMore(after, run)})

\* A reading the platform could not give is not a saving.
UnknownIsNoSaving(before, after) ==
  \A r \in PairedCosts(before, after) :
    \A side \in {<<r.before, before>>, <<r.after, after>>} :
      \E i \in DOMAIN side[2] :
        /\ CostOf(side[2][i], r.metric).any
        /\ CostOf(side[2][i], r.metric).sum = side[1].best

-----------------------------------------------------------------------------
(* Against a rival.                                                          *)

ReadSpeedup == 10            \* DefaultReadSpeedup
SyncCeiling == 2             \* DefaultCommitSyncs
MinDurableSync == 10         \* MinDurableSyncNanos
ReadClasses == {"PointRead", "Traversal", "Subgraph", "Aggregation"}

Lower(a, b) == IF a <= b THEN a ELSE b
Higher(a, b) == IF a >= b THEN a ELSE b

\* A latency in syncs; Unprobed where there is no number for either.
Unprobed == <<0, 1>>
CommitSyncs(latency, sync) == IF sync <= 0 \/ latency <= 0 THEN Unprobed ELSE <<latency, sync>>
DurableVolume(sync) == sync >= MinDurableSync
Over(f, g) == f[1] * g[2] > g[1] * f[2]

RivalStats == [count : Nat, p50 : Nat, p99 : Nat]
IsRivalRun(r) ==
  /\ r = [host |-> r.host, sync |-> r.sync, low |-> r.low, high |-> r.high, stats |-> r.stats,
          queries |-> r.queries]
  /\ r.sync \in Int /\ r.low \in Nat /\ r.high \in Nat
  /\ r.stats \in [DOMAIN r.stats -> RivalStats]

\* One machine, one unit: the cheaper
\* probe for both sides, and the wider of the two bands.
CompareRival(res, rival) ==
  LET oneHost == res.host = rival.host
      shared == oneHost /\ res.sync > 0 /\ rival.sync > 0
      unit == IF shared THEN Lower(res.sync, rival.sync) ELSE res.sync
      rivalUnit == IF shared THEN unit ELSE rival.sync
      wider == oneHost /\ rival.low > 0 /\ res.low > 0
      both == {c \in DOMAIN res.stats \cap DOMAIN rival.stats :
                 res.stats[c].count > 0 /\ rival.stats[c].count > 0}
  IN [unit |-> unit, rivalUnit |-> rivalUnit,
      low |-> IF wider THEN Lower(res.low, rival.low) ELSE res.low,
      high |-> IF wider THEN Higher(res.high, rival.high) ELSE res.high,
      rows |-> [c \in both |-> [mine |-> res.stats[c], theirs |-> rival.stats[c]]],
      notRun |-> {q \in DOMAIN rival.queries :
                    /\ rival.queries[q] > 0
                    /\ q \notin DOMAIN res.queries \/ res.queries[q] = 0}]

Finding(kind, where, metric) == [kind |-> kind, where |-> where, metric |-> metric]

\* A side with no number has no speedup, and is not held to one.
SlowReads(r) ==
  LET slow(mine, theirs) == mine > 0 /\ theirs > 0 /\ theirs < ReadSpeedup * mine
  IN {Finding("rival", k[1], k[2]) : k \in
        {k \in (DOMAIN r.rows \cap ReadClasses) \X {"p50", "p99"} :
           slow(r.rows[k[1]].mine[k[2]], r.rows[k[1]].theirs[k[2]])}}

\* The least and the most syncs a latency may be, at the dearest and the cheapest flush
\* the probe saw; Unprobed twice where the run carries no band.
CommitBand(r, latency) ==
  IF r.low <= 0 \/ r.high <= 0 THEN <<Unprobed, Unprobed>>
  ELSE <<CommitSyncs(latency, r.high), CommitSyncs(latency, r.low)>>

Straddles(band) ==
  /\ band[1] # Unprobed
  /\ ~Over(band[1], <<SyncCeiling, 1>>)
  /\ Over(band[2], <<SyncCeiling, 1>>)

Asked(r) == CommitSyncs(r.rows["Write"].mine.p50, r.unit) # Unprobed /\ DurableVolume(r.unit)

\* The absolute count: not asked on a volume that was not probed or does not flush, and
\* not ruled on where the ceiling lies inside the band.
CommitCount(r) ==
  LET row == r.rows["Write"]
      syncs == CommitSyncs(row.mine.p50, r.unit)
  IN IF ~Asked(r) \/ Straddles(CommitBand(r, row.mine.p50))
     THEN {Finding("indeterminate", "Write", "p50")}
     ELSE IF Over(syncs, <<SyncCeiling, 1>>) THEN {Finding("rival", "Write", "ceiling")} ELSE {}

\* And no more of them than the rival, at the median and in the tail.
CommitRace(r) ==
  LET row == r.rows["Write"]
      mine(m) == CommitSyncs(m, r.unit)
      theirs(m) == CommitSyncs(m, r.rivalUnit)
  IN IF ~Asked(r) \/ theirs(row.theirs.p50) = Unprobed THEN {}
     ELSE {Finding("rival", "Write", m) : m \in
             {m \in {"p50", "p99"} : Over(mine(row.mine[m]), theirs(row.theirs[m]))}}

CheckRival(r) ==
  SlowReads(r) \cup (IF "Write" \in DOMAIN r.rows THEN CommitCount(r) \cup CommitRace(r) ELSE {})

-----------------------------------------------------------------------------
(* What the verdict is held to.                                              *)

\* On one machine the race is of latencies: which side drew the dearer probe decides
\* nothing ("hand whichever engine drew the dearer probe a smaller count for free").
RacesLatencies(r) ==
  LET w == r.rows["Write"]
  IN "Write" \in DOMAIN r.rows => \A v \in CommitRace(r) : w.mine[v.metric] > w.theirs[v.metric]
ProbesDoNotDecide(res, rival) ==
  (res.host = rival.host /\ rival.sync > 0) => RacesLatencies(CompareRival(res, rival))

\* A commit is ruled over the ceiling only if it is over at the dearest flush too, and
\* what is not ruled on is on a volume that no flush reached, or over at one end of the
\* band and not at the other. Asked of two runs that both carry a band round their probe.
RuledOutside(r) ==
  LET p50 == r.rows["Write"].mine.p50
  IN ("Write" \in DOMAIN r.rows /\ p50 > 0) =>
       /\ Finding("rival", "Write", "ceiling") \in CommitCount(r) => p50 > SyncCeiling * r.high
       /\ CommitCount(r) = {} => p50 <= SyncCeiling * r.high
CeilingOutsideBand(res, rival) ==
  (\A s \in {res, rival} : 0 < s.low /\ s.low <= s.sync /\ s.sync <= s.high)
    => RuledOutside(CompareRival(res, rival))

\* A rival that is faster never makes the verdict better, and a run held against itself
\* loses no race.
Faster(rival) ==
  [rival EXCEPT !.stats =
     [c \in DOMAIN rival.stats |-> [rival.stats[c] EXCEPT !.p50 = (@ + 1) \div 2]]]
Ruled(res, rival) == {v \in CheckRival(CompareRival(res, rival)) : v.kind = "rival"}
FasterRivalNeverHelps(res, rival) ==
  LET own == CompareRival(res, res)
  IN /\ Ruled(res, rival) \subseteq Ruled(res, Faster(rival))
     /\ "Write" \in DOMAIN own.rows => CommitRace(own) = {}
================================================================================
