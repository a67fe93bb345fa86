--------------------------------- MODULE Gate ---------------------------------
(***************************************************************************)
(* The verdict on one engine's stored documents: budgets, drift,           *)
(* regression against a baseline and verification integrity (gate/gate.go, *)
(* gate/budgets.go, cmd/graph-bench/gate_cmd.go).                          *)
(*                                                                         *)
(* Latencies are microseconds; a factor is a fraction <<n, d>>; a finding  *)
(* keeps the kind, the place and the metric, and leaves its wording out.   *)
(***************************************************************************)
EXTENDS Integers, Sequences

NoFloor == <<0, 1>>             \* Options.NoiseFloor of zero: the check is off
RegressionFactor == <<11, 10>>  \* the default, and the default drift factor
ReadSlo == 100000               \* FinBenchReadP99
WarmP50 == 1000                 \* SNBShortWarmP50

IsStat(s) == s \in [class : STRING, count : Nat, p50 : Nat, p99 : Nat]
IsDocument(d) ==
  /\ d = [workload |-> d.workload, plane |-> d.plane, startedAt |-> d.startedAt,
          classes |-> d.classes, queries |-> d.queries, drift |-> d.drift, sync |-> d.sync,
          concurrency |-> d.concurrency, verification |-> d.verification]
  /\ d.startedAt \in Nat /\ d.sync \in Int /\ d.concurrency \in Seq(Nat)
  /\ d.queries = [q \in DOMAIN d.queries |-> d.queries[q]]
  /\ \A q \in DOMAIN d.queries : IsStat(d.queries[q])
  /\ \A c \in DOMAIN d.classes : IsStat(d.classes[c])
IsFactor(f) == f \in Nat \X (Nat \ {0})

Exceeds(now, was, factor) == now * factor[2] > was * factor[1]
Over(factor, limit) == factor[1] * limit[2] > limit[1] * factor[2]

Budgets ==
  [PointRead   |-> [InProc |-> 500,    Subprocess |-> 2000,   Bolt |-> 5000],
   Traversal   |-> [InProc |-> 5000,   Subprocess |-> 10000,  Bolt |-> 20000],
   Subgraph    |-> [InProc |-> 25000,  Subprocess |-> 50000,  Bolt |-> 100000],
   Aggregation |-> [InProc |-> 250000, Subprocess |-> 500000, Bolt |-> 1000000],
   Write       |-> [InProc |-> 2000,   Subprocess |-> 10000,  Bolt |-> 20000]]

Budgeted(class, plane) == class \in DOMAIN Budgets /\ plane \in DOMAIN Budgets[class]

PeakConcurrency(points) ==
  LET all == {1} \cup {points[i] : i \in DOMAIN points}
  IN CHOOSE c \in all : \A d \in all : d <= c

\* A write may wait behind the flush in flight and each of the other clients.
DurableWriteSyncs(concurrency) == IF concurrency < 1 THEN 2 ELSE concurrency + 1

\* What the table says, or what the disk allows where that is more.
WriteCeiling(plane, sync, concurrency) ==
  LET table == Budgets["Write"][plane]
      disk == sync * DurableWriteSyncs(concurrency)
  IN IF sync <= 0 \/ disk <= table THEN table ELSE disk

Ceiling(class, plane, res) ==
  IF class = "Write" THEN WriteCeiling(plane, res.sync, PeakConcurrency(res.concurrency))
  ELSE Budgets[class][plane]

Finding(kind, where, metric) == [kind |-> kind, where |-> where, metric |-> metric]

CheckBudgets(res, plane, workload) ==
  LET reads == {q \in DOMAIN res.byQuery : res.byQuery[q].class # "Write"}
  IN {Finding("budget", c, "p99") : c \in
        {c \in DOMAIN res.stats :
           Budgeted(c, plane) /\ res.stats[c].p99 > Ceiling(c, plane, res)}}
     \cup {Finding("budget", q, "p99") : q \in
        {q \in reads : workload \in {"fb-read", "fb-write"} /\ res.byQuery[q].p99 > ReadSlo}}
     \cup {Finding("budget", q, "p50") : q \in
        {q \in reads : /\ workload = "snb-short" /\ plane = "InProc"
                       /\ res.byQuery[q].p50 > WarmP50}}

\* Of the trend, not of the worst window; a run with no drift recorded decides nothing.
CheckDrift(res, factor) ==
  {Finding("drift", c, "p99") : c \in
     {c \in DOMAIN res.drift : c # "Analytical" /\ Over(res.drift[c], factor)}}

Latency(stat, metric) == IF metric = "p50" THEN stat.p50 ELSE stat.p99

\* A query the baseline did not run is new coverage.
CheckRegression(res, baseline, factor, floor) ==
  LET judged == {q \in DOMAIN res.byQuery \cap DOMAIN baseline.byQuery :
                   baseline.byQuery[q].count > 0}
      now(q, metric) == Latency(res.byQuery[q], metric)
      was(q, metric) == Latency(baseline.byQuery[q], metric)
      kind(q, metric) == IF floor # NoFloor /\ ~Exceeds(now(q, metric), was(q, metric), floor)
                         THEN "indeterminate" ELSE "regression"
  IN {Finding(kind(k[1], k[2]), k[1], k[2]) : k \in
        {k \in judged \X {"p50", "p99"} :
           was(k[1], k[2]) > 0 /\ Exceeds(now(k[1], k[2]), was(k[1], k[2]), factor)}}

\* A working index is flat.
CheckFlatness(small, large, factor) ==
  IF /\ {"PointRead"} \subseteq DOMAIN small.stats \cap DOMAIN large.stats
     /\ small.stats["PointRead"].p50 > 0
     /\ Exceeds(large.stats["PointRead"].p50, small.stats["PointRead"].p50, factor)
  THEN {Finding("flatness", "PointRead", "p50")} ELSE {}

\* Any FAIL, and any SKIP of a query that passed in the baseline.
CheckDocVerification(doc, basePass) ==
  {Finding("verification", q, doc.verification[q]) : q \in
     {q \in DOMAIN doc.verification :
        \/ doc.verification[q] = "FAIL"
        \/ doc.verification[q] = "SKIP" /\ q \in basePass}}

\* The stored document as a result. Its queries lose the class they were stored with.
DocToResult(doc) ==
  [stats |-> doc.classes,
   byQuery |-> [q \in DOMAIN doc.queries |-> [doc.queries[q] EXCEPT !.class = ""]],
   drift |-> doc.drift, sync |-> doc.sync, concurrency |-> doc.concurrency]

\* The newest document of each workload; of two as old, the later one read.
LatestPerWorkload(docs) ==
  {i \in DOMAIN docs : \A j \in DOMAIN docs :
     docs[j].workload = docs[i].workload =>
       \/ docs[j].startedAt < docs[i].startedAt
       \/ docs[j].startedAt = docs[i].startedAt /\ j <= i}

LatestOf(docs, workload) ==
  {docs[i] : i \in {i \in LatestPerWorkload(docs) : docs[i].workload = workload}}

Passed(doc) == {q \in DOMAIN doc.verification : doc.verification[q] = "PASS"}
PassedIn(base) == UNION {Passed(b) : b \in base}

Regressions(doc, base, floor) ==
  UNION {CheckRegression(DocToResult(doc), DocToResult(b), RegressionFactor, floor) : b \in base}

\* Every check of one document; base is the set of its baseline, at most one.
Violations(doc, base, floor) ==
  CheckBudgets(DocToResult(doc), doc.plane, doc.workload)
    \cup CheckDrift(DocToResult(doc), RegressionFactor)
    \cup Regressions(doc, base, floor)
    \cup CheckDocVerification(doc, PassedIn(base))

Failures(violations) == {v \in violations : v.kind # "indeterminate"}
Pass(violations) == Failures(violations) = {}

ExitCodeOfFirst(violations) == IF Failures(violations) # {} THEN 2 ELSE 0

ExitCode(violations) ==
  IF \E v \in Failures(violations) : v.kind = "verification" THEN 3
  ELSE IF Failures(violations) # {} THEN 2 ELSE 0

\* The whole verb: the newest documents against the newest of the baseline. A
\* baseline that cannot be read is an empty one.
GateVerb(docs, baseline, floor) ==
  UNION {Violations(docs[i], LatestOf(baseline, docs[i].workload), floor) : i \in LatestPerWorkload(docs)}

-----------------------------------------------------------------------------
(* What the verdict is held to.                                              *)

\* A document in which some latencies are higher.
Slowed(stat, metric, by) ==
  IF metric = "p50" THEN [stat EXCEPT !.p50 = @ + by, !.p99 = @ + by]
  ELSE [stat EXCEPT !.p99 = @ + by]
SlowerBy(doc, q, metric, by) == [doc EXCEPT !.queries[q] = Slowed(@, metric, by)]

\* A slower query never turns a failing verdict into a passing one, nor lowers what the
\* process exits with.
SlowerNeverHelps(doc, base, floor) ==
  LET exit(d) == ExitCode(Violations(d, base, floor))
  IN \A q \in DOMAIN doc.queries, metric \in {"p50", "p99"}, by \in {1, 100000} :
       exit(doc) <= exit(SlowerBy(doc, q, metric, by))

\* A regression is ruled only on a query both sides measured, outside what the machine
\* does on its own; a run held against itself has none.
RulesOnEvidence(doc, base, floor) ==
  LET res == DocToResult(doc)
  IN /\ \A v \in Regressions(doc, base, floor), b \in base :
          /\ b.queries[v.where].count > 0
          /\ LET now == doc.queries[v.where]  was == b.queries[v.where]
                 n == Latency(now, v.metric)
                 w == Latency(was, v.metric)
             IN /\ 10 * n > 11 * w /\ w > 0
                /\ v.kind = "regression" <=> (floor = NoFloor \/ n * floor[2] > w * floor[1])
     /\ CheckRegression(res, res, RegressionFactor, floor) = {}

\* Exit code zero is a pass, three is verification and hides nothing behind a budget, and
\* what the gate would not rule on changes neither.
TellsVerdict(all, doc, base) ==
  /\ (ExitCode(all) = 0) <=> Pass(all)
  /\ (ExitCode(all) = 3) <=> \/ \E q \in DOMAIN doc.verification : doc.verification[q] = "FAIL"
                             \/ \E b \in base : \E q \in Passed(b) :
                                  q \in DOMAIN doc.verification /\ doc.verification[q] = "SKIP"
  /\ ExitCode(Failures(all)) = ExitCode(all)
ExitTellsVerdict(doc, base, floor) == TellsVerdict(Violations(doc, base, floor), doc, base)

\* The documents of a workload that no other is newer than.
Newest(docs, workload) ==
  LET ages == {docs[i].startedAt : i \in {i \in DOMAIN docs : docs[i].workload = workload}}
  IN {docs[i] : i \in {i \in DOMAIN docs :
        docs[i].workload = workload /\ \A a \in ages : a <= docs[i].startedAt}}
Tied(docs, workload) == \E d, e \in Newest(docs, workload) : d # e

\* Of each workload only the newest document is judged, by the newest of the baseline:
\* an older pass or failure of either side changes nothing.
NewestAgainstNewest(docs, baseline, violations) ==
  LET workloads == {docs[i].workload : i \in DOMAIN docs}
  IN \/ \E w \in workloads : Tied(docs, w) \/ Tied(baseline, w)
     \/ violations = UNION {Violations(d, Newest(baseline, d.workload), NoFloor) :
                              d \in UNION {Newest(docs, w) : w \in workloads}}

\* No commit is held to less than the flushes it may have to wait for, nor to less than
\* the table; a dearer disk and more clients only raise what is allowed.
CeilingAllowsDisk(plane, sync, points) ==
  LET at(s, p) == WriteCeiling(plane, s, PeakConcurrency(p))
  IN /\ at(sync, points) >= Budgets["Write"][plane]
     /\ sync > 0 => at(sync, points) >= 2 * sync
     /\ \A i \in DOMAIN points : sync > 0 => at(sync, points) >= (points[i] + 1) * sync
     /\ at(sync, points) <= at(sync + 1, points)
     /\ at(sync, points) <= at(sync, Append(points, 2))

\* budgets.go: "every fb-* read query holds p99 < 100 ms".
SloIsForReads(doc) ==
  \A v \in CheckBudgets(DocToResult(doc), doc.plane, doc.workload) :
    v.where \in DOMAIN doc.queries => doc.queries[v.where].class # "Write"
=============================================================================
