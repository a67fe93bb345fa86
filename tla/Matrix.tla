-------------------------------- MODULE Matrix --------------------------------
(***************************************************************************)
(* What a reader is shown of the result documents: a stored file becomes a *)
(* document, the documents become the columns of one matrix, and beside it *)
(* stand the error lines, the costs of the planes, the resources, the      *)
(* traversal rates and the drift.                                          *)
(*                                                                         *)
(* A cell is what it says, not its text: a latency is the number that is   *)
(* printed in units of the row's last digit. Widths, padding, units of     *)
(* bytes and the words of the notes are left out.                          *)
(***************************************************************************)
EXTENDS FiniteSets, Integers, SequencesExt

CONSTANTS
  Classes,  \* the classes, in canonical order
  Names,    \* every label, in the order strings sort in
  Metrics,  \* the resource rows, in reading order
  Thousand  \* nanoseconds to a microsecond, and so on up

-----------------------------------------------------------------------------
(* Order. A place is counted, not built up element by element.               *)

Before(I, order, k) == {i \in I : <<k, i>> \notin order}
\* The members of a finite set, from first to last in an order of them.
InOrder(I, order) ==
  [n \in 1..Cardinality(I) |-> CHOOSE k \in I : Cardinality(Before(I, order, k)) = n - 1]
Ascending(I) == InOrder(I, {p \in I \X I : p[1] <= p[2]})
\* The elements at some positions of a sequence, as they came.
Kept(seq, I) == LET at == Ascending(I) IN [n \in DOMAIN at |-> seq[at[n]]]

-----------------------------------------------------------------------------
(* Reading.                                                                  *)

Readings == ToSet(Metrics) \cup {"readings"}
NoResource == [x \in Readings |-> 0]
SampledRows == {"memory peak (sampled)", "memory steady (sampled)", "readings"}

\* A document of before the memory sampler has zeros where a run that took no sample has -1.
ReadCurrent(doc) ==
  IF doc.resource["readings"] = 0 /\ doc.resource["memory peak (sampled)"] = 0
  THEN [doc EXCEPT !.resource = [x \in DOMAIN @ |-> IF x \in SampledRows THEN -1 ELSE @[x]]]
  ELSE doc

V1Classes == <<"point-read", "traversal", "subgraph", "write", "analytical">>
V1ClassName(n) == IF n \in 0..4 THEN V1Classes[n + 1] ELSE "class-" \o ToString(n)
V1StatDoc(s) == [count |-> s.count, errors |-> s.errors, first |-> "", p50 |-> s.p50, p99 |-> s.p99]
V1ClassMap(stats) ==
  [l \in {V1ClassName(n) : n \in DOMAIN stats} |->
     V1StatDoc(stats[CHOOSE n \in DOMAIN stats : V1ClassName(n) = l])]
V1QueryMap(stats) == [q \in DOMAIN stats |-> V1StatDoc(stats[q])]

\* What the first version did not record stays empty or zero.
ReadV1(raw) ==
  [schema |-> 2, workload |-> raw.workload, fidelity |-> "",
   engine |-> raw.engine, plane |-> raw.plane, started |-> raw.started, verification |-> <<>>,
   classes |-> V1ClassMap(raw.classes), queries |-> V1QueryMap(raw.queries), cold |-> V1ClassMap(raw.cold),
   resource |-> NoResource, teps |-> <<>>, drift |-> <<>>]

ReadDoc(raw) == IF raw.schema >= 3 THEN ReadCurrent(raw) ELSE ReadV1(raw)

\* A filter that is not given keeps everything.
ReadResults(raws, wl, eng) ==
  LET docs == [i \in DOMAIN raws |-> ReadDoc(raws[i])]
  IN Kept(docs, {i \in DOMAIN docs : wl \in {"", docs[i].workload} /\ eng \in {"", docs[i].engine}})

\* The newest document of each engine, in the order the engines were met.
LatestPerEngine(docs) ==
  LET met == Ascending({i \in DOMAIN docs : \A j \in 1..(i - 1) : docs[j].engine # docs[i].engine})
      last(e) == CHOOSE i \in DOMAIN docs :
                   /\ docs[i].engine = e
                   /\ \A j \in DOMAIN docs : docs[j].engine = e =>
                        docs[j].started < docs[i].started \/ (docs[j].started = docs[i].started /\ j <= i)
  IN [k \in DOMAIN met |-> docs[last(docs[met[k]].engine)]]

\* What a stored file holds: statistics of groups that have a sample, of which some failed
\* and left a message; verdicts; and where memory was not sampled, -1 for both figures or,
\* before there was a sampler, nothing.
IsStat(s) == s.count \in Nat \ {0} /\ s.errors \in 0..s.count /\ s.p50 \in Nat /\ s.p99 \in Nat
IsLabel(l) == l \in ToSet(Names)
IsRaw(raw) ==
  /\ DOMAIN raw = {"schema", "workload", "fidelity", "engine", "plane", "started", "verification",
                   "classes", "queries", "cold", "resource", "teps", "drift"}
  /\ raw.schema \in Nat /\ raw.started \in Int
  /\ Len(raw.verification) \in Nat /\ DOMAIN raw.verification = 1..Len(raw.verification)
  /\ \A k \in DOMAIN raw.verification : IsLabel(raw.verification[k].query) /\ raw.verification[k].outcome # ""
  /\ \A n \in DOMAIN raw.classes : IsStat(raw.classes[n]) /\ IsLabel(IF raw.schema >= 3 THEN n ELSE V1ClassName(n))
  /\ \A n \in DOMAIN raw.cold : IsStat(raw.cold[n]) /\ IsLabel(IF raw.schema >= 3 THEN n ELSE V1ClassName(n))
  /\ \A q \in DOMAIN raw.queries :
       IsStat(raw.queries[q]) /\ IsLabel(q) /\ (raw.schema >= 3 /\ raw.queries[q].errors > 0 => raw.queries[q].first # "")
  /\ DOMAIN raw.resource = Readings
  /\ raw.resource["readings"] = 0 =>
       \E none \in {0, -1} : \A x \in SampledRows \ {"readings"} : raw.resource[x] = none
  /\ \A id \in DOMAIN raw.teps : IsLabel(id)
IsLineage(raws) ==
  Len(raws) \in Nat /\ DOMAIN raws = 1..Len(raws) /\ \A i \in DOMAIN raws : IsRaw(raws[i])

\* The labels are in order, each once.
IsOrder(names) ==
  /\ Len(names) \in Nat /\ DOMAIN names = 1..Len(names)
  /\ \A j, k \in DOMAIN names : names[j] = names[k] => j = k
IsLayout ==
  /\ IsOrder(Classes) /\ IsOrder(Names) /\ IsOrder(Metrics)
  /\ SampledRows \ ToSet(Metrics) = {"readings"}
  /\ Thousand \in Nat /\ Thousand >= 10

-----------------------------------------------------------------------------
(* The matrix.                                                               *)

\* An unknown plane is where an engine in this process is.
Rank(plane) == CASE plane = "bolt" -> 1 [] plane = "subprocess" -> 2 [] plane = "native" -> 3 [] OTHER -> 0
\* By plane, those of one plane as they came.
ByPlane(docs) ==
  {p \in (DOMAIN docs) \X (DOMAIN docs) :
     LET a == Rank(docs[p[1]].plane)  b == Rank(docs[p[2]].plane)
     IN a < b \/ (a = b /\ p[1] <= p[2])}
Ordered(docs) == LET at == InOrder(DOMAIN docs, ByPlane(docs)) IN [n \in DOMAIN at |-> docs[at[n]]]

Chosen(names, labels) == Kept(names, {n \in DOMAIN names : names[n] \in labels})
Sorted(labels) == Chosen(Names, labels)
Everywhere(docs, section) == UNION {DOMAIN docs[i][section] : i \in DOMAIN docs}

NewMatrix(docs) ==
  LET seen == Everywhere(docs, "classes") \cup Everywhere(docs, "cold")
      verified == UNION {{docs[i].verification[k].query : k \in DOMAIN docs[i].verification} : i \in DOMAIN docs}
  IN [docs |-> Ordered(docs),
      classes |-> Chosen(Classes, seen) \o Sorted(seen \ ToSet(Classes)),
      queries |-> Sorted(Everywhere(docs, "queries") \cup verified)]

NoVerdict == [query |-> "", outcome |-> "", reason |-> ""]
Verdict(d, qid) ==
  LET its == {k \in DOMAIN d.verification : d.verification[k].query = qid}
  IN IF its = {} THEN NoVerdict ELSE d.verification[Min(its)]
Marker(v) == <<v.outcome, IF v.outcome = "SKIP" THEN v.reason ELSE "">>

\* The unit is the magnitude of the mean, and a number has none, one, two or three decimals.
Mean(vals) == FoldSeq(LAMBDA v, total : total + v, 0, vals) \div Len(vals)
Magnitude(v) ==
  CASE v < Thousand -> 0 [] v < Thousand * Thousand -> 1 [] v < Thousand * Thousand * Thousand -> 2 [] OTHER -> 3
PickUnit(vals) == IF vals = <<>> THEN 2 ELSE Magnitude(Mean(vals))
Digit(unit) ==
  CASE unit = 0 -> 1 [] unit = 1 -> Thousand \div 10 [] unit = 2 -> (Thousand * Thousand) \div 100
    [] unit = 3 -> (Thousand * Thousand * Thousand) \div 1000
FormatLatency(v, unit) ==
  [unit |-> unit, digits |-> (v + Digit(unit) \div 2) \div Digit(unit)]

Positive(vals) == SelectSeq(vals, LAMBDA v : v > 0)
RowUnit(docs, label, section) ==
  PickUnit(Positive(FlattenSeq([i \in DOMAIN docs |->
    IF label \in DOMAIN docs[i][section] THEN <<docs[i][section][label].p50, docs[i][section][label].p99>> ELSE <<>>])))

Withheld(d, label, section) == section = "queries" /\ Verdict(d, label).outcome \notin {"", "PASS"}
Latency(s, unit) == <<"latency", FormatLatency(s.p50, unit), FormatLatency(s.p99, unit)>>

\* Mutated form of Cell: the percentiles whatever failed.
CellOfAny(d, label, section, unit) ==
  IF Withheld(d, label, section) THEN <<"verdict", Marker(Verdict(d, label))>>
  ELSE IF label \notin DOMAIN d[section] THEN <<"n/a">>
  ELSE Latency(d[section][label], unit)

Cell(d, label, section, unit) ==
  IF Withheld(d, label, section) THEN <<"verdict", Marker(Verdict(d, label))>>
  ELSE IF label \notin DOMAIN d[section] THEN <<"n/a">>
  ELSE LET s == d[section][label]
       IN IF s.errors > 0 /\ s.errors = s.count THEN <<"ERR", s.errors, s.count>> ELSE Latency(s, unit)

BuildRow(docs, label, section) ==
  LET unit == RowUnit(docs, label, section)
  IN [label |-> label, section |-> section, cells |-> [i \in DOMAIN docs |-> Cell(docs[i], label, section, unit)]]

BuildRows(m) ==
  LET rowsOf(labels, section) == [k \in DOMAIN labels |-> BuildRow(m.docs, labels[k], section)]
      cold == Chosen(m.classes, Everywhere(m.docs, "cold"))
  IN rowsOf(m.classes, "classes") \o rowsOf(cold, "cold") \o rowsOf(m.queries, "queries")

ColLabel(d) == <<d.engine, d.plane>>

\* The lines of each document.
WriteErrors(docs) ==
  [i \in DOMAIN docs |->
    LET failed == {q \in DOMAIN docs[i].queries : docs[i].queries[q].errors # 0 /\ docs[i].queries[q].first # ""}
        qids == Sorted(failed)
    IN [k \in DOMAIN qids |->
          LET s == docs[i].queries[qids[k]]
          IN [column |-> ColLabel(docs[i]), query |-> qids[k], errors |-> s.errors, count |-> s.count, first |-> s.first]]]

\* One line of fidelity for each workload, as the first document of it has it.
WriteFooters(docs) ==
  LET fresh == Ascending({i \in DOMAIN docs : /\ docs[i].workload # ""
                                             /\ \A j \in 1..(i - 1) : docs[j].workload # docs[i].workload})
  IN [fidelity |-> [k \in DOMAIN fresh |-> <<docs[fresh[k]].workload, docs[fresh[k]].fidelity>>],
      conditions |-> [i \in DOMAIN docs |-> ColLabel(docs[i])]]

RenderTable(docs) ==
  LET m == NewMatrix(docs)
  IN [columns |-> [i \in DOMAIN m.docs |-> ColLabel(m.docs[i])], rows |-> BuildRows(m),
      errors |-> WriteErrors(m.docs), footers |-> WriteFooters(m.docs)]

RenderMarkdown(docs) == [RenderTable(docs) EXCEPT !.errors = <<>>]

\* The lines of each document, in turn those of a label.
NoStat == [count |-> 0, errors |-> 0, first |-> "", p50 |-> 0, p99 |-> 0]
RenderCSV(docs) ==
  LET m == NewMatrix(docs)
      record(d, section, label, outcome) ==
        [column |-> ColLabel(d), section |-> section, row |-> label, outcome |-> outcome,
         stat |-> IF label \in DOMAIN d[section] THEN d[section][label] ELSE NoStat]
      held(d, section, label) == IF label \in DOMAIN d[section] THEN <<record(d, section, label, <<"", "">>)>> ELSE <<>>
      asked(d, qid) ==
        IF qid \notin DOMAIN d.queries /\ Verdict(d, qid).outcome = "" THEN <<>>
        ELSE <<record(d, "queries", qid, Marker(Verdict(d, qid)))>>
  IN [i \in DOMAIN m.docs |->
       [classes |-> [k \in DOMAIN m.classes |->
                       held(m.docs[i], "classes", m.classes[k]) \o held(m.docs[i], "cold", m.classes[k])],
        queries |-> [k \in DOMAIN m.queries |-> asked(m.docs[i], m.queries[k])]]]

-----------------------------------------------------------------------------
(* The sections beside it.                                                   *)

\* Each plane against the fastest, for the queries that two documents have.
RenderOverhead(docs) ==
  LET ordered == Ordered(docs)
      having(q) == {i \in DOMAIN ordered : q \in DOMAIN ordered[i].queries}
      shared == Sorted({q \in Everywhere(ordered, "queries") : Cardinality(having(q)) >= 2})
      p50(i, q) == IF i \in having(q) THEN ordered[i].queries[q].p50 ELSE 0
      measured(q) == {p50(i, q) : i \in DOMAIN ordered} \ {0}
      fastest(q) == CHOOSE v \in measured(q) : \A w \in measured(q) : v <= w
      cell(i, q) ==
        IF p50(i, q) = 0 THEN <<>>
        ELSE LET unit == PickUnit(Positive([j \in DOMAIN ordered |-> p50(j, q)]))
             IN [latency |-> FormatLatency(p50(i, q), unit), p50 |-> p50(i, q),
                 over |-> FormatLatency(p50(i, q) - fastest(q), unit), slower |-> p50(i, q) > fastest(q)]
  IN [k \in DOMAIN shared |-> [query |-> shared[k], cells |-> [i \in DOMAIN ordered |-> cell(i, shared[k])]]]

\* A figure, or none where nobody could ask.
Figure(v) == IF v = -1 THEN <<>> ELSE <<v>>
RenderResources(docs) ==
  LET ordered == Ordered(docs)
      known == Chosen(Metrics, {r \in ToSet(Metrics) : \E i \in DOMAIN ordered : ordered[i].resource[r] # -1})
  IN [k \in DOMAIN known |->
        [label |-> known[k], cells |-> [i \in DOMAIN ordered |-> Figure(ordered[i].resource[known[k]])]]]

\* A kernel's edges are those of the last document that ran it.
RenderTraversal(docs) ==
  LET ordered == Ordered(docs)
      ids == Sorted(Everywhere(ordered, "teps"))
      edges(id) == LET last == CHOOSE i \in DOMAIN ordered :
                                 /\ id \in DOMAIN ordered[i].teps
                                 /\ \A j \in (i + 1)..Len(ordered) : id \notin DOMAIN ordered[j].teps
                   IN ordered[last].teps[id].edges
      rate(d, id) == IF id \in DOMAIN d.teps /\ d.teps[id].rate > 0 THEN <<d.teps[id].rate>> ELSE <<>>
  IN [k \in DOMAIN ids |-> [label |-> ids[k], edges |-> edges(ids[k]), cells |-> [i \in DOMAIN ordered |-> rate(ordered[i], ids[k])]]]

RenderDrift(docs) ==
  LET ordered == Ordered(docs)
      classes == Sorted(Everywhere(ordered, "drift"))
      cell(d, c) == IF c \in DOMAIN d.drift /\ d.drift[c].first > 0 THEN <<d.drift[c]>> ELSE <<>>
  IN [k \in DOMAIN classes |-> [label |-> classes[k], cells |-> [i \in DOMAIN ordered |-> cell(ordered[i], classes[k])]]]

\* What the verbs run, report and compare print between them.
Rendered(docs) ==
  [table |-> RenderTable(docs), markdown |-> RenderMarkdown(docs), csv |-> RenderCSV(docs), overhead |-> RenderOverhead(docs),
   resources |-> RenderResources(docs), traversal |-> RenderTraversal(docs), drift |-> RenderDrift(docs)]

-----------------------------------------------------------------------------
(* What a reader may rely on.                                                *)

\* The column of a document, counted: behind those of an earlier plane, and those of its own
\* plane that came before it.
Place(docs, i) ==
  1 + Cardinality({j \in DOMAIN docs : \/ Rank(docs[j].plane) < Rank(docs[i].plane)
                                       \/ Rank(docs[j].plane) = Rank(docs[i].plane) /\ j < i})
Sections == {"classes", "cold", "queries"}
Completed(d, section, label) ==
  label \in DOMAIN d[section] /\ d[section][label].errors < d[section][label].count
Known(d, section, label) ==
  label \in DOMAIN d[section] \/ (section = "queries" /\ Verdict(d, label).outcome # "")

\* No number without a repetition that completed and an answer that was right, no failure
\* without its mark, nothing recorded without its row, and in one row the numbers compare as
\* the latencies do.
CellsAreEarned(docs, t) ==
  /\ \A i \in DOMAIN docs : t.columns[Place(docs, i)] = ColLabel(docs[i])
  /\ \A i \in DOMAIN docs, section \in Sections, label \in ToSet(Names) :
       LET rows == {k \in DOMAIN t.rows : t.rows[k].section = section /\ t.rows[k].label = label}
           known == \E j \in DOMAIN docs : Known(docs[j], section, label)
           cell == t.rows[CHOOSE k \in rows : TRUE].cells[Place(docs, i)]
           said == Verdict(docs[i], label).outcome
       IN /\ Cardinality(rows) = IF known \/ (section = "classes" /\ label \in Everywhere(docs, "cold")) THEN 1 ELSE 0
          /\ known =>
               /\ cell[1] = "latency" <=> /\ Completed(docs[i], section, label)
                                          /\ section = "queries" => said \in {"", "PASS"}
               /\ (section = "queries" /\ said \in {"FAIL", "SKIP"}) => cell[1] = "verdict" /\ cell[2][1] = said
               /\ cell[1] = "n/a" => label \notin DOMAIN docs[i][section]
  /\ \A k \in DOMAIN t.rows : \A i, j \in DOMAIN docs :
       LET row == t.rows[k]  a == row.cells[Place(docs, i)]  b == row.cells[Place(docs, j)]
       IN (a[1] = "latency" /\ b[1] = "latency") =>
            /\ a[2].unit = b[3].unit
            /\ a[2].digits < b[2].digits => docs[i][row.section][row.label].p50 < docs[j][row.section][row.label].p50

\* A query that failed now and then is told of, with the message, under the plain table.
FailuresAreTold(docs, t) ==
  \A i \in DOMAIN docs : \A q \in DOMAIN docs[i].queries :
    (docs[i].schema >= 3 /\ docs[i].queries[q].errors > 0) =>
      \E j \in DOMAIN t.errors : \E line \in ToSet(t.errors[j]) :
        line.column = ColLabel(docs[i]) /\ line.query = q /\ line.errors = docs[i].queries[q].errors

\* The rows of the csv are the cells of the matrix that say something, the verdict with them.
Lines(csv) ==
  (UNION {UNION {ToSet(csv[i].classes[k]) : k \in DOMAIN csv[i].classes} : i \in DOMAIN csv})
  \cup (UNION {UNION {ToSet(csv[i].queries[k]) : k \in DOMAIN csv[i].queries} : i \in DOMAIN csv})
CsvIsTheMatrix(docs, csv) ==
  \A i \in DOMAIN docs, section \in Sections, label \in ToSet(Names) :
    LET mine == {l \in Lines(csv) : l.section = section /\ l.row = label /\ l.column = ColLabel(docs[i])}
    IN /\ mine # {} <=> \E j \in DOMAIN docs : ColLabel(docs[j]) = ColLabel(docs[i]) /\ Known(docs[j], section, label)
       /\ section = "queries" /\ Known(docs[i], section, label) =>
            \E l \in mine : l.outcome = Marker(Verdict(docs[i], label))

\* Somebody is the fastest on every query of the overhead, and nobody is slower by nothing.
OverheadIsAgainstFastest(docs, rows) ==
  \A k \in DOMAIN rows :
    LET cells == {i \in DOMAIN rows[k].cells : rows[k].cells[i] # <<>>}
        p50(i) == rows[k].cells[i].p50
    IN /\ cells # {} => \E i \in cells : ~rows[k].cells[i].slower
       /\ \A i, j \in cells : p50(i) > p50(j) => rows[k].cells[i].slower
       /\ Cardinality({i \in DOMAIN docs : rows[k].query \in DOMAIN docs[i].queries}) >= 2

\* A figure somebody has is shown, and a document that could not have sampled the memory does
\* not read as one that used none.
UnsampledIsNotZero(raws, docs, rows) ==
  \A i \in DOMAIN docs, r \in ToSet(Metrics) :
    LET cells == {rows[k].cells[Place(docs, i)] : k \in {k \in DOMAIN rows : rows[k].label = r}}
    IN IF docs[i].schema >= 3 /\ r \in SampledRows /\ raws[i].resource["readings"] = 0 THEN cells \subseteq {<<>>}
       ELSE docs[i].resource[r] # -1 => cells = {<<docs[i].resource[r]>>}

NewestOfEach(docs, latest) ==
  /\ {latest[k].engine : k \in DOMAIN latest} = {docs[i].engine : i \in DOMAIN docs}
  /\ \A j, k \in DOMAIN latest : latest[j].engine = latest[k].engine => j = k
  /\ \A k \in DOMAIN latest, i \in DOMAIN docs : docs[i].engine = latest[k].engine => docs[i].started <= latest[k].started

TellsAll(raws, told) ==
  LET docs == [i \in DOMAIN raws |-> ReadDoc(raws[i])]
  IN /\ CellsAreEarned(docs, told.table)
     /\ CellsAreEarned(docs, told.markdown)
     /\ FailuresAreTold(docs, told.table)
     /\ CsvIsTheMatrix(docs, told.csv)
     /\ OverheadIsAgainstFastest(docs, told.overhead)
     /\ UnsampledIsNotZero(raws, docs, told.resources)
     /\ NewestOfEach(docs, LatestPerEngine(docs))
     /\ \A k \in DOMAIN told.drift : \E i \in DOMAIN docs : told.drift[k].label \in DOMAIN docs[i].drift
     /\ \A i \in DOMAIN docs : \A id \in DOMAIN docs[i].teps :
          \E k \in DOMAIN told.traversal : told.traversal[k].label = id
================================================================================
