------------------------------ MODULE Generators ------------------------------
(***************************************************************************)
(* The synthetic data sets (dataset/gen) as functions of their             *)
(* configuration and the stream of draws, written through the one Writer   *)
(* (dataset/writer.go). Every draw is taken in the order of the code: the  *)
(* operators thread the state of the generator, and a result carries it as *)
(* st. A name or a payload is one draw; a weight table stands for d^-gamma;*)
(* a date is one of Clock ticks, Day of them to the simulated day.         *)
(***************************************************************************)
EXTENDS Prng, SequencesExt

CONSTANTS Clock, Day

RefusedConfig == [ok |-> FALSE]
OrDefault(x, default) == IF x = 0 THEN default ELSE x
UpTo(n) == [i \in 1..n |-> i - 1]

-----------------------------------------------------------------------------
(* The Writer.                                                               *)

\* A file of nodes is the sequence of its rows, one of relationships names its ends too.
RelFile(start, end, rows) == [start |-> start, end |-> end, rows |-> rows]

\* Ends left blank are the one label there is; the totals are the rows written, whatever
\* the generator says of them.
Finalize(nodes, rels) ==
  LET sole == Cardinality(DOMAIN nodes) = 1
      label == CHOOSE l \in DOMAIN nodes : TRUE
      ends(r) == IF r.start = "" /\ r.end = "" /\ sole THEN RelFile(label, label, r.rows) ELSE r
  IN [ok |-> TRUE, nodes |-> nodes, rels |-> [t \in DOMAIN rels |-> ends(rels[t])],
      nodeCount |-> MapThenSumSet(LAMBDA l : Len(nodes[l]), DOMAIN nodes),
      edgeCount |-> MapThenSumSet(LAMBDA t : Len(rels[t].rows), DOMAIN rels)]

\* Rows 0 to n-1, each with the draws it takes.
Grown(acc, more) == [rows |-> acc.rows \o more.rows, st |-> more.st]
Rows(n, st, make(_, _)) ==
  FoldLeft(LAMBDA acc, i : Grown(acc, make(i, acc.st)), [rows |-> <<>>, st |-> st], UpTo(n))

\* The tables one after the other, each from the state the last one left; fill(table, before,
\* st) may read the tables before it.
WithTable(acc, t, more) == [rows |-> acc.rows @@ (t :> more.rows), st |-> more.st]
InOrder(tables, st, fill(_, _, _)) ==
  FoldLeft(LAMBDA acc, t : WithTable(acc, t, fill(t, acc.rows, acc.st)),
           [rows |-> <<>>, st |-> st], tables).rows

\* One draw below each bound, in order.
Drawn(acc, d) == [v |-> Append(acc.v, d.v), st |-> d.st]
DrawAll(st, bounds) ==
  FoldLeft(LAMBDA acc, n : Drawn(acc, Int63n(acc.st, n)), [v |-> <<>>, st |-> st], bounds)

\* The structural families: bare nodes and one type of edge.
Structural(n, edges) ==
  Finalize([Node |-> [i \in 1..n |-> [id |-> i - 1]]], [EDGE |-> RelFile("Node", "Node", edges)])

\* idSpace: blocks packed end to end.
Blocks(counts) == [i \in 1..(Len(counts) + 1) |-> FoldLeft(LAMBDA a, b : a + b, 0, SubSeq(counts, 1, i - 1))]

-----------------------------------------------------------------------------
(* Distinct targets and drawn degrees.                                       *)

\* Draw until k are chosen, none of them self.
RECURSIVE Choosing(_, _, _, _, _)
Choosing(st, n, k, self, chosen) ==
  IF Cardinality(chosen) >= k THEN [v |-> chosen, st |-> st]
  ELSE LET with(d) == Choosing(d.st, n, k, self, chosen \cup ({d.v} \ {self})) IN with(Int63n(st, n))

Chosen(st, n, k, self) == Choosing(st, n, k, self, {})
Nobody == -1

\* The rows of the chosen, ascending; row(v, st) takes the draws of its own columns.
Each(chosen, n, row(_, _)) ==
  LET added(acc, r) == [rows |-> Append(acc.rows, r.v), st |-> r.st]
      walk(v, acc) == IF v \in chosen.v THEN added(acc, row(v, acc.st)) ELSE acc
  IN FoldLeft(LAMBDA acc, v : walk(v, acc), [rows |-> <<>>, st |-> chosen.st], UpTo(n))

\* Cumulative weights of the degrees lo to hi, over the last of them.
PowerLawCDF(lo, hi, weight) ==
  [i \in 1..(hi - lo + 1) |-> MapThenSumSet(LAMBDA d : weight[d], lo..(lo + i - 1))]

\* The first bucket above the draw.
DrawDegree(cdf, lo, draw) ==
  LET above == {i \in DOMAIN cdf : draw * cdf[Len(cdf)] < cdf[i] * Unit}
  IN lo + (IF above = {} THEN Len(cdf) ELSE Min(above)) - 1

-----------------------------------------------------------------------------
(* The structural families.                                                  *)

Uniform(n, degree, seed) ==
  IF n <= 0 \/ degree <= 0 \/ degree >= n THEN RefusedConfig
  ELSE Structural(n, Rows(n, NewPRNG(seed), LAMBDA u, st :
         Each(Chosen(st, n, degree, u), n, LAMBDA v, s : [v |-> [from |-> u, to |-> v], st |-> s])).rows)

PowerLaw(n, minDeg, maxDeg, weight, seed) ==
  LET lo == IF minDeg < 1 THEN 1 ELSE minDeg
      cdf == PowerLawCDF(lo, maxDeg, weight)
  IN IF n <= 0 \/ maxDeg < lo \/ maxDeg >= n THEN RefusedConfig
     ELSE Structural(n, Rows(n, NewPRNG(seed), LAMBDA u, st :
            LET r == Float64(st)
            IN Each(Chosen(r.st, n, DrawDegree(cdf, lo, r.v), u), n,
                    LAMBDA v, s : [v |-> [from |-> u, to |-> v], st |-> s])).rows)

\* The pairs are walked by geometric gaps: the failures before the next success are the
\* most that a draw leaves room for. p is a fraction <<num, den>>.
Gap(draw, p) ==
  LET q == p[2] - p[1]
      fails(g) == q^g * Unit >= (Unit - draw) * p[2]^g
  IN CHOOSE g \in 0..12 : fails(g) /\ ~fails(g + 1)

RECURSIVE Walk(_, _, _, _, _)
Walk(st, n, p, idx, rows) ==
  LET r == Float64(st)
      at == idx + Gap(r.v, p) + 1
      u == at \div n
      v == at % n
  IN IF at >= n * n THEN rows
     ELSE Walk(r.st, n, p, at, IF u = v THEN rows ELSE Append(rows, [from |-> u, to |-> v]))

ER(n, p, seed) ==
  IF n <= 0 \/ p[1] <= 0 \/ p[1] >= p[2] THEN RefusedConfig
  ELSE Structural(n, Walk(NewPRNG(seed), n, p, -1, <<>>))

\* No draw at all: each cell and its neighbours of a larger id, and the closed forms the
\* manifest carries.
Grid(rows, cols, diagonal) ==
  LET cell(id) == <<id \div cols, id % cols>>
      near(id, r, c) == IF r \in 0..(rows - 1) /\ c \in 0..(cols - 1)
                        THEN <<[from |-> id, to |-> r * cols + c]>> ELSE <<>>
      edges(id) ==
        LET r == cell(id)[1]  c == cell(id)[2]
        IN near(id, r, c + 1) \o near(id, r + 1, c)
           \o (IF diagonal THEN near(id, r + 1, c + 1) \o near(id, r + 1, c - 1) ELSE <<>>)
      longer == IF cols > rows THEN cols - 1 ELSE rows - 1
  IN IF rows <= 0 \/ cols <= 0 THEN RefusedConfig
     ELSE Structural(rows * cols, FlattenSeq([i \in 1..(rows * cols) |-> edges(i - 1)]))
          @@ [diameter |-> IF diagonal THEN longer ELSE rows + cols - 2]
          @@ (IF diagonal THEN << >> ELSE [triangles |-> 0])

Before(a, b) ==
  \/ a.from < b.from
  \/ a.from = b.from /\ a.to < b.to
  \/ a.from = b.from /\ a.to = b.to /\ a.w < b.w
SortWedges(edges) == SortSeq(edges, Before)

\* One quadrant for each level of the recursion, by the cumulative hundredths of the
\* initiator.
Quadrants(st, scale, init) ==
  FoldLeft(LAMBDA e, level :
             LET r == Float64(e.st)
                 bit == 2^(scale - 1 - level)
                 below(x) == r.v * 100 < x * Unit
                 right == ~below(init[1]) /\ (below(init[1] + init[2]) \/ ~below(init[1] + init[2] + init[3]))
                 down == ~below(init[1] + init[2])
             IN [from |-> e.from + IF down THEN bit ELSE 0, to |-> e.to + IF right THEN bit ELSE 0, st |-> r.st],
           [from |-> 0, to |-> 0, st |-> st], UpTo(scale))

Bare(e) == [rows |-> <<[from |-> e.from, to |-> e.to, w |-> 0]>>, st |-> e.st]
Edges2(n, st, scale, init) == Rows(n, st, LAMBDA i, s : Bare(Quadrants(s, scale, init)))

\* 255 of them, or what a word holds.
Weights == IF 255 < Words THEN 255 ELSE Words - 1

\* A plausible slip: each edge draws its weight at once.
Weighed(e, w) == [rows |-> <<[from |-> e.from, to |-> e.to, w |-> 1 + w.v]>>, st |-> w.st]
WeighedOrBare(e, weighted) == IF weighted THEN Weighed(e, Int63n(e.st, Weights)) ELSE Bare(e)
RMATInline(scale, factor, init, weighted, seed) ==
  IF scale \notin 1..30 \/ factor <= 0 THEN RefusedConfig
  ELSE Structural(2^scale, SortWedges(Rows(factor * 2^scale, NewPRNG(seed), LAMBDA i, s :
         WeighedOrBare(Quadrants(s, scale, init), weighted)).rows))

\* The weights are drawn after every edge.
RMAT(scale, factor, init, weighted, seed) ==
  LET n == 2^scale
      edges == Edges2(factor * n, NewPRNG(seed), scale, init)
      weights == DrawAll(edges.st, [i \in 1..(factor * n) |-> Weights])
  IN IF scale \notin 1..30 \/ factor <= 0 THEN RefusedConfig
     ELSE Structural(n, SortWedges(IF weighted
            THEN [i \in DOMAIN edges.rows |-> [edges.rows[i] EXCEPT !.w = 1 + weights.v[i]]] ELSE edges.rows))

URand(scale, factor, seed) ==
  LET n == 2^scale
      ef == OrDefault(factor, 16)
  IN IF scale \notin 1..30 \/ ef < 0 THEN RefusedConfig
     ELSE Structural(n, SortWedges(Rows(ef * n, NewPRNG(seed), LAMBDA i, st :
            LET d == DrawAll(st, <<n, n, Weights>>)
            IN [rows |-> <<[from |-> d.v[1], to |-> d.v[2], w |-> 1 + d.v[3]]>>, st |-> d.st]).rows))

-----------------------------------------------------------------------------
(* What the structural families promise.                                     *)

Targets(d, u) == {d.rels.EDGE.rows[i].to : i \in {i \in DOMAIN d.rels.EDGE.rows : d.rels.EDGE.rows[i].from = u}}
OutCount(d, u) == Cardinality({i \in DOMAIN d.rels.EDGE.rows : d.rels.EDGE.rows[i].from = u})

\* So many distinct targets other than the source, in a file that is sorted.
Degrees(d, of(_)) ==
  /\ \A u \in 0..(d.nodeCount - 1) :
       /\ u \notin Targets(d, u)
       /\ Cardinality(Targets(d, u)) = OutCount(d, u)
       /\ OutCount(d, u) \in of(u)
  /\ \A i \in 2..d.edgeCount :
       LET a == d.rels.EDGE.rows[i - 1]  b == d.rels.EDGE.rows[i]
       IN a.from < b.from \/ (a.from = b.from /\ a.to < b.to)

\* Loops and duplicates are kept, so the count is exact; the file is sorted.
Kept(d, edges) ==
  /\ d.edgeCount = edges
  /\ \A i \in 1..edges : {d.rels.EDGE.rows[i].from, d.rels.EDGE.rows[i].to} \subseteq 0..(d.nodeCount - 1)
  /\ \A i \in 2..edges : ~Before(d.rels.EDGE.rows[i], d.rels.EDGE.rows[i - 1])

\* "identical edge set as the unweighted one for the same seed": the sorted ends agree.
SameStructure(weighted, bare) ==
  /\ weighted.edgeCount = bare.edgeCount
  /\ \A i \in 1..bare.edgeCount :
       LET a == weighted.rels.EDGE.rows[i]  b == bare.rels.EDGE.rows[i]
       IN a.from = b.from /\ a.to = b.to /\ a.w \in 1..Weights
=============================================================================
