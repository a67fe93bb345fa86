-------------------------------- MODULE Oracles --------------------------------
(***************************************************************************)
(* The reference answers (workload/oracle.go, analytics_oracle.go): the    *)
(* graph as it is loaded from the canonical CSV, and the routines whose    *)
(* results an engine is held to, each beside what it is supposed to be.    *)
(*                                                                         *)
(* A graph is [nodes, edges]: ids in file order, and a sequence of         *)
(* [from, to, w] that may hold parallel edges and loops. An id is the      *)
(* number it is ordered by. A score is an exact fraction.                  *)
(***************************************************************************)
EXTENDS Integers, SequencesExt

Absent == 0  \* structuralColumn's -1, of columns counted from one

-----------------------------------------------------------------------------
(* Loading. A file is [header, rows]: the types of its columns and the       *)
(* records, which may be short. Refused is the error.                        *)

Refused == [nodes |-> <<>>, edges |-> <<>>, ok |-> FALSE]

ColumnOf(header, type) ==
  IF \E i \in DOMAIN header : header[i] = type
  THEN CHOOSE i \in DOMAIN header : header[i] = type /\ \A j \in 1..(i - 1) : header[j] # type
  ELSE Absent

\* The rows of a file while nothing is wrong; read(g, row) is the graph after a row, or
\* Refused.
ScanRows(g, file, needed, read(_, _)) ==
  IF ~g.ok \/ (\E type \in needed : ColumnOf(file.header, type) = Absent) THEN Refused
  ELSE FoldLeft(LAMBDA h, row :
                  IF ~h.ok \/ (\E type \in needed : ColumnOf(file.header, type) > Len(row))
                  THEN Refused ELSE read(h, row),
                g, file.rows)

\* intern: an id is registered once.
ScanNodes(g, file) ==
  ScanRows(g, file, {"ID"}, LAMBDA h, row :
    LET id == row[ColumnOf(file.header, "ID")]
    IN IF id \in ToSet(h.nodes) THEN h ELSE [h EXCEPT !.nodes = Append(@, id)])

\* A weight is 1 where there is no such column; NaN is one that does not parse.
ScanRels(g, file, NaN) ==
  LET w == ColumnOf(file.header, "w")
  IN ScanRows(g, file, {"START_ID", "END_ID"}, LAMBDA h, row :
       LET from == row[ColumnOf(file.header, "START_ID")]
           to == row[ColumnOf(file.header, "END_ID")]
           known == {from, to} \subseteq ToSet(h.nodes)
           weighed == w = Absent \/ (w <= Len(row) /\ row[w] # NaN)
       IN IF ~known \/ ~weighed THEN Refused
          ELSE [h EXCEPT !.edges =
                  Append(@, [from |-> from, to |-> to, w |-> IF w = Absent THEN 1 ELSE row[w]])])

\* Every node file before the first edge.
LoadGraph(nodeFiles, relFiles, NaN) ==
  FoldLeft(LAMBDA g, f : ScanRels(g, f, NaN),
           FoldLeft(ScanNodes, [nodes |-> <<>>, edges |-> <<>>, ok |-> TRUE], nodeFiles), relFiles)

-----------------------------------------------------------------------------
(* Neighbours.                                                               *)

Nodes(g) == ToSet(g.nodes)
Edges(g) == DOMAIN g.edges
OutEdges(g, u) == {e \in Edges(g) : g.edges[e].from = u}
InEdges(g, u) == {e \in Edges(g) : g.edges[e].to = u}
Succ(g) == [u \in Nodes(g) |-> {g.edges[e].to : e \in OutEdges(g, u)}]
Pred(g) == [u \in Nodes(g) |-> {g.edges[e].from : e \in InEdges(g, u)}]
Beside(g) == [u \in Nodes(g) |-> Succ(g)[u] \cup Pred(g)[u]]

Sum(f, S) == MapThenSumSet(LAMBDA x : f[x], S)

OutDegree(g, id) == Cardinality(OutEdges(g, id))
HasNode(g, id) == id \in Nodes(g)

\* The nodes one step on from a frontier.
Step(succ, frontier) == UNION {succ[u] : u \in frontier}

\* The frontiers of a walk: after each hop, up to k of them.
Frontiers(succ, seed, k) ==
  LET after[hop \in 0..k] == IF hop = 0 THEN {seed} ELSE Step(succ, after[hop - 1])
  IN after

ReachableExact(g, seed, k) ==
  IF HasNode(g, seed) THEN Cardinality(Frontiers(Succ(g), seed, k)[k]) ELSE 0

\* The breadth-first walk, frontier by frontier: levels of the nodes reached.
RECURSIVE Grow(_, _, _, _)
Grow(succ, level, frontier, depth) ==
  LET new == Step(succ, frontier) \ DOMAIN level
  IN IF new = {} THEN level
     ELSE Grow(succ, level @@ [v \in new |-> depth], new, depth + 1)

Levels(succ, s) == Grow(succ, s :> 0, {s}, 1)
BFSLevels(g, s) == Levels(Succ(g), s)

\* A plausible slip: a node once seen is not counted again.
ReachableOnce(g, seed, lo, hi) ==
  IF HasNode(g, seed) THEN Cardinality({v \in DOMAIN BFSLevels(g, seed) : BFSLevels(g, seed)[v] \in lo..hi}) ELSE 0

ReachableRange(g, seed, lo, hi) ==
  IF HasNode(g, seed) THEN Cardinality(UNION {Frontiers(Succ(g), seed, hi)[h] : h \in lo..hi}) ELSE 0

NoPath == -1
PathLength(succ, src, dst) ==
  IF {src, dst} \subseteq DOMAIN succ /\ dst \in DOMAIN Levels(succ, src)
  THEN Levels(succ, src)[dst] ELSE NoPath
ShortestPath(g, src, dst) == PathLength(Succ(g), src, dst)
ShortestPathUndirected(g, src, dst) == PathLength(Beside(g), src, dst)

EdgesReached(g, s) ==
  MapThenSumSet(LAMBDA u : Cardinality(OutEdges(g, u)), DOMAIN BFSLevels(g, s))

ScanIDStats(g) == <<Len(g.nodes), MapThenSumSet(LAMBDA v : v, Nodes(g))>>

\* Two sorted lists merge on equal elements, each used once.
IntersectionSize(a, b) ==
  MapThenSumSet(LAMBDA x : LET n == Cardinality({i \in DOMAIN a : a[i] = x})
                               m == Cardinality({i \in DOMAIN b : b[i] = x})
                           IN IF n < m THEN n ELSE m, ToSet(a) \cap ToSet(b))

DirectedTriangles(g) ==
  LET ends(S, of(_)) == [i \in 1..Cardinality(S) |-> of(SetToSortSeq(S, <)[i])]
      out(u) == ends(OutEdges(g, u), LAMBDA e : g.edges[e].to)
      in(u) == ends(InEdges(g, u), LAMBDA e : g.edges[e].from)
  IN MapThenSumSet(LAMBDA e : IntersectionSize(out(g.edges[e].to), in(g.edges[e].from)), Edges(g)) \div 3

\* Each edge from the lower to the higher end, then a higher node beside both.
UndirectedTriangles(g) ==
  LET adj == [u \in Nodes(g) |-> Beside(g)[u] \ {u}]
      higher(u) == {v \in adj[u] : v > u}
  IN MapThenSumSet(LAMBDA a : MapThenSumSet(LAMBDA b : Cardinality(higher(b) \cap adj[a]), higher(a)), Nodes(g))

-----------------------------------------------------------------------------
(* Whole-graph kernels.                                                      *)

\* Dijkstra: a heap of tentative distances, stale entries left in it and skipped.
RECURSIVE Settle(_, _, _)
Settle(g, dist, heap) ==
  IF heap = {} THEN dist
  ELSE LET it == CHOOSE i \in heap : \A j \in heap : i.d <= j.d
           nearer(e) == LET v == g.edges[e].to  d == it.d + g.edges[e].w
                        IN v \notin DOMAIN dist \/ d < dist[v]
           better == {e \in OutEdges(g, it.v) : nearer(e)}
           new == [v \in {g.edges[e].to : e \in better} |->
                     it.d + Min({g.edges[e].w : e \in {e \in better : g.edges[e].to = v}})]
       IN IF it.d > dist[it.v] THEN Settle(g, dist, heap \ {it})
          ELSE Settle(g, new @@ dist, (heap \ {it}) \cup {[v |-> v, d |-> new[v]] : v \in DOMAIN new})

SSSPWeighted(g, s) == Settle(g, s :> 0, {[v |-> s, d |-> 0]})

\* PageRank for a damping of one half, each score times a scale that every division of
\* the rounds divides: the dangling mass is shared out evenly.
PageRank(g, rounds, scale) ==
  LET n == Len(g.nodes)
      next(pr) ==
        LET dangling == MapThenSumSet(LAMBDA u : IF OutDegree(g, u) = 0 THEN pr[u] ELSE 0, Nodes(g))
            into(v) == MapThenSumSet(LAMBDA e : pr[g.edges[e].from] \div OutDegree(g, g.edges[e].from),
                                     InEdges(g, v))
        IN [v \in Nodes(g) |-> (scale \div (2 * n)) + (dangling \div (2 * n)) + (into(v) \div 2)]
      after[r \in 0..rounds] ==
        IF r = 0 THEN [v \in Nodes(g) |-> scale \div n] ELSE next(after[r - 1])
  IN after[rounds]

\* Components, found one after the other and then named by their least member.
WeaklyConnectedComponents(g) ==
  [v \in Nodes(g) |-> Min(DOMAIN Levels(Beside(g), v))]

\* Synchronous rounds: the commonest label on either side of a node, a pair of edges
\* counting twice, and the least of equals.
LabelPropagation(g, rounds) ==
  LET adopt(label, v) ==
        LET count(l) == Cardinality({e \in OutEdges(g, v) : label[g.edges[e].to] = l})
                        + Cardinality({e \in InEdges(g, v) : label[g.edges[e].from] = l})
            seen == {label[u] : u \in Beside(g)[v]}
        IN IF seen = {} THEN label[v]
           ELSE CHOOSE l \in seen : \A k \in seen : count(l) > count(k) \/ (count(l) = count(k) /\ l <= k)
      after[r \in 0..rounds] ==
        IF r = 0 THEN [v \in Nodes(g) |-> v] ELSE [v \in Nodes(g) |-> adopt(after[r - 1], v)]
  IN after[rounds]

\* The pairs of neighbours an edge joins, over all their ordered pairs.
LocalClustering(g) ==
  [v \in Nodes(g) |->
     LET near == Beside(g)[v] \ {v}  d == Cardinality(near)
     IN IF d < 2 THEN <<0, 1>>
        ELSE <<MapThenSumSet(LAMBDA u : Cardinality((Succ(g)[u] \ {u}) \cap near), near), d * (d - 1)>>]

\* Fractions that add.
Plus(p, q) == <<p[1] * q[2] + q[1] * p[2], p[2] * q[2]>>
SumOf(S, of(_)) == FoldSet(LAMBDA x, t : Plus(of(x), t), <<0, 1>>, S)
Same(p, q) == p[1] * q[2] = q[1] * p[2]

\* Brandes: shortest paths counted forward, dependencies handed back.
Betweenness(g, sources) ==
  LET from(s) ==
        LET level == BFSLevels(g, s)
            tree == {e \in Edges(g) : g.edges[e].from \in DOMAIN level
                                      /\ level[g.edges[e].to] = level[g.edges[e].from] + 1}
            into(v) == {e \in tree : g.edges[e].to = v}
            outof(v) == {e \in tree : g.edges[e].from = v}
            sigma[v \in DOMAIN level] ==
              IF v = s THEN 1 ELSE MapThenSumSet(LAMBDA e : sigma[g.edges[e].from], into(v))
            delta[v \in DOMAIN level] ==
              SumOf(outof(v), LAMBDA e :
                LET w == g.edges[e].to  more == Plus(<<1, 1>>, delta[w])
                IN <<sigma[v] * more[1], sigma[w] * more[2]>>)
        IN [v \in Nodes(g) |-> IF v \in DOMAIN level \ {s} THEN delta[v] ELSE <<0, 1>>]
  IN [v \in Nodes(g) |-> SumOf(sources \cap Nodes(g), LAMBDA s : from(s)[v])]

\* ValidateBFSTree: nil, by parent entries.
ValidTree(g, src, parent) ==
  LET level == Levels(Beside(g), src)
  IN /\ src \in Nodes(g) /\ src \in DOMAIN parent /\ parent[src] = src
     /\ \A v \in DOMAIN parent \ {src} :
          /\ {v, parent[v]} \subseteq Nodes(g)
          /\ v \in DOMAIN level
          /\ parent[v] \in Beside(g)[v]
          /\ level[v] = level[parent[v]] + 1

-----------------------------------------------------------------------------
(* What they are supposed to be.                                             *)

\* The graph holds what the files say, in order, or it was refused: an edge to a node no
\* file names, a row that is too short and a weight that is no number never pass.
LoadsTheFiles(g, nodeFiles, relFiles, NaN) ==
  LET rows(files) == FlattenSeq([i \in DOMAIN files |-> files[i].rows])
      has(f, types) == types \subseteq ToSet(f.header)
      named == UNION {{r[ColumnOf(f.header, "ID")] : r \in ToSet(f.rows)} :
                        f \in {f \in ToSet(nodeFiles) : has(f, {"ID"}) /\ \A r \in ToSet(f.rows) : Len(r) >= ColumnOf(f.header, "ID")}}
  IN g.ok =>
       /\ Nodes(g) = named /\ Len(g.nodes) = Cardinality(named)
       /\ Len(g.edges) = Len(rows(relFiles))
       /\ \A e \in Edges(g) : /\ {g.edges[e].from, g.edges[e].to} \subseteq named
                              /\ \E f \in ToSet(relFiles) :
                                   /\ rows(relFiles)[e] \in ToSet(f.rows)
                                   /\ rows(relFiles)[e][ColumnOf(f.header, "START_ID")] = g.edges[e].from
                                   /\ rows(relFiles)[e][ColumnOf(f.header, "END_ID")] = g.edges[e].to
                              /\ g.edges[e].w # NaN

\* A walk of length k is a function of the hops.
IsWalk(succ, w, k) == \A i \in 0..(k - 1) : w[i + 1] \in succ[w[i]]
EndsOfWalks(g, seed, k) ==
  {w[k] : w \in {w \in [0..k -> Nodes(g)] : w[0] = seed /\ IsWalk(Succ(g), w, k)}}

CountsWalks(g, seed) ==
  /\ \A k \in 0..3 : ReachableExact(g, seed, k) = Cardinality(EndsOfWalks(g, seed, k))
  /\ ReachableRange(g, seed, 1, 3) = Cardinality(UNION {EndsOfWalks(g, seed, k) : k \in 1..3})

\* The only distances there can be: nothing for the source, no edge that shortens, and
\* for every other node reached an edge that accounts for all of it.
IsDistance(dist, g, s, weight(_)) ==
  /\ dist[s] = 0
  /\ \A e \in Edges(g) : g.edges[e].from \in DOMAIN dist =>
       /\ g.edges[e].to \in DOMAIN dist
       /\ dist[g.edges[e].to] <= dist[g.edges[e].from] + weight(e)
  /\ \A v \in DOMAIN dist \ {s} : \E e \in InEdges(g, v) :
       g.edges[e].from \in DOMAIN dist /\ dist[v] = dist[g.edges[e].from] + weight(e)

PathsAreShortest(g, s) ==
  LET back == [e \in Edges(g) |-> [from |-> g.edges[e].to, to |-> g.edges[e].from, w |-> 1]]
      two == [g EXCEPT !.edges = @ \o back]
  IN /\ IsDistance(BFSLevels(g, s), g, s, LAMBDA e : 1)
     /\ IsDistance(SSSPWeighted(g, s), g, s, LAMBDA e : g.edges[e].w)
     /\ IsDistance(Levels(Beside(g), s), two, s, LAMBDA e : 1)
     /\ DOMAIN SSSPWeighted(g, s) = DOMAIN BFSLevels(g, s)
     /\ EdgesReached(g, s) = Cardinality({e \in Edges(g) : ShortestPath(g, s, g.edges[e].from) # NoPath})
     /\ \A v \in Nodes(g) : ShortestPathUndirected(g, s, v) = ShortestPathUndirected(g, v, s)

\* Of a graph without parallel edges or loops: cycles of three, and triples that are
\* pairwise adjacent.
CountsTriangles(g) ==
  LET arc == {<<g.edges[e].from, g.edges[e].to>> : e \in Edges(g)}
      cycle(a, b, c) == {<<a, b>>, <<b, c>>, <<c, a>>} \subseteq arc
      joined(a, b) == <<a, b>> \in arc \/ <<b, a>> \in arc
      triples == {t \in SUBSET Nodes(g) : Cardinality(t) = 3}
      simple == Cardinality(arc) = Len(g.edges) /\ \A a \in arc : a[1] # a[2]
  IN /\ simple => DirectedTriangles(g) =
                    Cardinality({t \in Nodes(g) \X Nodes(g) \X Nodes(g) :
                                   cycle(t[1], t[2], t[3]) /\ t[1] < t[2] /\ t[1] < t[3]})
     /\ UndirectedTriangles(g) =
          Cardinality({t \in triples : \A a, b \in t : a # b => joined(a, b)})

\* No score is lost or made, and none is below the teleport.
RanksConserveMass(g, rounds, scale) ==
  LET pr == PageRank(g, rounds, scale)
  IN /\ Sum(pr, Nodes(g)) = scale
     /\ \A v \in Nodes(g) : pr[v] >= scale \div (2 * Len(g.nodes))

\* Same component, same label; the label is the least member and reaches the node.
LabelsComponents(g) ==
  LET comp == WeaklyConnectedComponents(g)
  IN /\ \A e \in Edges(g) : comp[g.edges[e].from] = comp[g.edges[e].to]
     /\ \A v \in Nodes(g) : comp[v] <= v /\ ShortestPathUndirected(g, comp[v], v) # NoPath
     /\ \A v \in Nodes(g), r \in 0..2 :
          ShortestPathUndirected(g, LabelPropagation(g, r)[v], v) \in 0..r

\* Between nought and one, and one way of storing a graph answers like another: without
\* its parallel edges it answers the same.
ClustersPairs(g) ==
  LET arcs == {[e EXCEPT !.w = 1] : e \in ToSet(g.edges)}
      thin == [g EXCEPT !.edges = FoldSet(LAMBDA e, l : Append(l, e), <<>>, arcs)]
  IN \A v \in Nodes(g) :
       /\ LocalClustering(g)[v][1] \in 0..LocalClustering(g)[v][2]
       /\ LocalClustering(g)[v] = LocalClustering(thin)[v]

\* Of every pair of other nodes, the share of the shortest paths that pass through.
IsBetweenness(g, sources) ==
  LET paths(s, t) ==
        LET k == ShortestPath(g, s, t)
        IN {p \in [1..k -> Edges(g)] :
              /\ g.edges[p[1]].from = s /\ g.edges[p[k]].to = t
              /\ \A i \in 1..(k - 1) : g.edges[p[i]].to = g.edges[p[i + 1]].from}
      pairs(v) == {st \in sources \X Nodes(g) :
                     st[1] # st[2] /\ v \notin {st[1], st[2]} /\ ShortestPath(g, st[1], st[2]) > 0}
      share(st, v) ==
        LET all == paths(st[1], st[2])
        IN <<Cardinality({p \in all : \E i \in DOMAIN p : g.edges[p[i]].from = v}), Cardinality(all)>>
  IN \A v \in Nodes(g) : Same(Betweenness(g, sources)[v], SumOf(pairs(v), LAMBDA st : share(st, v)))

\* A tree that passes and names the parents of its parents leads every node to the root
\* by a shortest path.
TreesLeadHome(g, src, parent) ==
  (ValidTree(g, src, parent) /\ \A v \in DOMAIN parent : parent[v] \in DOMAIN parent) =>
    \A v \in DOMAIN parent :
      LET up[i \in 0..Len(g.nodes)] == IF i = 0 THEN v ELSE parent[up[i - 1]]
          k == ShortestPathUndirected(g, src, v)
      IN up[k] = src /\ \A i \in 0..(k - 1) : up[i] # src

-----------------------------------------------------------------------------
(* The counting oracle of the join workload (workload/lsqb/oracle.go) against *)
(* the nine patterns the queries ask for (lsqb.go): the matches of a pattern  *)
(* whose relationships are pairwise distinct and whose nodes may coincide. A  *)
(* dataset is a record of sequences of <<start, end>>, one per type; a bag of *)
(* edges is counted by position.                                              *)

StartDegree(edges, u) == Cardinality({i \in DOMAIN edges : edges[i][1] = u})
EndDegree(edges, v) == Cardinality({i \in DOMAIN edges : edges[i][2] = v})
PairCount(edges, u, v) == Cardinality({i \in DOMAIN edges : edges[i] = <<u, v>>})
Starts(edges) == {edges[i][1] : i \in DOMAIN edges}
Ends(edges) == {edges[i][2] : i \in DOMAIN edges}
SumOver(edges, value(_)) == MapThenSumSet(LAMBDA i : value(edges[i]), DOMAIN edges)

\* Over every creator edge of a post.
OfCreators(d, m, value(_)) ==
  SumOver(d.HAS_CREATOR, LAMBDA e : IF e[1] = m THEN value(e[2]) ELSE 0)

\* How many unordered pairs of persons know each other how often; loops are dropped.
Pair(u, v) == {u, v}
\* A plausible slip: two persons know each other once or not at all.
Acquainted(knows, u, v) ==
  IF \E i \in DOMAIN knows : u # v /\ Pair(knows[i][1], knows[i][2]) = Pair(u, v) THEN 1 ELSE 0

Multiplicity(knows, u, v) ==
  Cardinality({i \in DOMAIN knows : u # v /\ Pair(knows[i][1], knows[i][2]) = Pair(u, v)})

\* Each triangle once, in ascending order.
Triangles(knows) ==
  LET people == Starts(knows) \cup Ends(knows)
  IN {t \in people \X people \X people :
        /\ t[1] < t[2] /\ t[2] < t[3]
        /\ Multiplicity(knows, t[1], t[2]) > 0
        /\ Multiplicity(knows, t[2], t[3]) > 0
        /\ Multiplicity(knows, t[1], t[3]) > 0}

\* Six matches of a triangle for every choice of its relationships, times what hangs
\* off it.
OverTriangles(knows, weight(_, _, _)) ==
  6 * MapThenSumSet(LAMBDA t : Multiplicity(knows, t[1], t[2]) * Multiplicity(knows, t[2], t[3])
                               * Multiplicity(knows, t[1], t[3]) * weight(t[1], t[2], t[3]),
                    Triangles(knows))

\* Over the keys all three share, and no others.
SharedProduct(count(_, _), keys, a, b, c) ==
  MapThenSumSet(LAMBDA x : count(a, x) * count(b, x) * count(c, x), keys)

PostsInForum(d, p, f) ==
  SumOver(d.CONTAINER_OF, LAMBDA e : IF e[1] = f THEN PairCount(d.HAS_CREATOR, e[2], p) ELSE 0)

FourCycles(knows) ==
  LET loopless == {i \in DOMAIN knows : knows[i][1] # knows[i][2]}
      arcs(u) == {[rel |-> i, other |-> IF knows[i][1] = u THEN knows[i][2] ELSE knows[i][1]] :
                    i \in {i \in loopless : u \in {knows[i][1], knows[i][2]}}}
      closing(a, e1, e2, e3) ==
        LET m == Multiplicity(knows, e3.other, a)
            used == {r \in {e1.rel, e2.rel, e3.rel} :
                       Pair(knows[r][1], knows[r][2]) = Pair(e3.other, a)}
        IN IF m = 0 THEN 0 ELSE m - Cardinality(used)
  IN MapThenSumSet(LAMBDA a :
       MapThenSumSet(LAMBDA e1 :
         MapThenSumSet(LAMBDA e2 :
           MapThenSumSet(LAMBDA e3 : closing(a, e1, e2, e3),
             {e \in arcs(e2.other) : e.rel \notin {e1.rel, e2.rel}}),
           {e \in arcs(e1.other) : e.rel # e1.rel}),
         arcs(a)),
       Starts(knows) \cup Ends(knows))

Q1Count(d) ==
  SumOver(d.CONTAINER_OF, LAMBDA e : OfCreators(d, e[2], LAMBDA p : StartDegree(d.LIKES, p)))

Q2Count(d) ==
  MapThenSumSet(LAMBDA m : OfCreators(d, m, LAMBDA p : StartDegree(d.KNOWS, p)) * EndDegree(d.LIKES, m),
                Starts(d.HAS_CREATOR))

Q3Count(d) ==
  SumOver(d.CONTAINER_OF, LAMBDA e : OfCreators(d, e[2], LAMBDA p : PairCount(d.HAS_MEMBER, e[1], p)))

\* The two relationships of a chain are distinct where nobody knows himself.
Q4Count(d) ==
  LET chain(p) == SumOver(d.KNOWS, LAMBDA e : IF e[1] = p THEN StartDegree(d.KNOWS, e[2]) ELSE 0)
  IN MapThenSumSet(LAMBDA m : OfCreators(d, m, chain) * EndDegree(d.LIKES, m) * EndDegree(d.CONTAINER_OF, m),
                   Starts(d.HAS_CREATOR))

Q5Count(d) == OverTriangles(d.KNOWS, LAMBDA a, b, c : 1)

Q6Count(d) ==
  OverTriangles(d.KNOWS, LAMBDA a, b, c :
    SharedProduct(LAMBDA p, f : PostsInForum(d, p, f), Starts(d.CONTAINER_OF), a, b, c))

Q7Count(d) == FourCycles(d.KNOWS)

\* Ordered pairs of two posts of one creator in one forum.
Q8Count(d) ==
  MapThenSumSet(LAMBDA pf : PostsInForum(d, pf[1], pf[2]) * (PostsInForum(d, pf[1], pf[2]) - 1),
                Ends(d.HAS_CREATOR) \X Starts(d.CONTAINER_OF))

Q9Count(d) ==
  OverTriangles(d.KNOWS, LAMBDA a, b, c :
    SharedProduct(LAMBDA p, f : PairCount(d.HAS_MEMBER, f, p), Starts(d.HAS_MEMBER), a, b, c)
    * SharedProduct(LAMBDA p, m : PairCount(d.LIKES, p, m), Ends(d.LIKES), a, b, c))

CountOracle(q, d) ==
  CASE q = "lsqb-q1" -> Q1Count(d) [] q = "lsqb-q2" -> Q2Count(d) [] q = "lsqb-q3" -> Q3Count(d)
    [] q = "lsqb-q4" -> Q4Count(d) [] q = "lsqb-q5" -> Q5Count(d) [] q = "lsqb-q6" -> Q6Count(d)
    [] q = "lsqb-q7" -> Q7Count(d) [] q = "lsqb-q8" -> Q8Count(d) [] q = "lsqb-q9" -> Q9Count(d)

-----------------------------------------------------------------------------
(* What the queries ask: a pattern is a sequence of relationships            *)
(* <<type, variable, variable>>; KNOWS between two variables is undirected   *)
(* where the type says so.                                                   *)

Either == "KNOWS either way"

Patterns ==
  LET triangle == <<<<Either, "a", "b">>, <<Either, "b", "c">>, <<Either, "c", "a">>>>
      post(m, p) == <<<<"CONTAINER_OF", "f", m>>, <<"HAS_CREATOR", m, p>>>>
  IN ("lsqb-q1" :> post("m", "p") \o <<<<"LIKES", "p", "n">>>>)
     @@ ("lsqb-q2" :> <<<<"HAS_CREATOR", "m", "p">>, <<"KNOWS", "p", "q">>, <<"LIKES", "l", "m">>>>)
     @@ ("lsqb-q3" :> <<<<"HAS_MEMBER", "f", "p">>>> \o post("m", "p"))
     @@ ("lsqb-q4" :> <<<<"HAS_CREATOR", "m", "p">>, <<"KNOWS", "p", "q">>, <<"KNOWS", "q", "r">>,
                       <<"LIKES", "l", "m">>, <<"CONTAINER_OF", "f", "m">>>>)
     @@ ("lsqb-q5" :> triangle)
     @@ ("lsqb-q6" :> triangle \o post("ma", "a") \o post("mb", "b") \o post("mc", "c"))
     @@ ("lsqb-q7" :> <<<<Either, "a", "b">>, <<Either, "b", "c">>, <<Either, "c", "d">>, <<Either, "d", "a">>>>)
     @@ ("lsqb-q8" :> post("m1", "p") \o post("m2", "p"))
     @@ ("lsqb-q9" :> triangle \o [i \in 1..3 |-> <<"HAS_MEMBER", "f", <<"a", "b", "c">>[i]>>]
                              \o [i \in 1..3 |-> <<"LIKES", <<"a", "b", "c">>[i], "m">>])

\* The WHERE clauses: q7 names its relationships and q8 its posts.
Wants(q, bound) == q = "lsqb-q8" => bound["m1"] # bound["m2"]

\* The matches that go on from a partial one, bound to variables; distinct is whether a
\* relationship may be used once only.
RECURSIVE Matches(_, _, _, _, _, _)
Matches(q, d, i, bound, used, distinct) ==
  IF i > Len(Patterns[q]) THEN IF Wants(q, bound) THEN 1 ELSE 0
  ELSE LET step == Patterns[q][i]
           type == IF step[1] = Either THEN "KNOWS" ELSE step[1]
           edges == d[type]
           fits(var, node) == var \in DOMAIN bound => bound[var] = node
           free == {r \in DOMAIN edges : distinct => <<type, r>> \notin used}
           ways == {w \in free \X {1, 2} :
                      /\ w[2] = 2 => step[1] = Either
                      /\ fits(step[2], edges[w[1]][w[2]]) /\ fits(step[3], edges[w[1]][3 - w[2]])}
           then(w) == (step[2] :> edges[w[1]][w[2]]) @@ (step[3] :> edges[w[1]][3 - w[2]]) @@ bound
       IN MapThenSumSet(LAMBDA w : Matches(q, d, i + 1, then(w), used \cup {<<type, w[1]>>}, distinct), ways)

Asks(q, d) == Matches(q, d, 1, <<>>, {}, TRUE)

\* The oracle's count is the pattern's.
CountsMatches(q, d) == CountOracle(q, d) = Asks(q, d)

\* "A closed three-walk in a loop-free graph is always a triangle": but for q7, which
\* spells it out, an engine that lets a relationship be used twice answers the same.
OneMeaning(q, d) == q # "lsqb-q7" => Matches(q, d, 1, <<>>, {}, FALSE) = Asks(q, d)
=============================================================================
