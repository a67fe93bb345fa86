------------------------------- MODULE Curation -------------------------------
(***************************************************************************)
(* The curated parameter pools of the micro family (workload/curate.go).   *)
(* A graph is [ids, out]: the ids in file order and the sorted adjacency,  *)
(* by position counted from one. The draws are those of Int63n, in the     *)
(* order the code takes them; math/rand is any such source.                *)
(***************************************************************************)
EXTENDS Prng, SequencesExt

CONSTANT PairTries    \* the draws allowed for each pair asked for, 64 in curateEdge

ASSUME CurationAssumption == PairTries \in Nat \ {0}

NodeCountOf(g) == Len(g.ids)
CeilDiv(a, b) == (a + b - 1) \div b
IdsAt(g, positions) == [i \in DOMAIN positions |-> g.ids[positions[i]]]
PairsAt(g, pairs) == [i \in DOMAIN pairs |-> IdsAt(g, pairs[i])]
UpToSize(pool, size) == SubSeq(pool, 1, Min({Len(pool), size}))

\* The first k of a partial Fisher-Yates shuffle.
Swapped(v, i, d) == [v |-> [v EXCEPT ![i] = v[i + d.v], ![i + d.v] = v[i]], st |-> d.st]
First(k, drawn) == [v |-> SubSeq(drawn.v, 1, k), st |-> drawn.st]
Shuffled(st, list, k) ==
  First(k, FoldLeft(LAMBDA acc, i : Swapped(acc.v, i, Int63n(acc.st, Len(list) - i + 1)),
                    [v |-> list, st |-> st], [i \in 1..k |-> i]))

-----------------------------------------------------------------------------
(* micro-khop: four bands of out-degree.                                     *)

\* Positions by out-degree, then id.
ByDegree(g) ==
  SortSeq([i \in DOMAIN g.ids |-> i], LAMBDA a, b :
    \/ Len(g.out[a]) < Len(g.out[b])
    \/ Len(g.out[a]) = Len(g.out[b]) /\ g.ids[a] < g.ids[b])

\* A band that would be empty takes the node at its lower bound.
Band(n, q) ==
  LET lo == ((q - 1) * n) \div 4  hi == (q * n) \div 4
  IN <<lo, IF lo >= hi THEN Min({lo + 1, n}) ELSE hi>>

CurateKHop(g, size, st) ==
  LET joined(acc, s) == [v |-> acc.v \o s.v, st |-> s.st]
      ofBand(from, b) == Shuffled(from, SubSeq(ByDegree(g), b[1] + 1, b[2]), Min({CeilDiv(size, 4), b[2] - b[1]}))
      drawn == FoldLeft(LAMBDA acc, q : joined(acc, ofBand(acc.st, Band(NodeCountOf(g), q))),
                        [v |-> <<>>, st |-> st], <<1, 2, 3, 4>>)
  IN IF NodeCountOf(g) = 0 THEN <<>> ELSE IdsAt(g, UpToSize(drawn.v, size))

-----------------------------------------------------------------------------
(* micro-sp: pairs over a spread of distances.                               *)

RECURSIVE SpreadFrom(_, _, _)
SpreadFrom(g, dist, depth) ==
  LET next == (UNION {ToSet(g.out[u]) : u \in {u \in DOMAIN dist : dist[u] = depth}}) \ DOMAIN dist
  IN IF next = {} THEN dist ELSE SpreadFrom(g, dist @@ [v \in next |-> depth + 1], depth + 1)
CurateBFS(g, src) == SpreadFrom(g, src :> 0, 0)

\* The targets a source reaches, nearest first.
Nearest(g, src, dist) ==
  SortSeq(SelectSeq([i \in DOMAIN g.ids |-> i], LAMBDA v : v \in DOMAIN dist /\ v # src),
          LAMBDA a, b : dist[a] < dist[b] \/ (dist[a] = dist[b] /\ a < b))
Reachable(g, src) == Nearest(g, src, CurateBFS(g, src))

\* A pair is added once.
AddPair(pool, pair) == IF pair \in ToSet(pool) THEN pool ELSE Append(pool, pair)

RECURSIVE FillShare(_, _, _, _, _, _)
FillShare(pool, st, src, middle, limit, attempts) ==
  IF Len(pool) >= limit \/ attempts = 0 THEN [v |-> pool, st |-> st]
  ELSE LET d == Int63n(st, Len(middle))
       IN FillShare(AddPair(pool, <<src, middle[d.v + 1]>>), d.st, src, middle, limit, attempts - 1)

\* The nearest, the middle and the farthest of a source, then some of its middle half.
SharePicks(size, acc, src, reach) ==
  LET r == Len(reach)
      perSource == CeilDiv(size, 5)
      limit == Min({Len(acc.v) + perSource, size})
      picked == FoldLeft(LAMBDA pool, p : IF Len(pool) >= limit THEN pool ELSE AddPair(pool, <<src, reach[p + 1]>>),
                         acc.v, <<0, r \div 2, r - 1>>)
      lo == r \div 4  hi == (3 * r) \div 4
      middle == IF hi <= lo THEN reach ELSE SubSeq(reach, lo + 1, hi)
  IN IF r = 0 \/ Len(acc.v) >= size THEN acc
     ELSE FillShare(picked, acc.st, src, middle, limit, 4 * perSource)

CurateSP(g, size, st) ==
  LET n == NodeCountOf(g)
      sources == <<0, n \div 4, n \div 2, (3 * n) \div 4, n - 1>>
      pool == FoldLeft(LAMBDA acc, s : SharePicks(size, acc, s + 1, Reachable(g, s + 1)), [v |-> <<>>, st |-> st], sources).v
  IN IF n < 2 THEN <<>> ELSE PairsAt(g, pool)

-----------------------------------------------------------------------------
(* micro-point, micro-point-miss, micro-edge.                                *)

CuratePoint(g, size, st) ==
  LET n == NodeCountOf(g) IN IdsAt(g, Shuffled(st, [i \in 1..n |-> i], Min({size, n})).v)

\* Ids above the largest, looked up all the same.
CuratePointMiss(g, size) ==
  LET top == Max({-1} \cup ToSet(g.ids))
      above == [i \in 1..(size * 4 + 8) |-> top + i]
  IN UpToSize(SelectSeq(above, LAMBDA id : id \notin ToSet(g.ids)), size)

CurateHasEdge(g, a, b) == b \in ToSet(g.out[a])
FlatEdges(g) == FlattenSeq([u \in DOMAIN g.ids |-> [i \in DOMAIN g.out[u] |-> <<u, g.out[u][i]>>]])

RECURSIVE Hits(_, _, _, _)
Hits(g, st, want, seen) ==
  IF Len(seen) = want THEN [v |-> seen, st |-> st]
  ELSE LET d == Int63n(st, Len(FlatEdges(g)))
       IN Hits(g, d.st, want, AddPair(seen, d.v + 1))

RECURSIVE Misses(_, _, _, _, _)
Misses(g, st, misses, attempts, pool) ==
  LET drawn(a, b) ==
        IF a = b.v \/ CurateHasEdge(g, a + 1, b.v + 1)
        THEN Misses(g, b.st, misses, attempts - 1, pool)
        ELSE Misses(g, b.st, misses - 1, attempts - 1, Append(pool, <<a + 1, b.v + 1>>))
      from(a) == drawn(a.v, Int63n(a.st, NodeCountOf(g)))
  IN IF misses = 0 \/ attempts = 0 THEN pool ELSE from(Int63n(st, NodeCountOf(g)))

\* Half of them edges, each once, then as many pairs that are none as are still wanted.
CurateEdge(g, size, st) ==
  LET flat == FlatEdges(g)
      filled(hits) ==
        Misses(g, hits.st, size - Len(hits.v), PairTries * size, [i \in DOMAIN hits.v |-> flat[hits.v[i]]])
      hits == IF flat = <<>> THEN [v |-> <<>>, st |-> st]
              ELSE Hits(g, st, Min({CeilDiv(size, 2), Len(flat)}), <<>>)
  IN IF NodeCountOf(g) = 0 THEN <<>> ELSE PairsAt(g, filled(hits))

Curate(g, key, size, st) ==
  CASE key = "micro-khop" -> CurateKHop(g, size, st)
    [] key = "micro-sp" -> CurateSP(g, size, st)
    [] key = "micro-point" -> CuratePoint(g, size, st)
    [] key = "micro-point-miss" -> CuratePointMiss(g, size)
    [] key = "micro-edge" -> CurateEdge(g, size, st)
    [] key = "micro-triangle" -> <<{}>>

-----------------------------------------------------------------------------
(* What a pool is held to.                                                   *)

At(g, id) == CHOOSE i \in DOMAIN g.ids : g.ids[i] = id
HasPair(g, p) == CurateHasEdge(g, At(g, p[1]), At(g, p[2]))

\* When they share the pool evenly, each quarter of the nodes by degree is asked of as often
\* as its share says, or whole if it has no more: hubs and leaves alike, at any size.
BandsAreAsked(g, pool, size) ==
  LET n == NodeCountOf(g)
      degree(i) == Len(g.out[i])
      below(i) == {j \in DOMAIN g.ids :
                     degree(j) < degree(i) \/ (degree(j) = degree(i) /\ g.ids[j] < g.ids[i])}
      quarter(q) == {i \in DOMAIN g.ids : Cardinality(below(i)) \in (((q - 1) * n) \div 4)..((q * n) \div 4 - 1)}
      asked(q) == {i \in DOMAIN pool : At(g, pool[i]) \in quarter(q)}
  IN (size % 4 = 0 /\ n >= 4) =>
       /\ IsInjective(pool)
       /\ \A q \in 1..4 : Cardinality(asked(q)) = Min({size \div 4, Cardinality(quarter(q))})

\* A pool asks what its query is for: ids that are there, ids that are not, pairs that are
\* reached from a nearest to a farthest, and both answers of the edge question.
PoolAsks(g, key, size, pool) ==
  /\ Len(pool) <= Max({size, 1})
  /\ key \in {"micro-khop", "micro-point"} => ToSet(pool) \subseteq ToSet(g.ids)
  /\ key = "micro-khop" => BandsAreAsked(g, pool, size)
  /\ key = "micro-point" => IsInjective(pool) /\ Len(pool) = Min({size, NodeCountOf(g)})
  /\ key = "micro-point-miss" => ToSet(pool) \cap ToSet(g.ids) = {} /\ Len(pool) = size /\ IsInjective(pool)
  /\ key = "micro-sp" =>
       /\ IsInjective(pool)
       /\ \A i \in DOMAIN pool : pool[i][1] # pool[i][2]
                                /\ At(g, pool[i][2]) \in DOMAIN CurateBFS(g, At(g, pool[i][1]))
       /\ (size >= 15 /\ NodeCountOf(g) > 1) =>
            LET dist == CurateBFS(g, 1)
                asked == {dist[At(g, pool[i][2])] : i \in {i \in DOMAIN pool : pool[i][1] = g.ids[1]}}
            IN Cardinality(DOMAIN dist) > 1 =>
                 {1, Max({dist[v] : v \in DOMAIN dist})} \subseteq asked
  /\ key = "micro-edge" =>
       LET yes == {i \in DOMAIN pool : HasPair(g, pool[i])}
           edges == Len(FlatEdges(g))
       IN /\ Cardinality(yes) = Min({CeilDiv(size, 2), edges})
          /\ Cardinality({pool[i] : i \in yes}) = Cardinality(yes) \/ ~IsInjective(FlatEdges(g))
          /\ \A i \in DOMAIN pool \ yes : pool[i][1] # pool[i][2]
=============================================================================
