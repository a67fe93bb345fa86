-------------------------------- MODULE MCData --------------------------------
(***************************************************************************)
(* What a figure rests on, asked like the figures: the reference answers,  *)
(* the pools the queries draw from and the comparison; the generators, the *)
(* repack of an upstream tree and the curated pools.                       *)
(***************************************************************************)
EXTENDS Figures, TableData, Curation

O == INSTANCE Oracles
F == INSTANCE FinOracle WITH HubCap <- 3, PoolMax <- 2, Null <- None
A == INSTANCE Answers WITH Digits <- 3, Recip <- 20

-----------------------------------------------------------------------------
(* The inputs of the references.                                             *)

\* A set as a sequence, in some order.
Listed(X) == FoldSet(LAMBDA x, l : Append(l, x), <<>>, X)

Edge(from, to, w) == [from |-> from, to |-> to, w |-> w]
GraphOf(n, edges) == [nodes |-> [i \in 1..n |-> i], edges |-> edges, ok |-> TRUE]

\* Every graph on so many nodes whose arcs are in a set, weighted by where they end.
GraphsOn(n, arcs) == {GraphOf(n, Listed({Edge(a[1], a[2], 1 + ((a[1] + a[2]) % 2)) : a \in X})) : X \in SUBSET arcs}
Arcs(n) == (1..n) \X (1..n)
Loopless(n) == {a \in Arcs(n) : a[1] # a[2]}

\* Parallel edges of different weights, and loops.
Multigraphs ==
  {GraphOf(3, es) : es \in SeqOf({Edge(a[1], a[2], w) : a \in {<<1, 1>>, <<1, 2>>, <<1, 3>>, <<2, 3>>, <<3, 2>>}, w \in {0, 1, 3}}, 3)}

\* Files whose header may lack a column and whose rows may be short or wrong.
NodeFile(header, rows) == [header |-> header, rows |-> rows]
Files ==
  {<<<<NodeFile(h, n)>>, <<NodeFile(e, r)>>>> :
     h \in {<<"ID">>, <<"name", "ID">>, <<"name">>},
     n \in {<<<<1, 2>>, <<2, 1>>>>, <<<<1, 1>>, <<1, 1>>, <<2, 2>>>>, <<<<1>>, <<2, 2>>>>},
     e \in {<<"START_ID", "END_ID">>, <<"START_ID", "END_ID", "w">>, <<"END_ID", "START_ID", "w">>, <<"START_ID">>},
     r \in SeqOf({<<1, 2, 3>>, <<2, 1, 0>>, <<1, 3, 1>>, <<2, 2>>, <<1, 1, -9>>}, 2)}
  \cup {<<<<NodeFile(<<"ID">>, <<<<1>>>>), NodeFile(<<"ID">>, <<<<1>>, <<3>>>>)>>,
          <<NodeFile(<<"START_ID", "END_ID">>, <<<<1, 3>>>>), NodeFile(<<"START_ID", "END_ID">>, r)>>>> :
          r \in {<<<<3, 1>>>>, <<<<1, 2>>>>}}

\* Parents for the nodes of a tree, some of them left out.
Parents(n) == UNION {[X -> 1..n] : X \in SUBSET (1..n)}

\* Persons 1..4, posts 11..13 and forums 21..22, one relationship type varied at a time. As
\* the generator has it, nobody knows himself and a post has one creator; two persons may
\* know each other both ways and twice.
Knows3 == {Listed(X) : X \in SUBSET Loopless(3)}
Knows4 == {Listed(X) : X \in {X \in SUBSET Loopless(4) : Cardinality(X) \in 4..5 /\ <<1, 2>> \in X}}
SocialGraph(creator, container, likes, knows, member) ==
  [HAS_CREATOR |-> creator, CONTAINER_OF |-> container, LIKES |-> likes, KNOWS |-> knows, HAS_MEMBER |-> member]
SocialGraphs ==
  LET triangle == <<<<1, 2>>, <<3, 2>>, <<1, 3>>>>
      made == <<<<11, 1>>, <<12, 2>>, <<13, 3>>>>
      held == <<<<21, 11>>, <<21, 12>>, <<21, 13>>, <<22, 11>>>>
      liked == <<<<1, 11>>, <<2, 11>>, <<3, 11>>, <<1, 12>>>>
      joined == <<<<21, 1>>, <<21, 2>>, <<21, 3>>, <<22, 1>>>>
      some(set) == {Listed(X) : X \in SUBSET set}
  IN {SocialGraph(made, held, liked, k, joined) : k \in Knows3 \cup Knows4}
     \cup {SocialGraph([i \in 1..3 |-> <<10 + i, c[i]>>], held, liked, triangle, joined) : c \in [1..3 -> 1..3]}
     \cup {SocialGraph(made, h, liked, triangle, joined) : h \in some({21, 22} \X {11, 12, 13})}
     \cup {SocialGraph(made, held, l, triangle, joined) : l \in some({1, 2, 3} \X {11, 12})}
     \cup {SocialGraph(made, held, liked, triangle, j) : j \in some({21, 22} \X {1, 2, 3})}
     \cup {SocialGraph(made, held, liked, k \o k, joined) : k \in {<<<<1, 2>>>>, triangle}}

Transfer(src, dst, amount, ts) == [src |-> src, dst |-> dst, amount |-> amount, ts |-> ts]
Accounts == [i \in 1..3 |-> [id |-> i, createTime |-> i - 1]]
\* Up to four transfers in any order, of amounts that fall and rise, and two loans.
FinGraphs ==
  LET amounts == <<4, 2, 3, 1>>
      kinds == {<<a, b, t>> : a \in 1..3, b \in 1..3, t \in {0, 1}}
      few == {k \in kinds : k[1] # k[2] /\ k[3] = 0} \cup {<<1, 2, 1>>, <<1, 1, 0>>}
      fin(f, loans) == [accounts |-> Accounts,
                        transfers |-> [i \in DOMAIN f |-> Transfer(f[i][1], f[i][2], amounts[i], f[i][3])],
                        deposits |-> loans]
  IN {fin(f, <<>>) : f \in SeqOf(few, 3)}
     \cup {fin(f, <<>>) : f \in [1..4 -> {<<1, 2, 0>>, <<2, 1, 0>>, <<2, 3, 1>>, <<3, 1, 0>>}]}
     \cup {fin(f, <<Transfer(7, 1, 9, t), Transfer(7, 2, 9, 1), Transfer(8, 3, 9, 0)>>) : f \in SeqOf(few, 2), t \in {0, 2}}

Assoc(src, dst, ltype, time, payload) == [src |-> src, dst |-> dst, ltype |-> ltype, time |-> time, payload |-> payload]
\* The objects, in file order.
Objects == <<3, 1, 2, 4>>
LinkSets ==
  {[i \in DOMAIN f |-> Assoc(f[i][1], 5 - f[i][1], f[i][2], f[i][3], i)] :
     f \in SeqOf({1, 2, 3, 4} \X {1, 2} \X {0, 1}, 3)}

\* Values that an engine may spell in several ways, and their near misses.
Props(n) == [v |-> n]
Numbers == {<<"int", 100>>, <<"float", 100>>, <<"float", 103>>, <<"int", 103>>, <<"float", 200>>}
\* Rows of two columns, of numbers that are within tolerance or round alike.
Wide == {<<n, <<"string", t>>>> : n \in {<<"float", 100>>, <<"float", 103>>, <<"int", 1001>>, <<"int", 1002>>}, t \in {"a", "b"}}
WideAnswers == [columns : {<<"c", "d">>}, rows : [1..2 -> Wide]]
Values2 == Numbers \cup {<<"null">>, <<"string", "a">>}
Values1 ==
  Values2
  \cup {<<"list", <<<<"int", 1>>, <<"string", "a">>>>>>, <<"list", <<<<"string", "a">>, <<"int", 1>>>>>>,
        <<"map", Props(<<"float", 100>>)>>, <<"map", [w |-> <<"int", 100>>]>>}
  \cup {<<"node", id, labels, Props(<<"int", 1>>)>> : id \in {"x", "y"}, labels \in {<<"A", "B">>, <<"B", "A">>, <<"A", "A">>}}
  \cup {<<"rel", id, "T", "x", "y", Props(n)>> : id \in {"x", "y"}, n \in {<<"int", 1>>, <<"float", 1>>}}
  \cup {<<"path", <<<<"node", "x", <<"A">>, Props(<<"int", 1>>)>>>>, r>> :
          r \in {<<>>, <<<<"rel", "x", "T", "x", "x", Props(<<"int", 1>>)>>>>}}
RowLists(values, n) == {[i \in DOMAIN f |-> <<f[i]>>] : f \in SeqOf(values, n)}
Answers(rows) == [columns : {<<"c">>}, rows : rows]
Comparisons ==
  (Answers(RowLists(Values1, 1)) \X Answers(RowLists(Values1, 1)) \X A!Spec)
  \cup (Answers(RowLists(Numbers, 2)) \X Answers(RowLists(Numbers, 2)) \X {s \in A!Spec : ~s.IncludeElementIDs})
  \cup (WideAnswers \X WideAnswers \X {s \in A!Spec : ~(s.Ordered \/ s.IncludeElementIDs \/ s.CoerceNum)})
  \cup ({[columns |-> <<"d">>, rows |-> <<>>]} \X Answers(RowLists(Values2, 1)) \X A!Spec)
  \cup (Answers(RowLists(Values1 \ Values2, 2)) \X {[columns |-> <<"c">>, rows |-> r] : r \in
          {<<<<<<"node", "y", <<"A", "B">>, Props(<<"int", 1>>)>>>>, <<<<"rel", "x", "T", "x", "y", Props(<<"int", 1>>)>>>>>>,
           <<<<<<"node", "x", <<"A", "A">>, Props(<<"int", 1>>)>>>>, <<<<"node", "x", <<"B", "A">>, Props(<<"int", 1>>)>>>>>>}}
        \X A!Spec)

-----------------------------------------------------------------------------
OracleQuestions ==
  [files |-> Files,
   walks |-> GraphsOn(3, Arcs(3)) \cup {g \in GraphsOn(4, Loopless(4)) : Len(g.edges) < 5},
   paths |-> GraphsOn(3, Arcs(3)) \cup Multigraphs,
   triangles |-> GraphsOn(3, Arcs(3)) \cup GraphsOn(4, Loopless(4)),
   kernels |-> GraphsOn(3, Arcs(3)) \cup {g \in Multigraphs : Len(g.edges) < 3},
   between |-> GraphsOn(4, {<<1, 2>>, <<1, 3>>, <<2, 4>>, <<3, 4>>, <<2, 3>>, <<4, 1>>})
               \cup {g \in Multigraphs : Len(g.edges) < 3},
   trees |-> {GraphOf(3, Listed(X)) : X \in SUBSET {Edge(1, 2, 1), Edge(2, 3, 1), Edge(3, 1, 1), Edge(3, 3, 1)}} \X Parents(3),
   joins |-> SocialGraphs,
   money |-> FinGraphs,
   links |-> LinkSets,
   equal |-> Comparisons]

Scale == 3 * 18 * 18 * 8

Load == part = "files" /\ told' = O!LoadGraph(asked[1], asked[2], -9)
Traverse == part = "walks" /\ told' = [k \in 0..3 |-> O!ReachableExact(asked, 1, k)]
Search == part = "paths" /\ told' = <<O!BFSLevels(asked, 1), O!SSSPWeighted(asked, 1)>>
Triangulate == part = "triangles" /\ told' = <<O!DirectedTriangles(asked), O!UndirectedTriangles(asked)>>
Iterate == part = "kernels" /\ told' = <<O!PageRank(asked, 2, Scale), O!LabelPropagation(asked, 2)>>
Mediate == part = "between" /\ told' = O!Betweenness(asked, {1, 2})
Validate == part = "trees" /\ told' = O!ValidTree(asked[1], 1, asked[2])
Join == part = "joins" /\ told' = [q \in DOMAIN O!Patterns |-> O!CountOracle(q, asked)]
Follow == part = "money" /\ told' = F!BuildPools(asked, 1)
Associate == part = "links" /\ told' = F!LinkPools(asked, Objects, 2)
Match == part = "equal" /\ told' = A!Compare(asked[1], asked[2], asked[3])

OraclesInit ==
  /\ Init
  /\ told = None
  /\ part \in DOMAIN OracleQuestions
  /\ asked \in OracleQuestions[part]

Refer ==
  /\ told = None
  /\ \/ Load \/ Traverse \/ Search \/ Triangulate \/ Iterate \/ Mediate
     \/ Validate \/ Join \/ Follow \/ Associate \/ Match
  /\ UNCHANGED <<part, asked, vars>>

-----------------------------------------------------------------------------
(* What the references are held to.                                          *)

\* The graph the oracles read is the files', and each routine's result is what its name
\* says by another definition: ends of walks, distances, cycles, conserved rank, shares
\* of shortest paths, trees that lead home.
OraclesAgree ==
  /\ Answered("files") => O!LoadsTheFiles(told, asked[1], asked[2], -9)
  /\ Answered("walks") => O!CountsWalks(asked, 1)
  /\ Answered("paths") => O!PathsAreShortest(asked, 1)
  /\ Answered("triangles") => O!CountsTriangles(asked)
  /\ Answered("kernels") => /\ O!RanksConserveMass(asked, 2, Scale)
                            /\ O!LabelsComponents(asked)
                            /\ O!ClustersPairs(asked)
  /\ Answered("between") => O!IsBetweenness(asked, {1, 2})
  /\ Answered("trees") => O!TreesLeadHome(asked[1], 1, asked[2])

\* A reference is what the texts of its query ask: the count of a join is the number of
\* matches of the pattern, whichever of the two meanings an engine gives a pattern; the
\* answer of a transaction query is that of both dialects, and the pool it draws from asks
\* nothing that has no answer.
TextsAgree ==
  /\ Answered("joins") => \A q \in DOMAIN O!Patterns : O!CountsMatches(q, asked) /\ O!OneMeaning(q, asked)
  /\ Answered("money") =>
       /\ \A w \in {<<0, 1>>, <<0, 2>>, <<1, 2>>} : F!AnswersTheTexts(asked, w) /\ F!FollowsTheLoan(asked, w)
       /\ F!PoolsAnswer(asked, 1)
  /\ Answered("links") => F!LinkPoolsAnswer(asked, Objects, 2)

\* The comparison accepts an answer that rounds to the reference, whatever an engine is
\* free to choose: the order of rows, the spelling of a number, ids and the order of labels.
\* It accepts none that cannot be paired off with the reference within tolerance, and of
\* those that can it refuses only what the sort by rounded keys mixes up: rows that are
\* equal within tolerance but round apart, or that round alike and are not equal.
ComparisonIsFair == Answered("equal") => A!ComparesFairly(asked[1], asked[2], asked[3])

\* It does refuse such answers, against what is said of its keys: the rows pair off, but in
\* ascending order the first of one answer is ("a", 100) and of the other ("b", 100); and two
\* large numbers of one key stay in the order they came in.
Row(n, t) == <<n, <<"string", t>>>>
TwoRows(r, s) == [columns |-> <<"c", "d">>, rows |-> <<r, s>>]
Refused(got, want, order) ==
  LET spec == [Ordered |-> FALSE, CoerceNum |-> FALSE, IncludeElementIDs |-> FALSE]
      keys == [i \in DOMAIN order |-> A!RowKey(order[i], spec)]
  IN A!Pairings(got, want, spec) # {} /\ ~A!CompareIn(got, want, spec, keys)
ASSUME RoundedKeysMixUp ==
  LET f == [n \in {100, 103} |-> <<"float", n>>]  g == [n \in {1001, 1002} |-> <<"int", n>>]
  IN /\ Refused(TwoRows(Row(f[100], "a"), Row(f[100], "b")), TwoRows(Row(f[103], "a"), Row(f[100], "b")),
                 <<Row(f[100], "a"), Row(f[100], "b"), Row(f[103], "a")>>)
     /\ Refused(TwoRows(Row(g[1001], "a"), Row(g[1002], "a")), TwoRows(Row(g[1002], "a"), Row(g[1001], "a")),
                 <<Row(g[1001], "a")>>)

-----------------------------------------------------------------------------
(* Where the data comes from.                                                *)

P == INSTANCE Repack WITH Empty <- None

\* Shifts and odd multipliers of a word of six bits.
SmallMixers == [by |-> <<21, 43>>, shifts |-> <<3, 2, 3>>]

-----------------------------------------------------------------------------
(* The inputs.                                                               *)

Seeds == {-1} \cup 0..11
\* Squares and a slower decay: weights of the degrees 1 to 6.
Quadratic == <<3600, 900, 400, 225, 144, 100>>
Slower == <<1000, 354, 192, 125, 89, 68>>

Meshes == {<<r, c, d>> : r \in 0..4, c \in 0..4, d \in BOOLEAN}

\* The kind and the arguments before the seed; some are refused.
StructuralConfigs ==
  ({"uniform"} \X {<<5, 2>>, <<4, 3>>, <<3, 1>>, <<3, 3>>, <<5, 0>>})
  \cup ({"powerlaw"} \X {<<6, 1, 4>>, <<5, 0, 4>>, <<5, 2, 3>>, <<4, 3, 3>>, <<4, 3, 2>>, <<3, 1, 3>>})
  \cup ({"er"} \X {<<4, <<1, 2>>>>, <<6, <<1, 3>>>>, <<1, <<1, 2>>>>, <<3, <<1, 1>>>>})
  \cup ({"rmat"} \X {<<2, 2>>, <<3, 1>>, <<1, 3>>, <<0, 1>>})
  \cup ({"urand"} \X {<<2, 2>>, <<3, 1>>, <<1, 0>>, <<2, -1>>})

SocialConfigs == [persons : {5, 6}, friends : {1, 3}, posts : {1, 2}] \cup {[persons |-> 1, friends |-> 1, posts |-> 1]}
FinConfigs ==
  {[accounts |-> a, days |-> d, txPerDay |-> t, hubs |-> h] :
     a \in {2, 5, 20}, d \in {1, 2}, t \in {3, 20}, h \in {10, 25}}
  \cup {[accounts |-> 1, days |-> 1, txPerDay |-> 1, hubs |-> 1]}
LBConfigs == {<<2, 4>>, <<5, 4>>, <<5, 2>>, <<1, 4>>}

Initiator == <<57, 19, 19>>

\* A tree of each entity with its header, split in shards that repeat it or not, the
\* foreign keys whole, or with those that a root or a first message has not.
Tables ==
  [Person |-> <<<<"id", "LocationCityId">>, <<"1", "2">>, <<"2", "1">>>>,
   Post |-> <<<<"id", "CreatorPersonId", "ContainerForumId", "LocationCountryId">>, <<"1", "2", "1", "1">>>>,
   Comment |-> <<<<"ParentPostId", "ParentCommentId", "id", "CreatorPersonId", "LocationCountryId">>,
                 <<"1", None, "2", "1", "1">>, <<None, "2", "3", "2", "2">>>>,
   Forum |-> <<<<"id", "ModeratorPersonId">>, <<"1", "1">>>>,
   Place |-> <<<<"id", "PartOfPlaceId">>, <<"1", None>>, <<"2", "1">>>>,
   Organisation |-> <<<<"id", "LocationPlaceId">>, <<"1", "2">>>>,
   Tag |-> <<<<"id", "TypeTagClassId">>, <<"1", "1">>, <<"2">>>>,
   TagClass |-> <<<<"id", "SubclassOfTagClassId">>, <<"1", None>>, <<"2", "1">>>>,
   Person_knows_Person |-> <<<<"Person1Id", "Person2Id">>, <<"1", "2">>, <<"2", "1">>>>,
   Person_hasInterest_Tag |-> <<<<"PersonId", "TagId">>, <<"1", "1">>>>,
   Person_likes_Post |-> <<<<"PersonId", "PostId">>, <<"1", "1">>>>,
   Person_likes_Comment |-> <<<<"PersonId", "CommentId">>, <<"1", "2">>, <<"1", "3">>>>,
   Person_studyAt_University |-> <<<<"PersonId", "UniversityId">>, <<"1", "1">>>>,
   Person_workAt_Company |-> <<<<"PersonId", "CompanyId">>, <<"2", "1">>>>,
   Forum_hasMember_Person |-> <<<<"ForumId", "PersonId">>, <<"1", "1">>, <<"1", "2">>>>,
   Post_hasTag_Tag |-> <<<<"PostId", "TagId">>, <<"1", "1">>>>,
   Comment_hasTag_Tag |-> <<<<"CommentId", "TagId">>, <<"2", "2">>>>,
   Forum_hasTag_Tag |-> <<<<"ForumId", "TagId">>, <<"1", "2">>>>]
Sharded(table, how) ==
  CASE how = "one" -> <<table>>
    [] how = "headed" -> [i \in 1..(Len(table) - 1) |-> <<table[1], table[i + 1]>>]
    [] how = "bare" -> [i \in DOMAIN table |-> <<table[i]>>]
    [] how = "twice" -> <<table, <<table[1]>>>>
\* Entities nothing else refers to.
Leaves == {"Comment_hasTag_Tag", "Person_likes_Comment", "Person_knows_Person"}
Trees ==
  {[e \in DOMAIN Tables \ gone |-> Sharded(Tables[e], how[IF e \in {"Comment", "Tag"} THEN 1 ELSE 2])] :
     gone \in SUBSET Leaves, how \in {"one", "headed", "bare", "twice"} \X {"one", "headed", "bare", "twice"}}
RowCounts == [e \in DOMAIN Tables |-> Len(Tables[e]) - 1]

\* Graphs to curate: dense and sparse ids, and every wiring of three nodes and some of five.
Adjacency(n, arcs) == [u \in 1..n |-> SelectSeq([v \in 1..n |-> v], LAMBDA v : <<u, v>> \in arcs)]
Pooled ==
  {[ids |-> <<7, 3, 9>>, out |-> Adjacency(3, a)] : a \in SUBSET Loopless(3)}
  \cup {[ids |-> <<4, 0, 2, 1, 3>>, out |-> Adjacency(5, a)] :
          a \in {{}, Loopless(5), {<<1, 2>>, <<2, 3>>, <<3, 4>>, <<4, 5>>}, {<<1, v>> : v \in 2..5} \cup {<<2, 1>>}}}
  \cup {[ids |-> <<>>, out |-> <<>>], [ids |-> <<8>>, out |-> <<<<>>>>]}
PoolKeys == {"micro-khop", "micro-sp", "micro-point", "micro-point-miss", "micro-edge"}

MatrixClasses == <<"point-read", "traversal", "subgraph", "aggregation", "analytical", "write">>
MatrixNames == <<"aggregation", "analytical", "class-7", "point-read", "q1", "q2", "subgraph", "traversal", "write">>
MatrixMetrics == <<"peak rss", "memory peak (sampled)", "memory steady (sampled)", "store growth">>

\* Result documents: what a query came to, its verdict first. A unit is a hundred of the last.
Timed(n, p50, p99) == [count |-> 4, errors |-> n, first |-> IF n = 0 THEN "" ELSE "boom", p50 |-> p50, p99 |-> p99]
Lost == [count |-> 4, errors |-> 4, first |-> "boom", p50 |-> 0, p99 |-> 0]
Outcomes ==
  ({"PASS"} \X {<<Timed(0, 50, 90)>>, <<Timed(0, 30, 9000)>>, <<Timed(0, 2000000, 3000000)>>, <<Timed(1, 4000, 60000)>>, <<Lost>>, <<>>})
  \cup {<<"", <<>>>>, <<"", <<Timed(0, 40, 90)>>>>, <<"SKIP", <<>>>>, <<"FAIL", <<>>>>}
Given(of) == [q \in {q \in DOMAIN of : of[q][2] # <<>>} |-> of[q][2][1]]
Judged(of) ==
  LET entry(q) == IF of[q][1] = "" THEN <<>> ELSE <<[query |-> q, outcome |-> of[q][1], reason |-> "why"]>>
  IN entry("q1") \o entry("q2")
Total(stats) ==
  LET all == {stats[q] : q \in DOMAIN stats}
      sum(of(_)) == FoldSet(LAMBDA s, total : of(s) + total, 0, all)
      errors == sum(LAMBDA s : s.errors)
  IN [count |-> sum(LAMBDA s : s.count), errors |-> errors, first |-> IF errors = 0 THEN "" ELSE "boom",
      p50 |-> Max({s.p50 : s \in all}), p99 |-> Max({s.p99 : s \in all})]
Rollup(class, stats) == IF DOMAIN stats = {} THEN <<>> ELSE [c \in {class} |-> Total(stats)]
ResultDoc(schema, engine, plane, started, of, cold) ==
  LET stats == Given(of)
      class == IF schema = 3 THEN "traversal" ELSE IF plane = "inproc" THEN 1 ELSE 7
      kept == DOMAIN stats \ {q \in DOMAIN stats : stats[q] = Lost}
  IN [schema |-> schema, workload |-> "micro", fidelity |-> "", engine |-> engine, plane |-> plane, started |-> started,
      verification |-> IF schema = 3 THEN Judged(of) ELSE <<>>,
      classes |-> Rollup(class, stats), queries |-> stats, cold |-> IF cold THEN Rollup(class, [q \in kept |-> stats[q]]) ELSE <<>>,
      resource |-> [r \in {"peak rss", "memory peak (sampled)", "memory steady (sampled)", "store growth", "readings"} |->
                      IF r \in {"peak rss", "store growth"} THEN IF plane = "inproc" THEN 5 ELSE -1
                      ELSE IF plane = "inproc" THEN 3 ELSE IF engine = "f" /\ r # "readings" THEN -1 ELSE 0],
      teps |-> [q \in kept |-> [edges |-> 7, rate |-> 5]],
      drift |-> [c \in IF kept = {} THEN {} ELSE {"traversal"} |-> [first |-> 2, worst |-> 3, trend |-> 1]]]
ResultDocs ==
  {ResultDoc(schema, e, p, 1, "q1" :> a @@ "q2" :> b, cold) :
     schema \in {2, 3}, e \in {"e", "f"}, p \in {"inproc", "bolt"}, a \in Outcomes,
     b \in {<<"PASS", <<Timed(0, 700, 800)>>>>, <<"SKIP", <<>>>>}, cold \in BOOLEAN}
Lineages ==
  {<<a, b>> : a \in {d \in ResultDocs : d.engine = "e" /\ d.schema = 3 /\ (d.plane = "bolt" <=> d.cold = <<>>)}, b \in {d \in ResultDocs : d.plane = "bolt" <=> d.cold = <<>>}}
  \cup {[i \in 1..3 |-> [ResultDoc(3, "e", p[i], t[i], "q1" :> <<"PASS", <<Timed(0, 10 * i, 10 * i)>>>> @@ "q2" :> <<"", <<>>>>, FALSE)
                            EXCEPT !.engine = en[i]]] :
           p \in [1..3 -> {"inproc", "bolt", "subprocess", "native"}], t \in {<<1, 1, 1>>, <<2, 1, 3>>, <<2, 2, 1>>},
           en \in {<<"e", "e", "e">>, <<"e", "f", "e">>}}

DataQuestions ==
  [word |-> 1..Words,
   grid |-> Meshes,
   structural |-> StructuralConfigs \X Seeds,
   social |-> SocialConfigs \X Seeds,
   fin |-> FinConfigs \X Seeds,
   lb |-> LBConfigs \X Seeds,
   repack |-> Trees,
   pool |-> Pooled \X PoolKeys \X {1, 3, 4, 8, 15} \X {0, 5}]

Draw == part = "word" /\ told' = [x \in Word |-> Bucket(asked, x)]
Mesh == part = "grid" /\ told' = Grid(asked[1], asked[2], asked[3])
Wire ==
  /\ part = "structural"
  /\ LET kind == asked[1][1]  c == asked[1][2]  seed == asked[2]
     IN told' = CASE kind = "uniform" -> Uniform(c[1], c[2], seed)
                  [] kind = "powerlaw" -> PowerLaw(c[1], c[2], c[3], Quadratic, seed)
                  [] kind = "er" -> ER(c[1], c[2], seed)
                  [] kind = "rmat" -> RMAT(c[1], c[2], Initiator, TRUE, seed)
                  [] kind = "urand" -> URand(c[1], c[2], seed)
Befriend == part = "social" /\ told' = Social(asked[1], Quadratic, asked[2])
Bank == part = "fin" /\ told' = Fin(asked[1], Slower, asked[2])
Relate == part = "lb" /\ told' = LB(asked[1][1], asked[1][2], Quadratic, asked[2])
Rewrite == part = "repack" /\ told' = P!Run(asked)
Draft == part = "pool" /\ told' = Curate(asked[1], asked[2], asked[3], asked[4])

DataInit ==
  /\ Init
  /\ told = None
  /\ part \in DOMAIN DataQuestions
  /\ asked \in DataQuestions[part]

Supply ==
  /\ told = None
  /\ \/ Draw \/ Mesh \/ Wire \/ Befriend \/ Bank \/ Relate \/ Rewrite \/ Draft
  /\ UNCHANGED <<part, asked, vars>>

-----------------------------------------------------------------------------
(* What the data is held to.                                                 *)

\* A mesh as the references load it.
MeshGraph(d) ==
  [nodes |-> [i \in DOMAIN d.nodes.Node |-> d.nodes.Node[i].id], ok |-> TRUE,
   edges |-> [i \in DOMAIN d.rels.EDGE.rows |-> Edge(d.rels.EDGE.rows[i].from, d.rels.EDGE.rows[i].to, 1)]]

\* The closed forms of the manifest are what the references find in the file.
ClosedForms(d, rows, cols, diagonal) ==
  LET g == MeshGraph(d)
      far == {O!ShortestPathUndirected(g, a, b) : a, b \in 0..(rows * cols - 1)}
  IN /\ d.nodeCount = rows * cols
     /\ d.edgeCount = rows * (cols - 1) + cols * (rows - 1)
                      + IF diagonal THEN 2 * (rows - 1) * (cols - 1) ELSE 0
     /\ d.diameter = Max(far) /\ O!NoPath \notin far
     /\ ~diagonal => O!UndirectedTriangles(g) = d.triangles

StructuresHold(kind, c, seed, d) ==
  CASE kind = "uniform" -> Degrees(d, LAMBDA u : {c[2]})
    [] kind = "powerlaw" -> Degrees(d, LAMBDA u : Max({1, c[2]})..c[3])
    [] kind = "er" -> Degrees(d, LAMBDA u : 0..(c[1] - 1))
    [] kind = "rmat" -> Kept(d, c[2] * 2^c[1]) /\ SameStructure(d, RMAT(c[1], c[2], Initiator, FALSE, seed))
    [] kind = "urand" -> Kept(d, OrDefault(c[2], 16) * 2^c[1])

\* The data is what its recipe says: draws favour nobody, a family keeps its shape for
\* every seed, several tables share one space of ids, an upstream tree is repacked whole,
\* and a curated pool asks what its query is for.
DataAsPromised ==
  /\ Answered("word") => Unbiased(asked) /\ (asked = 1 => ExactProducts /\ FullPeriod)
  /\ (Answered("grid") /\ told.ok) => ClosedForms(told, asked[1], asked[2], asked[3])
  /\ (Answered("structural") /\ told.ok) => StructuresHold(asked[1][1], asked[1][2], asked[2], told)
  /\ (Answered("social") /\ told.ok) => SocialIsSocial(told)
  /\ (Answered("fin") /\ told.ok) => FinIsFin(told, asked[1].days, asked[1].txPerDay)
  /\ (Answered("lb") /\ told.ok) => LinksAreDistinct(told)
  /\ Answered("repack") => P!RepacksWhole(told, asked, RowCounts)
  /\ Answered("pool") => PoolAsks(asked[1], asked[2], asked[3], told)

-----------------------------------------------------------------------------
(* The inputs of the figures.                                                *)

Sample(class, query, latency, err, start) ==
  [class |-> class, query |-> query, latency |-> latency, rows |-> latency,
   err |-> err, start |-> start]

\* Two reads and a write, one of the reads anonymous; any of them may fail.
FewSamples ==
  LET one == {Sample(k[1], k[2], l, None, 0) :
                k \in {<<"PointRead", "q">>, <<"PointRead", "">>, <<"Write", "w">>}, l \in {1, 2, 5}}
             \cup {Sample(k[1], k[2], 9, "timeout", 0) :
                k \in {<<"PointRead", "q">>, <<"Write", "w">>}}
  IN SeqOf(one, 3)

\* Long enough for the percentiles to differ, across the sizes where a rank jumps.
ManySamples ==
  {[i \in 1..n |-> Sample("PointRead", "q", (i * 7) % 13,
                          IF i % e = 0 THEN "timeout" ELSE None, 0)] :
     n \in {9, 10, 11, 19, 20, 21, 99, 100, 101, 102}, e \in {5, 300}}

\* A read at some of the times of a run of windows of two ticks, and now and then a write.
Runs ==
  LET slots == <<<<"PointRead", 0>>, <<"Write", 1>>, <<"PointRead", 2>>, <<"Write", 3>>,
                 <<"PointRead", 4>>, <<"PointRead", 6>>, <<"PointRead", 9>>>>
      taken(f) == SelectSeq([i \in 1..7 |-> i], LAMBDA i : f[i] > 0)
  IN {[j \in DOMAIN taken(f) |->
         LET i == taken(f)[j] IN Sample(slots[i][1], "q", f[i], None, slots[i][2])] :
        f \in [1..7 -> {0, 1, 3}]}

Stat(class, count, p50, p99) == [class |-> class, count |-> count, p50 |-> p50, p99 |-> p99]

Latencies == {0, 1000, 1100, 1101, 1900, 100001}

Document(workload, class, count, p50, p99, verdict, other) ==
  [workload |-> workload, plane |-> "InProc", startedAt |-> 1,
   classes |-> [c \in {class} |-> Stat(class, count, p50, p99)],
   queries |-> [q |-> Stat(class, count, p50, p99)],
   drift |-> [c \in {class} |-> <<other, 10>>],
   sync |-> 900, concurrency |-> <<1, 4>>,
   verification |-> [q |-> verdict, r |-> "PASS"]]

Documents ==
  {Document(w, c, 1, l[1], l[2], v, d) :
     w \in {"fb-read", "snb-short"}, c \in {"Traversal", "Write", "Analytical"},
     l \in {l \in Latencies \X Latencies : l[1] <= l[2]},
     v \in {"PASS", "FAIL", "SKIP"}, d \in {11, 12}}

Baselines ==
  {{}} \cup {{Document("fb-read", "Traversal", n, 1000, 1000, v, 10)} :
               n \in {0, 1}, v \in {"PASS", "SKIP"}}

\* Up to three documents of two workloads, of several ages.
Histories ==
  {[i \in DOMAIN ages |->
      [Document("fb-read", "Traversal", 1, ages[i], ages[i], "PASS", 10)
         EXCEPT !.startedAt = ages[i] \div 1000,
                !.workload = IF ages[i] = 1900 THEN "snb-short" ELSE "fb-read"]] :
     ages \in SeqOf({1000, 1100, 1900, 2500}, 3)}

RunStat(count, p50, p99) == [count |-> count, min |-> p50, p50 |-> p50, p99 |-> p99]
RunStats ==
  {RunStat(0, 0, 0), RunStat(1, 0, 0), RunStat(1, 10, 10), RunStat(1, 10, 11), RunStat(1, 15, 30)}
OneRun == {[q |-> s, r |-> t] : s \in RunStats, t \in RunStats} \cup {[q |-> s] : s \in RunStats}
\* A further run, with a query the others may lack or without one they have.
Further ==
  {[q |-> RunStat(0, 0, 0)], [q |-> RunStat(1, 10, 10)], [r |-> RunStat(1, 15, 30)],
   [q |-> RunStat(1, 15, 30), r |-> RunStat(1, 10, 11)]}
Reading(user, growth) == [user |-> user, child |-> IF user < 0 THEN -1 ELSE 2, growth |-> growth]
Costs == {<<a, b>> : a, b \in {Reading(u, g) : u \in {-1, 3, 4}, g \in {-1, 0, 7}}}

Side(host, sync, band, p50, p99) ==
  [host |-> host, sync |-> sync,
   low |-> IF band /\ sync > 0 THEN sync - 1 ELSE 0, high |-> IF band /\ sync > 0 THEN sync + 10 ELSE 0,
   stats |-> [c \in {"Write", "Traversal", "Analytical"} |-> [count |-> 1, p50 |-> p50, p99 |-> p99]],
   queries |-> [q |-> 1]]
Sides ==
  {Side(h, s, b, l[1], l[2]) :
     h \in {"laptop", "server"}, s \in {-1, 5, 30, 40}, b \in BOOLEAN,
     l \in {<<0, 0>>, <<9, 90>>, <<60, 61>>, <<80, 80>>, <<81, 100>>, <<99, 120>>}}

Pools == {<<2, 1, 1>>, <<1, 2, 3>>, <<0, 2, 1>>}
MixWeights == [1..3 -> {0, 1, 2, 5}]

FigureQuestions ==
  [stats |-> FewSamples \cup ManySamples,
   drift |-> Runs,
   teps |-> {<<e, d>> : e \in {0, 1, 6}, d \in SeqOf(0..3, 3)},
   gate |-> Documents \X Baselines \X {G!NoFloor, <<18, 10>>},
   noise |-> [1..2 -> OneRun] \cup {[i \in 1..3 |-> [q |-> f[i]]] : f \in [1..3 -> RunStats]},
   pairs |-> {<<b, a, f>> : b, a \in {[w |-> <<r>>] : r \in OneRun}, f \in Further}
             \cup {<<[w |-> <<r>>], [v |-> <<r>>], f>> : r \in OneRun, f \in Further},
   costs |-> Costs \X Costs,
   rival |-> Sides \X Sides,
   mix |-> Pools \X MixWeights \X (0..4),
   open |-> (1..3) \X {0, 1, 3, 7, 300} \X {0, 500, 1000},
   verb |-> Histories \X Histories,
   flat |-> {<<a, b>> : a, b \in {Stat("PointRead", 1, l, l) : l \in Latencies}},
   ceiling |-> {"InProc", "Bolt"} \X {-1, 0, 500, 1000} \X {<<>>, <<1>>, <<4, 1>>, <<0>>},
   matrix |-> Lineages,
   warm |-> {<<t, f>> : t \in {<<1>>, <<100, 1>>, <<3000, 50, 4>>}, f \in {0, 2000}}]

-----------------------------------------------------------------------------
\* Whichever is asked first is all a behaviour asks.
AllSpec == (FiguresInit \/ OraclesInit \/ DataInit) /\ [][FiguresNext \/ Refer \/ Supply]_<<part, asked, told, vars>>
===============================================================================
