------------------------------- MODULE FinOracle -------------------------------
(***************************************************************************)
(* The reference answers of the transaction workload (finbench/oracle.go), *)
(* the curated pools its queries draw from (finbench/pools.go), and the    *)
(* trails the query texts ask for (finbench.go). The association lists of  *)
(* the social workload (linkbench) are beside them.                        *)
(*                                                                         *)
(* A dataset is [accounts, transfers, deposits]: sequences in file order   *)
(* of [id, createTime] and [src, dst, amount, ts]. A relationship is its   *)
(* position, and a window <<s, e>> is half open. An id is the rank of its  *)
(* text, which is what the routines order it by.                           *)
(***************************************************************************)
EXTENDS Integers, SequencesExt

CONSTANTS HubCap, PoolMax, Null

Unbounded == 0

InWindow(edge, w) == w[1] <= edge.ts /\ edge.ts < w[2]

\* The most recent first, the earlier in the file of two at one time.
NewestFirst(edges, S) ==
  SetToSortSeq(S, LAMBDA i, j : edges[i].ts > edges[j].ts \/ (edges[i].ts = edges[j].ts /\ i < j))

Out(g, u) == NewestFirst(g.transfers, {e \in DOMAIN g.transfers : g.transfers[e].src = u})
In(g, u) == NewestFirst(g.transfers, {e \in DOMAIN g.transfers : g.transfers[e].dst = u})

\* A dataset without transfers is refused.
Loads(g) == g.transfers # <<>>
Times(g) == {g.transfers[e].ts : e \in DOMAIN g.transfers}
MinTs(g) == Min(Times(g))
MaxTs(g) == Max(Times(g))
Ids(g) == {g.accounts[i].id : i \in DOMAIN g.accounts}
LoanIDs(g) == SetToSortSeq({g.deposits[i].src : i \in DOMAIN g.deposits}, <)

WinEdges(g, list, w, limit) ==
  LET kept == SelectSeq(list, LAMBDA e : InWindow(g.transfers[e], w))
  IN IF limit > 0 /\ Len(kept) > limit THEN SubSeq(kept, 1, limit) ELSE kept

\* One hop from a frontier, at most HubCap edges out of a node.
Expand(g, frontier, w) ==
  {g.transfers[e].dst : e \in UNION {ToSet(WinEdges(g, Out(g, u), w, HubCap)) : u \in frontier}}

\* A plausible slip: the search never comes back to its seed.
KhopAway(g, seed, w, depth) ==
  LET frontier[d \in 0..depth] == IF d = 0 THEN {seed} ELSE Expand(g, frontier[d - 1], w) \ {seed}
  IN UNION {frontier[d] : d \in 1..depth}

KhopOut(g, seed, w, depth) ==
  LET frontier[d \in 0..depth] == IF d = 0 THEN {seed} ELSE Expand(g, frontier[d - 1], w)
  IN UNION {frontier[d] : d \in 1..depth}

\* Breadth first, no node twice.
Search(g, src, w, hops) ==
  LET at[h \in 0..hops] ==
        IF h = 0 THEN [new |-> {src}, seen |-> {src}]
        ELSE LET new == Expand(g, at[h - 1].new, w) \ at[h - 1].seen
             IN [new |-> new, seen |-> at[h - 1].seen \cup new]
  IN at

ShortestWin(g, src, dst, w, hops) ==
  LET hits == {h \in 1..hops : dst \in Expand(g, Search(g, src, w, hops)[h - 1].new, w)}
  IN IF hits = {} THEN Null ELSE Min(hits)

EdgeWinTo(g, m, a, w) == \E e \in ToSet(Out(g, m)) : InWindow(g.transfers[e], w) /\ g.transfers[e].dst = a

Loops(g, id, w) == Cardinality({m \in KhopOut(g, id, w, 3) \ {id} : EdgeWinTo(g, m, id, w)})

Sources(g, id, w) == {g.transfers[e].src : e \in ToSet(WinEdges(g, In(g, id), w, Unbounded))}
FanIn(g, w, threshold) ==
  {<<a, Cardinality(Sources(g, a, w))>> : a \in {a \in Ids(g) : Cardinality(Sources(g, a, w)) > threshold}}

Amounts(g, list) == FoldLeft(LAMBDA sum, e : sum + g.transfers[e].amount, 0, list)
FanStats(g, id, w) ==
  LET in == WinEdges(g, In(g, id), w, Unbounded)
      out == WinEdges(g, Out(g, id), w, Unbounded)
  IN [inCount |-> Len(in), inSum |-> Amounts(g, in), outCount |-> Len(out), outSum |-> Amounts(g, out)]

Deposited(g, loan, w) ==
  {g.deposits[i].dst : i \in {i \in DOMAIN g.deposits : g.deposits[i].src = loan /\ InWindow(g.deposits[i], w)}}
LoanChain(g, loan, w) == Cardinality(UNION {KhopOut(g, a, w, 2) : a \in Deposited(g, loan, w)})

\* The third hop is not the first again; the second cannot be, for want of loops.
DecayReach(g, id, w, decay) ==
  LET hop(u) == ToSet(WinEdges(g, Out(g, u), w, HubCap))
      t == g.transfers
  IN Cardinality({d \in Ids(g) :
       \E e1 \in hop(id) : \E e2 \in hop(t[e1].dst) : \E e3 \in hop(t[e2].dst) :
         /\ t[e2].amount <= t[e1].amount * decay
         /\ t[e3].amount <= t[e2].amount * decay
         /\ e3 # e1
         /\ d = t[e3].dst})

Burst(g, i, w) ==
  IF w[1] <= g.accounts[i].createTime /\ g.accounts[i].createTime < w[2]
  THEN Len(WinEdges(g, Out(g, g.accounts[i].id), w, Unbounded)) ELSE 0
NewAccountBurst(g, w, threshold) == Cardinality({i \in DOMAIN g.accounts : Burst(g, i, w) > threshold})

RecentOut(g, id, w, limit) ==
  LET t == g.transfers
      before(i, j) ==
        \/ t[i].ts > t[j].ts
        \/ t[i].ts = t[j].ts /\ t[i].amount > t[j].amount
        \/ t[i].ts = t[j].ts /\ t[i].amount = t[j].amount /\ t[i].dst < t[j].dst
        \/ <<t[i].ts, t[i].amount, t[i].dst>> = <<t[j].ts, t[j].amount, t[j].dst>> /\ i < j
      sorted == SetToSortSeq(ToSet(WinEdges(g, Out(g, id), w, Unbounded)), before)
  IN [i \in 1..Min({limit, Len(sorted)}) |-> <<t[sorted[i]].dst, t[sorted[i]].amount, t[sorted[i]].ts>>]

-----------------------------------------------------------------------------
(* The curated pools: what the queries are drawn with.                       *)

Windows(g) ==
  LET q == Max({1, (MaxTs(g) - MinTs(g) + 1) \div 4})
  IN [i \in 1..5 |->
        CASE i = 5 -> <<MinTs(g), MaxTs(g) + 1>>
          [] i = 4 -> <<MinTs(g) + 3 * q, MaxTs(g) + 1>>
          [] OTHER -> <<MinTs(g) + (i - 1) * q, MinTs(g) + i * q>>]

TopBy(g, k, degree(_)) ==
  LET ranked == SetToSortSeq(Ids(g), LAMBDA a, b : degree(a) > degree(b) \/ (degree(a) = degree(b) /\ a < b))
  IN SubSeq(ranked, 1, Min({k, Len(ranked)}))
TopOut(g, k) == TopBy(g, k, LAMBDA id : Len(Out(g, id)))
TopIn(g, k) == TopBy(g, k, LAMBDA id : Len(In(g, id)))

\* Of each candidate the first window that answers, until the pool is full. An entry is
\* <<candidate, window>>, or with what answers(candidate, window) adds.
FirstOf(c, good) == IF good = <<>> THEN <<>> ELSE <<<<c, good[1]>>>>
UpToMax(pool) == SubSeq(pool, 1, Min({PoolMax, Len(pool)}))
Pooled(candidates, windows, answers(_, _)) ==
  LET entry(c) == FirstOf(c, SelectSeq(windows, LAMBDA w : answers(c, w)))
  IN UpToMax(FlattenSeq([i \in DOMAIN candidates |-> entry(candidates[i])]))

\* The least id of the deepest level within the hops.
Farthest(g, src, w, hops) ==
  LET new(h) == Search(g, src, w, hops)[h].new
      deep == {h \in 1..hops : new(h) # {}}
  IN IF deep = {} THEN Null ELSE Min(new(Max(deep)))

Tcr1Pool(g) == Pooled(TopOut(g, 12), Windows(g), LAMBDA id, w : KhopOut(g, id, w, 2) # {})
Tcr3Pool(g) == Pooled(TopOut(g, 12), Windows(g), LAMBDA id, w : Farthest(g, id, w, 3) # Null)
Unless(found, last) == IF found # <<>> THEN found ELSE last
Whole(candidates, w) == [i \in DOMAIN candidates |-> <<candidates[i], w>>]
Tcr4Pool(g) ==
  Unless(Pooled(TopIn(g, 16), Windows(g), LAMBDA id, w : Loops(g, id, w) > 0), Whole(TopIn(g, 4), Windows(g)[5]))
Tcr5Pool(g) ==
  Pooled(TopIn(g, 12), Windows(g), LAMBDA id, w : FanStats(g, id, w).inCount + FanStats(g, id, w).outCount > 0)

\* A loan's own window is the three days after its first deposit; Days is their length.
Tcr8Pool(g, Days) ==
  LET first(l) == g.deposits[Min({i \in DOMAIN g.deposits : g.deposits[i].src = l})].ts
      windows(l) == <<<<first(l), first(l) + Days>>, Windows(g)[5]>>
      entry(l) == FirstOf(l, SelectSeq(windows(l), LAMBDA w : LoanChain(g, l, w) > 0))
      loans == LoanIDs(g)
  IN UpToMax(FlattenSeq([i \in DOMAIN loans |-> entry(loans[i])]))

Decays == <<1, 2, 1000>>
FirstDecay(g, id, w) == SelectSeq(Decays, LAMBDA d : DecayReach(g, id, w, d) > 0)
Tcr11Pool(g) ==
  Unless(Pooled(TopOut(g, 12), Windows(g), LAMBDA id, w : FirstDecay(g, id, w) # <<>>), Whole(TopOut(g, 1), Windows(g)[5]))

\* Windows with something in them, and half of the most there is as the threshold.
Busiest(counted) ==
  LET kept == SelectSeq(counted, LAMBDA c : c[2] >= 1)
  IN [i \in 1..Min({4, Len(kept)}) |-> <<kept[i][1], kept[i][2] \div 2>>]
ThresholdPool(windows, most(_)) == Busiest([i \in DOMAIN windows |-> <<windows[i], most(windows[i])>>])
Tcr2Pool(g) ==
  ThresholdPool(Windows(g), LAMBDA w : Max({0} \cup {Cardinality(Sources(g, a, w)) : a \in Ids(g)}))
Tcr12Pool(g) == ThresholdPool(Windows(g), LAMBDA w : Max({0} \cup {Burst(g, i, w) : i \in DOMAIN g.accounts}))

W1Pool(g) ==
  [i \in 1..Min({PoolMax, Len(g.accounts) \div 2}) |-> <<g.accounts[2 * i - 1].id, g.accounts[2 * i].id>>]
Sr1Pool(g) ==
  FoldLeft(LAMBDA pool, id : IF id \in ToSet(pool) \/ Len(pool) >= PoolMax THEN pool ELSE Append(pool, id),
           <<>>, TopIn(g, 4) \o TopOut(g, 4))
Sr2Pool(g) == Pooled(TopOut(g, 12), Windows(g), LAMBDA id, w : WinEdges(g, Out(g, id), w, Unbounded) # <<>>)

PoolsOf(g, Days) ==
  [tcr1 |-> Tcr1Pool(g), tcr2 |-> Tcr2Pool(g), tcr3 |-> Tcr3Pool(g), tcr4 |-> Tcr4Pool(g), tcr5 |-> Tcr5Pool(g),
   tcr8 |-> Tcr8Pool(g, Days), tcr11 |-> Tcr11Pool(g), tcr12 |-> Tcr12Pool(g), sr1 |-> Sr1Pool(g), sr2 |-> Sr2Pool(g),
   w1 |-> W1Pool(g)]

\* A dataset that leaves a pool empty is refused.
Served(pools) == IF \E q \in DOMAIN pools : pools[q] = <<>> THEN [ok |-> FALSE] ELSE [ok |-> TRUE, pools |-> pools]
BuildPools(g, Days) == IF Loads(g) THEN Served(PoolsOf(g, Days)) ELSE [ok |-> FALSE]

-----------------------------------------------------------------------------
(* The associations of the social workload: [src, dst, ltype, time, payload]. *)

LinksList(links, src, ltype, limit) ==
  LET mine == {i \in DOMAIN links : links[i].src = src /\ links[i].ltype = ltype}
      sorted == SetToSortSeq(mine, LAMBDA i, j :
                  \/ links[i].time > links[j].time
                  \/ links[i].time = links[j].time /\ links[i].payload < links[j].payload)
  IN [i \in 1..Min({limit, Len(sorted)}) |-> links[sorted[i]]]

OutLinks(links, id) == {i \in DOMAIN links : links[i].src = id}
HotSources(links, ids, k) ==
  LET degree(id) == Cardinality(OutLinks(links, id))
      ranked == SetToSortSeq(ids, LAMBDA a, b : degree(a) > degree(b) \/ (degree(a) = degree(b) /\ a < b))
  IN SelectSeq(SubSeq(ranked, 1, Min({k, Len(ranked)})), LAMBDA id : degree(id) > 0)

\* The commonest type of the source, the least of equals.
HotLtype(links, src) ==
  LET count(t) == Cardinality({i \in OutLinks(links, src) : links[i].ltype = t})
      types == {links[i].ltype : i \in OutLinks(links, src)}
  IN CHOOSE t \in types : \A u \in types : count(t) > count(u) \/ (count(t) = count(u) /\ t <= u)

WithoutScratch(ids, scratch) == SelectSeq(ids, LAMBDA id : id # scratch)

\* A type that no association is generated with.
MissType == 96

\* The newest association of each hot source, and one question that misses: the hottest
\* source, a type it does not have, the first object of the file.
LinkPool(links, file, list) ==
  Append([i \in DOMAIN list |-> <<list[i][1], list[i][2], LinksList(links, list[i][1], list[i][2], 1)[1].dst>>],
         <<list[1][1], MissType, file[1]>>)

\* The objects are in file order. One hot source more is taken than the pools hold, for the
\* one dropped; a dataset that leaves no source is refused.
LinkPools(links, file, scratch) ==
  LET spared == WithoutScratch(HotSources(links, ToSet(file), PoolMax + 1), scratch)
      hot == SubSeq(spared, 1, Min({PoolMax, Len(spared)}))
      list == [i \in DOMAIN hot |-> <<hot[i], HotLtype(links, hot[i])>>]
  IN IF hot = <<>> THEN [ok |-> FALSE]
     ELSE [ok |-> TRUE, node |-> hot, list |-> list, link |-> LinkPool(links, file, list)]

-----------------------------------------------------------------------------
(* What the texts ask: trails, which use no relationship twice.              *)

Trails(g, w, u, k) ==
  {t \in [1..k -> {e \in DOMAIN g.transfers : InWindow(g.transfers[e], w)}] :
     /\ \A i, j \in 1..k : i # j => t[i] # t[j]
     /\ g.transfers[t[1]].src = u
     /\ \A i \in 1..(k - 1) : g.transfers[t[i]].dst = g.transfers[t[i + 1]].src}

EndsOfTrails(g, w, u, ks) == UNION {{g.transfers[t[k]].dst : t \in Trails(g, w, u, k)} : k \in ks}

\* Relationships in the window out of a node and into it.
Sent(g, w, a) == {e \in DOMAIN g.transfers : InWindow(g.transfers[e], w) /\ g.transfers[e].src = a}
Got(g, w, a) == {e \in DOMAIN g.transfers : InWindow(g.transfers[e], w) /\ g.transfers[e].dst = a}

TextTcr1(g, w, a) == EndsOfTrails(g, w, a, 1..2)

TextTcr2(g, w, threshold) ==
  LET sources(a) == Cardinality({g.transfers[e].src : e \in Got(g, w, a)})
  IN {<<a, sources(a)>> : a \in {a \in Ids(g) : sources(a) > threshold}}

TextTcr3(g, w, a, b) ==
  LET lengths == {k \in 1..4 : b \in EndsOfTrails(g, w, a, {k})}
  IN IF lengths = {} THEN Null ELSE Min(lengths)

TextTcr4(g, w, a) ==
  LET closed(t) == {e \in Got(g, w, a) : \A i \in DOMAIN t : t[i] # e /\ g.transfers[e].src = g.transfers[t[Len(t)]].dst}
      rounds(k) == {t \in Trails(g, w, a, k) : closed(t) # {}}
  IN Cardinality(UNION {{g.transfers[t[k]].dst : t \in rounds(k)} : k \in 1..3} \ {a})

\* The text of fb-tcr4 for engines of the later dialect, row by row: a list that is
\* unwound and has nothing in it takes its row with it.
LoopsByFrontier(g, id, w) ==
  LET hop(F) == {g.transfers[e].dst : e \in UNION {Sent(g, w, u) : u \in F}}
      hop1 == hop({id})  hop2 == hop(hop1)
      reached == IF hop1 = {} \/ hop2 = {} THEN {} ELSE hop1 \cup hop2 \cup hop(hop2)
  IN Cardinality({m \in reached \ {id} : EdgeWinTo(g, m, id, w)})

TextTcr5(g, w, a) ==
  LET amounts(S) == MapThenSumSet(LAMBDA e : g.transfers[e].amount, S)
  IN [inCount |-> Cardinality(Got(g, w, a)), inSum |-> amounts(Got(g, w, a)),
      outCount |-> Cardinality(Sent(g, w, a)), outSum |-> amounts(Sent(g, w, a))]

TextTcr8(g, w, loan) ==
  UNION {EndsOfTrails(g, w, g.deposits[d].dst, 1..2) :
           d \in {d \in DOMAIN g.deposits : g.deposits[d].src = loan /\ InWindow(g.deposits[d], w)}}

TextTcr11(g, w, a, decay) ==
  {g.transfers[t[3]].dst : t \in
     {t \in Trails(g, w, a, 3) : \A i \in 1..2 : g.transfers[t[i + 1]].amount <= g.transfers[t[i]].amount * decay}}

TextTcr12(g, w, threshold) ==
  Cardinality({i \in DOMAIN g.accounts :
    /\ w[1] <= g.accounts[i].createTime /\ g.accounts[i].createTime < w[2]
    /\ Cardinality(Sent(g, w, g.accounts[i].id)) > threshold})

\* Rows that the ORDER BY allows, its last key apart: it orders ids as numbers where
\* recentOut orders their texts.
TextSr2(g, w, a, rows, limit) ==
  LET t == g.transfers
      row(e) == <<t[e].dst, t[e].amount, t[e].ts>>
      sooner(x, y) == x[3] > y[3] \/ (x[3] = y[3] /\ x[2] > y[2])
      times(r, S) == Cardinality({e \in S : row(e) = r})
  IN /\ Len(rows) = Min({limit, Cardinality(Sent(g, w, a))})
     /\ \A i, j \in DOMAIN rows : i < j => ~sooner(rows[j], rows[i])
     /\ \A r \in ToSet(rows) : Cardinality({i \in DOMAIN rows : rows[i] = r}) <= times(r, Sent(g, w, a))
     /\ \A e \in Sent(g, w, a) : row(e) \in ToSet(rows) \/ \A i \in DOMAIN rows : ~sooner(row(e), rows[i])

NoHub(g, w) == \A u \in Ids(g) : Len(WinEdges(g, Out(g, u), w, Unbounded)) <= HubCap
NoLoop(g) == \A e \in DOMAIN g.transfers : g.transfers[e].src # g.transfers[e].dst

\* Where no hub is cut short, a reference answers what the texts ask, either dialect.
AnswersTheTexts(g, w) ==
  /\ \A n \in 0..2 : FanIn(g, w, n) = TextTcr2(g, w, n) /\ NewAccountBurst(g, w, n) = TextTcr12(g, w, n)
  /\ \A a \in Ids(g) :
       /\ FanStats(g, a, w) = TextTcr5(g, w, a)
       /\ \A n \in 0..3 : TextSr2(g, w, a, RecentOut(g, a, w, n), n)
  /\ NoHub(g, w) =>
       \A a \in Ids(g) :
         /\ KhopOut(g, a, w, 2) = TextTcr1(g, w, a)
         /\ \A b \in Ids(g) : ShortestWin(g, a, b, w, 4) = TextTcr3(g, w, a, b)
         /\ Loops(g, a, w) = TextTcr4(g, w, a) /\ LoopsByFrontier(g, a, w) = TextTcr4(g, w, a)
         /\ NoLoop(g) => \A decay \in {1, 2} :
              DecayReach(g, a, w, decay) = Cardinality(TextTcr11(g, w, a, decay))

\* A loan's money is followed through its deposit and two transfers at the most.
FollowsTheLoan(g, w) ==
  \A l \in ToSet(LoanIDs(g)) :
    NoHub(g, w) => LoanChain(g, l, w) = Cardinality(TextTcr8(g, w, l))

\* A pool asks nothing that has no answer, and no question twice: each entry was found to
\* have one. The exceptions are the pools of fb-tcr4 and fb-tcr11 when no candidate has an
\* answer in any window, and then the question is asked of the whole range ("a zero answer
\* is still a valid, verifiable question", pools.go). A pair of fb-tcr3 is reachable.
AllAnswer(g, p) ==
  LET answered(pool, answers(_, _)) ==
        /\ Len(pool) <= PoolMax
        /\ \A i \in DOMAIN pool : answers(pool[i][1], pool[i][2]) /\ \A j \in 1..(i - 1) : pool[j] # pool[i]
      unlessNone(pool, candidates, asked, answers(_, _)) ==
        IF \E a \in ToSet(candidates), w \in ToSet(Windows(g)) : answers(a, w)
        THEN answered(pool, answers) ELSE pool = Whole(asked, <<MinTs(g), MaxTs(g) + 1>>)
      \* As far from a as any within three hops.
      farthest(a, dst, w) ==
        LET far(b) == ShortestWin(g, a, b, w, 3)
        IN dst # a /\ far(dst) # Null /\ \A b \in Ids(g) \ {a} : far(b) # Null => far(dst) \in far(b)..3
  IN /\ answered(p.tcr1, LAMBDA a, w : EndsOfTrails(g, w, a, 1..2) # {})
     /\ answered(p.tcr3, LAMBDA a, w : farthest(a, Farthest(g, a, w, 3), w))
     /\ unlessNone(p.tcr4, TopIn(g, 16), TopIn(g, 4), LAMBDA a, w : Loops(g, a, w) > 0)
     /\ unlessNone(p.tcr11, TopOut(g, 12), TopOut(g, 1), LAMBDA a, w : FirstDecay(g, a, w) # <<>>)
     /\ answered(p.sr2, LAMBDA a, w : RecentOut(g, a, w, 10) # <<>>)
     /\ answered(p.tcr5, LAMBDA a, w : \E e \in DOMAIN g.transfers :
          InWindow(g.transfers[e], w) /\ a \in {g.transfers[e].src, g.transfers[e].dst})
     /\ answered(p.tcr8, LAMBDA l, w : Deposited(g, l, w) # {} /\ LoanChain(g, l, w) > 0)
     /\ \A c \in ToSet(p.tcr2) : FanIn(g, c[1], c[2]) # {}
     /\ \A c \in ToSet(p.tcr12) : NewAccountBurst(g, c[1], c[2]) > 0
     /\ Min({1, Cardinality(Ids(g)) \div 2}) <= Len(p.w1)
     /\ Cardinality(ToSet(p.sr1)) = Len(p.sr1)
     /\ <<>> \notin {p.tcr1, p.tcr2, p.tcr4, p.tcr5, p.tcr11, p.sr2}

\* The first four windows between them see every transfer once, the last sees all.
PoolsAnswer(g, Days) ==
  Loads(g) =>
    /\ \A e \in DOMAIN g.transfers :
         /\ Cardinality({i \in 1..4 : InWindow(g.transfers[e], Windows(g)[i])}) = 1
         /\ InWindow(g.transfers[e], Windows(g)[5])
    /\ AllAnswer(g, PoolsOf(g, Days))

\* The social workload is refused exactly when no object but the one an update writes to
\* has an association. No pool holds that object, the hottest sources come first, and of
\* the associations looked up each is the newest of its source and type, but for the last,
\* which no association answers.
LinkPoolsAnswer(links, file, scratch) ==
  LET p == LinkPools(links, file, scratch)
      degree(id) == Cardinality(OutLinks(links, id))
      hits(c) == {l \in ToSet(links) : l.src = c[1] /\ l.ltype = c[2] /\ l.dst = c[3]}
  IN /\ p.ok <=> \E id \in ToSet(file) \ {scratch} : degree(id) > 0
     /\ p.ok =>
          /\ scratch \notin ToSet(p.node)
          /\ Len(p.link) = Len(p.node) + 1
          /\ hits(Last(p.link)) = {}
          /\ \A i \in DOMAIN p.node :
               LET list == LinksList(links, p.list[i][1], p.list[i][2], 10000)
               IN /\ list # <<>> /\ p.link[i] = <<p.node[i], p.list[i][2], list[1].dst>>
                  /\ hits(p.link[i]) # {}
                  /\ \A j \in DOMAIN links : links[j].src = p.node[i] /\ links[j].ltype = p.list[i][2] =>
                       links[j].time <= list[1].time
                  /\ \A id \in ToSet(file) \ {scratch} :
                       degree(id) > degree(p.node[i]) => id \in ToSet(SubSeq(p.node, 1, i - 1))
=============================================================================
