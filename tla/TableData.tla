------------------------------- MODULE TableData -------------------------------
(***************************************************************************)
(* The benchmark-shaped data sets of several tables (dataset/gen/social.go,*)
(* fin.go, lb.go), and what the workloads and their references rely on.    *)
(***************************************************************************)
EXTENDS Generators

Link(from, to) == [from |-> from, to |-> to]
Names == 16
Payloads == 36

-----------------------------------------------------------------------------
(* Social: persons, posts and forums.                                        *)

\* A drawn degree rescaled to the mean asked for, rounded, and at least one.
Rescaled(deg, cdf, avg, persons) ==
  LET total == cdf[Len(cdf)]
      share(d) == cdf[d] - (IF d = 1 THEN 0 ELSE cdf[d - 1])
      mean == MapThenSumSet(LAMBDA d : d * share(d), DOMAIN cdf)  \* over total
      scaled == (2 * deg * avg * total + mean) \div (2 * mean)
  IN IF scaled < 1 THEN 1 ELSE IF scaled > persons - 1 THEN persons - 1 ELSE scaled

\* LIKES draws up to five distinct persons: with fewer than that it may never end.
EverEnds(persons) == persons >= 5

Social(cfg, weight, seed) ==
  LET persons == OrDefault(cfg.persons, 1000)
      avg == OrDefault(cfg.friends, 20)
      each == OrDefault(cfg.posts, 10)
      forums == Max({1, persons \div 20})
      posts == persons * each
      base == Blocks(<<persons, posts, forums>>)
      maxF == Min({10 * avg, persons - 1})
      cdf == PowerLawCDF(1, maxF, weight)
      creator(i) == i \div each
      made == InOrder(<<"Person", "Post", "KNOWS", "LIKES", "HAS_MEMBER", "CONTAINER_OF">>, NewPRNG(seed), LAMBDA t, before, from :
        CASE t = "Person" -> Rows(persons, from, LAMBDA i, st :
               LET d == DrawAll(st, <<Names, Names, Clock, Clock>>)
               IN [rows |-> <<[id |-> base[1] + i, birthday |-> d.v[3], date |-> d.v[4]]>>, st |-> d.st])
          [] t = "Post" -> Rows(posts, from, LAMBDA i, st :
               LET d == DrawAll(st, <<Payloads, Clock>>)
               IN [rows |-> <<[id |-> base[2] + i, date |-> d.v[2], creatorId |-> creator(i)]>>, st |-> d.st])
          [] t = "KNOWS" -> Rows(persons, from, LAMBDA u, st :
               LET r == Float64(st)
                   deg == Rescaled(DrawDegree(cdf, 1, r.v), cdf, avg, persons)
               IN Each(Chosen(r.st, persons, deg, u), persons, LAMBDA v, s :
                    [v |-> Link(base[1] + u, base[1] + v), st |-> Int63n(s, Clock).st]))
          [] t = "LIKES" -> Rows(posts, from, LAMBDA i, st :
               LET k == Int63n(st, 6)
               IN Each(Chosen(k.st, persons, k.v, Nobody), persons, LAMBDA v, s :
                    [v |-> Link(base[1] + v, base[2] + i), st |-> Int63n(s, Clock).st]))
          [] t = "HAS_MEMBER" -> Rows(persons, from, LAMBDA i, st :
               LET k == Int63n(st, 3)
               IN Each(Chosen(k.st, forums, Min({1 + k.v, forums}), Nobody), forums, LAMBDA f, s :
                    [v |-> Link(base[3] + f, base[1] + i), st |-> s]))
          [] t = "CONTAINER_OF" -> Rows(posts, from, LAMBDA i, st :
               LET f == Int63n(st, forums)
               IN [rows |-> <<Link(base[3] + f.v, base[2] + i)>>, st |-> f.st]))
  IN IF persons < 2 \/ avg < 1 \/ each < 1 THEN RefusedConfig
     ELSE Finalize(
       [Person |-> made["Person"], Post |-> made["Post"],
        Forum |-> [i \in 1..forums |-> [id |-> base[3] + i - 1]]],
       [KNOWS |-> RelFile("Person", "Person", made["KNOWS"]),
        HAS_CREATOR |-> RelFile("Post", "Person",
          [i \in 1..posts |-> Link(base[2] + i - 1, base[1] + creator(i - 1))]),
        LIKES |-> RelFile("Person", "Post", made["LIKES"]),
        HAS_MEMBER |-> RelFile("Forum", "Person", made["HAS_MEMBER"]),
        CONTAINER_OF |-> RelFile("Forum", "Post", made["CONTAINER_OF"])])

-----------------------------------------------------------------------------
(* Fin: accounts, persons and loans.                                         *)

Money(st, lo, hi) ==
  LET scaled(r) == [v |-> lo + (r.v * (hi - lo)) \div Unit, st |-> r.st] IN scaled(Float64(st))

\* Nobody pays himself: the next account is paid.
NotSelf(dst, src, accounts) == IF dst = src THEN (dst + 1) % accounts ELSE dst

\* One movement of money on a day, its amount below hi; to(st) draws where it goes.
Paid(drawn, dst, amount, day, accounts) ==
  [rows |-> <<[from |-> drawn.v[2], to |-> NotSelf(dst.v, drawn.v[2], accounts),
               amount |-> amount.v, ts |-> day * Day + drawn.v[1]]>>,
   st |-> amount.st]
Movement(day, accounts, hi, st, to(_)) ==
  LET priced(drawn, dst) == Paid(drawn, dst, Money(dst.st, 1, hi), day, accounts)
      aimed(drawn) == priced(drawn, to(drawn.st))
  IN aimed(DrawAll(st, <<Day, accounts>>))

Fin(cfg, weight, seed) ==
  LET accounts == OrDefault(cfg.accounts, 10000)
      days == OrDefault(cfg.days, 30)
      perDay == OrDefault(cfg.txPerDay, 10000)
      hundredths == OrDefault(cfg.hubs, 1)
      persons == Max({1, accounts \div 2})
      loans == Max({1, accounts \div 10})
      base == Blocks(<<accounts, persons, loans>>)
      hubs == Max({1, (hundredths * accounts) \div 100})
      hubCDF == PowerLawCDF(1, hubs, weight)
      drawn == Max({1, perDay \div 10})
      window == days * Day
      ToHub(r) == [v |-> DrawDegree(hubCDF, 1, r.v) - 1, st |-> r.st]
      Aimed(half) == IF 2 * half.v < Unit THEN ToHub(Float64(half.st)) ELSE Int63n(half.st, accounts)
      owned(i, to, st) ==
        LET p == Int63n(st, persons) IN [rows |-> <<Link(base[2] + p.v, to + i)>>, st |-> p.st]
      Part(i, amount, part, d) ==
        [rows |-> <<[from |-> base[1] + d.v[1], to |-> base[3] + i,
                     amount |-> (amount * (Unit + 4 * part)) \div (10 * Unit), ts |-> d.v[2]]>>, st |-> d.st]
      Repaid(i, amount, part) == Part(i, amount, part.v, DrawAll(part.st, <<accounts, window>>))
      made == InOrder(<<"Account", "Person", "Loan", "TRANSFER", "WITHDRAW", "OWN", "APPLY", "DEPOSIT", "REPAY">>,
                      NewPRNG(seed), LAMBDA t, before, from :
        CASE t = "Account" -> Rows(accounts, from, LAMBDA i, st :
               LET d == Int63n(st, window)  b == Float64(d.st)
               IN [rows |-> <<[id |-> base[1] + i, createTime |-> d.v, isBlocked |-> b.v * 100 < Unit]>>, st |-> b.st])
          [] t = "Person" -> Rows(persons, from, LAMBDA i, st :
               [rows |-> <<[id |-> base[2] + i]>>, st |-> DrawAll(st, <<Names, Names>>).st])
          [] t = "Loan" -> Rows(loans, from, LAMBDA i, st :
               LET a == Money(st, 1000, 100000) IN [rows |-> <<[id |-> base[3] + i, amount |-> a.v]>>, st |-> a.st])
          [] t = "TRANSFER" -> Rows(days * perDay, from, LAMBDA i, st :
               Movement(i \div perDay, accounts, 10000, st, LAMBDA s : Aimed(Float64(s))))
          [] t = "WITHDRAW" -> Rows(days * drawn, from, LAMBDA i, st :
               Movement(i \div drawn, accounts, 5000, st, LAMBDA s : Int63n(s, accounts)))
          [] t = "OWN" -> Rows(accounts, from, LAMBDA i, st : owned(i, base[1], st))
          [] t = "APPLY" -> Rows(loans, from, LAMBDA i, st : owned(i, base[3], st))
          [] t = "DEPOSIT" -> Rows(loans, from, LAMBDA i, st :
               LET d == DrawAll(st, <<accounts, window>>)
               IN [rows |-> <<[from |-> base[3] + i, to |-> base[1] + d.v[1], amount |-> before["Loan"][i + 1].amount, ts |-> d.v[2]]>>,
                   st |-> d.st])
          [] t = "REPAY" -> Rows(loans, from, LAMBDA i, st :
               LET k == Int63n(st, 4)
               IN Rows(1 + k.v, k.st, LAMBDA j, s : Repaid(i, before["Loan"][i + 1].amount, Float64(s)))))
  IN IF accounts < 2 \/ days < 1 \/ perDay < 1 \/ hundredths \notin 0..100 THEN RefusedConfig
     ELSE Finalize(
       [Account |-> made["Account"], Person |-> made["Person"], Loan |-> made["Loan"]],
       [TRANSFER |-> RelFile("Account", "Account", made["TRANSFER"]),
        WITHDRAW |-> RelFile("Account", "Account", made["WITHDRAW"]),
        OWN |-> RelFile("Person", "Account", made["OWN"]),
        APPLY |-> RelFile("Person", "Loan", made["APPLY"]),
        DEPOSIT |-> RelFile("Loan", "Account", made["DEPOSIT"]),
        REPAY |-> RelFile("Account", "Loan", made["REPAY"])])

-----------------------------------------------------------------------------
(* LB: objects and links.                                                    *)

LB(n, most, weight, seed) ==
  LET count == OrDefault(n, 10000)
      maxLinks == Min({most, count - 1})
      cdf == PowerLawCDF(1, maxLinks, weight)
      obj == Rows(count, NewPRNG(seed), LAMBDA i, st :
        LET d == DrawAll(st, <<10, 10, Clock, Payloads>>)
        IN [rows |-> <<[id |-> i, otype |-> 1 + d.v[1], version |-> d.v[2], time |-> d.v[3]]>>, st |-> d.st])
      link == Rows(count, obj.st, LAMBDA u, st :
        LET r == Float64(st)
        IN Each(Chosen(r.st, count, DrawDegree(cdf, 1, r.v), u), count, LAMBDA v, s :
             LET d == DrawAll(s, <<10, Clock, Payloads>>)
             IN [v |-> [from |-> u, to |-> v, ltype |-> 1 + d.v[1], time |-> d.v[2]], st |-> d.st]))
  IN IF count < 2 THEN RefusedConfig
     ELSE Finalize([Obj |-> obj.rows], [LINK |-> RelFile("Obj", "Obj", link.rows)])

-----------------------------------------------------------------------------
(* What the tables promise.                                                  *)

IdsOf(d, label) == {d.nodes[label][i].id : i \in DOMAIN d.nodes[label]}
RowsOf(d, type) == ToSet(d.rels[type].rows)

\* Every id below the count is one node of one label, and every edge ends at nodes of the
\* labels its file names.
OneIDSpace(d) ==
  /\ UNION {IdsOf(d, l) : l \in DOMAIN d.nodes} = 0..(d.nodeCount - 1)
  /\ \A t \in DOMAIN d.rels : \A r \in RowsOf(d, t) :
       r.from \in IdsOf(d, d.rels[t].start) /\ r.to \in IdsOf(d, d.rels[t].end)

\* Each of a label is at this end of so many rows of a type.
Each1(d, label, type, at(_), many) ==
  \A id \in IdsOf(d, label) : Cardinality({i \in DOMAIN d.rels[type].rows : at(d.rels[type].rows[i]) = id}) \in many
NoTwice(d, type) == IsInjective(d.rels[type].rows)
Start(r) == r.from
End(r) == r.to

\* What the count oracle of the joins takes for granted, and what the queries read off the
\* properties instead of the edges.
SocialIsSocial(d) ==
  /\ OneIDSpace(d)
  /\ \A t \in {"KNOWS", "LIKES", "HAS_MEMBER"} : NoTwice(d, t)
  /\ \A r \in RowsOf(d, "KNOWS") : r.from # r.to
  /\ Each1(d, "Person", "KNOWS", Start, 1..(Len(d.nodes.Person) - 1))
  /\ Each1(d, "Post", "HAS_CREATOR", Start, {1})
  /\ Each1(d, "Post", "CONTAINER_OF", End, {1})
  /\ Each1(d, "Post", "LIKES", End, 0..5)
  /\ Each1(d, "Person", "HAS_MEMBER", End, 1..3)
  /\ \A i \in DOMAIN d.nodes.Post :
       Link(d.nodes.Post[i].id, d.nodes.Post[i].creatorId) \in RowsOf(d, "HAS_CREATOR")

\* Money moves between two accounts, so often on each day and on that day; a loan is
\* applied for once, paid out in full once and repaid in parts.
FinIsFin(d, days, perDay) ==
  /\ OneIDSpace(d)
  /\ \A r \in RowsOf(d, "TRANSFER") \cup RowsOf(d, "WITHDRAW") : r.from # r.to
  /\ \A day \in 0..(days - 1) :
       LET on(t) == Cardinality({i \in DOMAIN d.rels[t].rows : d.rels[t].rows[i].ts \div Day = day})
       IN on("TRANSFER") = perDay /\ on("WITHDRAW") = Max({1, perDay \div 10})
  /\ Each1(d, "Account", "OWN", End, {1})
  /\ Each1(d, "Loan", "APPLY", End, {1})
  /\ Each1(d, "Loan", "DEPOSIT", Start, {1})
  /\ Each1(d, "Loan", "REPAY", End, 1..4)
  /\ \A l \in ToSet(d.nodes.Loan) :
       /\ \A r \in RowsOf(d, "DEPOSIT") : r.from = l.id => r.amount = l.amount
       /\ \A r \in RowsOf(d, "REPAY") : r.to = l.id => 10 * r.amount >= l.amount - 10 /\ 2 * r.amount <= l.amount

LinksAreDistinct(d) ==
  /\ OneIDSpace(d)
  /\ Each1(d, "Obj", "LINK", Start, 1..(d.nodeCount - 1))
  /\ \A r \in RowsOf(d, "LINK") : r.from # r.to /\ r.ltype \in 1..10
  /\ Cardinality({Link(r.from, r.to) : r \in RowsOf(d, "LINK")}) = d.edgeCount
=============================================================================
