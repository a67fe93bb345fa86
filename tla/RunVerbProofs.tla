----------------------------- MODULE RunVerbProofs -----------------------------
(***************************************************************************)
(* Proofs about RunVerb, for every workload, every number of engines and   *)
(* every command.                                                          *)
(***************************************************************************)
EXTENDS RunVerb, FiniteSetTheorems, TLAPS

USE DEF Engine, Query

\* What the family's pool gives a schedule built after the samples were compared.
OwnSamples(q) ==
  IF q \in Writes THEN 1
  ELSE IF FamilySize[q] < Wanted[q] THEN FamilySize[q] ELSE Wanted[q]
Place(q, k) == (OwnSamples(q) + ((k - 1) % Pass(q))) % FamilySize[q]

Timing == [pool: Nat \ {0}, ran: Seq(Int), warm: Nat]

ShapeInv ==
  /\ query \in Nat /\ made \in Nat /\ eng \in Nat
  /\ approved \subseteq Query
  /\ cursor \in [Query -> Nat]
  /\ size \in [Query -> Nat \ {0}]
  /\ timed \in [Engine -> [Query -> Timing]]

\* The binder has worked for engines reached, and an engine not yet bound has no timing.
ReachedInv ==
  /\ rebound \subseteq Engine
  /\ \A e \in rebound : e <= eng /\ (step = "load" => e # eng)
  /\ \A e \in Engine, q \in Query :
       e > eng \/ (e = eng /\ step = "load") => timed[e][q] = NotTimed

\* While verification of an engine the binder worked for runs, the cursor of a query it
\* has not reached is where the binder put it, of the query it is at as far as it has
\* compared, and of an approved query just past the draws compared.
CursorInv ==
  step = "verify" =>
    /\ \A q \in approved : q < query /\ cursor[q] = OwnSamples(q)
    /\ \A q \in Query : q > query => cursor[q] = 0
    /\ \A q \in Query : q = query => cursor[q] = made

MeasureInv == step = "measure" => \A q \in approved : cursor[q] = OwnSamples(q)

BoundInv == eng \in rebound => size = FamilySize /\ CursorInv /\ MeasureInv

TimedInv ==
  \A e \in rebound \cap Engine, q \in Query :
    \A k \in DOMAIN timed[e][q].ran : timed[e][q].ran[k] = Place(q, k)

DrawInv == ReachedInv /\ BoundInv /\ TimedInv

LEMMA PassType == \A q \in Query : Pass(q) \in Nat \ {0}
  BY RunVerbAssumption DEF Pass

LEMMA EntryType ==
  ASSUME cursor \in [Query -> Nat], size \in [Query -> Nat \ {0}], NEW q \in Query, NEW k \in Nat
  PROVE  Entry(q, k) \in Int
<1>1. size[q] \in Nat \ {0} /\ cursor[q] + k \in Nat
  OBVIOUS
<1> QED BY <1>1, SMT DEF Entry

LEMMA ModType == ASSUME NEW a \in Nat, NEW d \in Nat \ {0} PROVE a % d \in Nat
  BY SMT

\* A step of Measure is a Draw of some numbers.
LEMMA MeasureDraws ==
  ASSUME Measure
  PROVE  \E n \in [Query -> Nat], warm \in [Query -> Nat], extra \in Nat : Draw(n, warm, extra)
<1>0. NoneOf \in [Query -> Nat] /\ Dispatched \subseteq [Query -> Nat] /\ Reps \in Nat
  BY RunVerbAssumption DEF NoneOf
<1>1. CASE MeasurePlain
  BY <1>0, <1>1 DEF MeasurePlain
<1>2. CASE MeasureMixed
  BY <1>0, <1>2 DEF MeasureMixed
<1>3. CASE MeasureAnalytics
  <2>1. PICK d \in {0, 1} : Draw([q \in Query |-> Reps], [q \in Query |-> d], 0)
    BY <1>3 DEF MeasureAnalytics
  <2>2. [q \in Query |-> Reps] \in [Query -> Nat] /\ [q \in Query |-> d] \in [Query -> Nat]
    BY <1>0
  <2> QED BY <2>1, <2>2
<1> QED BY <1>1, <1>2, <1>3 DEF Measure

\* The variables the argument is about keep their shape.
LEMMA ShapeKept == Spec => []ShapeInv
<1>1. Init => ShapeInv
  <2> SUFFICES ASSUME Init PROVE ShapeInv
    OBVIOUS
  <2>1. NotTimed \in Timing
    BY DEF NotTimed, Timing
  <2>2. timed \in [Engine -> [Query -> Timing]]
    BY <2>1 DEF Init
  <2> QED BY <2>2, RunVerbAssumption DEF Init, ShapeInv
<1>2. ShapeInv /\ [Next]_vars => ShapeInv'
  <2> SUFFICES ASSUME ShapeInv, [Next]_vars PROVE ShapeInv'
    OBVIOUS
  <2> USE DEF ShapeInv, source
  <2>1. CASE RunFails BY <2>1 DEF RunFails
  <2>2. CASE Bind
    <3>1. cursor' \in [Query -> Nat] /\ size' \in [Query -> Nat \ {0}]
      <4>1. CASE UNCHANGED <<cursor, size>>
        BY <4>1
      <4>2. ASSUME NEW fresh, Renew(fresh) PROVE <3>1!1 /\ <3>1!2
        BY <4>2, RunVerbAssumption DEF Renew
      <4> QED BY <2>2, <4>1, <4>2 DEF Bind, Rebind
    <3> QED BY <2>2, <3>1 DEF Bind, loop
  <2>3. CASE Skip BY <2>3 DEF Skip, NextQuery, loop
  <2>4. CASE Agrees
    <3>1. query \in Query /\ timed' = timed /\ size' = size /\ eng' = eng BY <2>4 DEF Agrees
    <3>2. cursor' \in [Query -> Nat] BY <2>4, <3>1 DEF Agrees, Next1
    <3>3. query' \in Nat /\ made' \in Nat BY <2>4, <3>1 DEF Agrees, NextQuery
    <3>4. approved' \subseteq Query BY <2>4, <3>1 DEF Agrees
    <3> QED BY <3>1, <3>2, <3>3, <3>4
  <2>5. CASE Differs BY <2>5 DEF Differs, NextQuery, Next1, loop
  <2>6. CASE Judge BY <2>6 DEF Judge, loop
  <2>7. CASE Measure
    <3>1. PICK n \in [Query -> Nat], warm \in [Query -> Nat], extra \in Nat : Draw(n, warm, extra)
      BY <2>7, MeasureDraws
    <3>2. cursor' \in [Query -> Nat] BY <3>1, PassType DEF Draw
    <3>3. timed' \in [Engine -> [Query -> Timing]]
      <4> DEFINE ran(q) == [k \in 1..n[q] |-> Entry(q, (k - 1) % Pass(q))]
                 drew == [q \in Query |-> IF q \in approved
                            THEN [pool |-> size[q], warm |-> warm[q], ran |-> ran(q)]
                            ELSE NotTimed]
      <4>1. ASSUME NEW q \in Query PROVE ran(q) \in Seq(Int)
        <5>1. ASSUME NEW k \in 1..n[q] PROVE Entry(q, (k - 1) % Pass(q)) \in Int
          BY EntryType, ModType, PassType
        <5>2. n[q] \in Nat
          OBVIOUS
        <5> QED BY <5>1, <5>2
      <4>2. NotTimed \in Timing
        BY DEF NotTimed, Timing
      <4>3. ASSUME NEW q \in Query PROVE drew[q] \in Timing
        <5>1. size[q] \in Nat \ {0} /\ warm[q] \in Nat /\ ran(q) \in Seq(Int)
          BY <4>1
        <5> HIDE DEF ran
        <5>2. [pool |-> size[q], warm |-> warm[q], ran |-> ran(q)] \in Timing
          BY <5>1 DEF Timing
        <5> QED BY <4>2, <5>2
      <4>4. timed' = [timed EXCEPT ![eng] = drew] BY <3>1 DEF Draw
      <4>5. drew \in [Query -> Timing] BY <4>3
      <4> HIDE DEF drew
      <4> QED BY <4>4, <4>5
    <3> QED BY <2>7, <3>2, <3>3 DEF Measure
  <2>8. CASE ColdPass BY <2>8 DEF ColdPass, loop
  <2>9. CASE Document BY <2>9 DEF Document
  <2>10. CASE NoResult BY <2>10 DEF NoResult
  <2>11. CASE Finish BY <2>11 DEF Finish
  <2>12. CASE UNCHANGED vars BY <2>12 DEF vars
  <2> QED
    BY <2>1, <2>2, <2>3, <2>4, <2>5, <2>6, <2>7, <2>8, <2>9, <2>10, <2>11, <2>12 DEF Next
<1> QED BY <1>1, <1>2, PTL DEF Spec

\* An engine the binder works for starts from the first entry of the family's pools.
LEMMA BindDraws ==
  ASSUME ShapeInv, DrawInv, Bind
  PROVE  DrawInv'
<1>0. eng \in Nat /\ ReachedInv /\ BoundInv /\ TimedInv
  BY DEF ShapeInv, DrawInv
<1>1. /\ eng' = eng /\ timed' = timed /\ step = "load" /\ step' = "verify" /\ eng \in Engine
      /\ query' = 1 /\ made' = 0 /\ approved' = {}
  BY DEF Bind
<1>2. rebound' = rebound \/ (rebound' = rebound \cup {eng} /\ Renew(Query))
  BY DEF Bind, Rebind
<1>3. eng \notin rebound
  BY <1>0, <1>1 DEF ReachedInv
<1>4. ReachedInv'
  <2>1. ASSUME NEW e \in rebound' PROVE e \in Engine /\ e <= eng
    <3>1. e \in rebound \/ e = eng
      BY <1>2
    <3>2. CASE e \in rebound
      BY <1>0, <3>2 DEF ReachedInv
    <3>3. CASE e = eng
      BY <1>0, <1>1, <3>3
    <3> QED BY <3>1, <3>2, <3>3
  <2>2. \A e \in Engine, q \in Query : e > eng => timed[e][q] = NotTimed
    BY <1>0 DEF ReachedInv
  <2>3. rebound' \subseteq Engine
    BY <2>1
  <2> QED BY <1>1, <2>1, <2>2, <2>3 DEF ReachedInv
<1>5. BoundInv'
  <2>1. CASE rebound' = rebound
    BY <1>0, <1>1, <1>3, <2>1 DEF BoundInv
  <2>2. CASE Renew(Query)
    <3>1. size' = FamilySize /\ \A q \in Query : cursor'[q] = 0
      BY <2>2, RunVerbAssumption DEF Renew
    <3> QED BY <1>1, <3>1 DEF BoundInv, CursorInv, MeasureInv
  <2> QED BY <1>2, <2>1, <2>2
<1>6. asked' = asked
  BY DEF Bind
<1>7. TimedInv'
  <2>1. \A q \in Query : \A k : Place(q, k)' = Place(q, k)
    BY <1>6 DEF Place, OwnSamples, Pass
  <2>2. ASSUME NEW e \in rebound' \cap Engine, NEW q \in Query, NEW k \in DOMAIN timed[e][q].ran
        PROVE  timed[e][q].ran[k] = Place(q, k)
    <3>1. CASE e \in rebound
      BY <1>0, <3>1 DEF TimedInv
    <3>2. CASE e = eng
      <4>1. timed[e][q] = NotTimed
        BY <1>0, <1>1, <3>2 DEF ReachedInv
      <4>2. DOMAIN timed[e][q].ran = {}
        BY <4>1 DEF NotTimed
      <4> QED BY <4>2
    <3> QED BY <1>2, <3>1, <3>2
  <2> QED BY <1>1, <2>1, <2>2 DEF TimedInv
<1> QED BY <1>4, <1>5, <1>7 DEF DrawInv

\* What an engine the binder worked for is run on is fixed by the family's pool.
LEMMA MeasureKeepsDraws ==
  ASSUME ShapeInv, DrawInv, Measure
  PROVE  DrawInv'
<1>0. eng \in Nat /\ ReachedInv /\ BoundInv /\ TimedInv
  BY DEF ShapeInv, DrawInv
<1>1. /\ asked' = asked /\ eng' = eng /\ size' = size /\ rebound' = rebound
      /\ step = "measure" /\ step' \notin {"load", "verify", "measure"}
  BY DEF Measure, source
<1>2. PICK n \in [Query -> Nat], warm \in [Query -> Nat], extra \in Nat : Draw(n, warm, extra)
  BY MeasureDraws
<1>3. \A e \in Engine : e # eng => timed'[e] = timed[e]
  BY <1>2 DEF Draw
<1>4. ReachedInv'
  <2>1. \A e \in rebound : e \in Engine /\ e <= eng
    BY <1>0 DEF ReachedInv
  <2>2. ASSUME NEW e \in Engine, NEW q \in Query, e > eng PROVE timed'[e][q] = NotTimed
    <3>1. e # eng
      BY <1>0, <2>2
    <3> QED BY <1>0, <1>3, <2>2, <3>1 DEF ReachedInv
  <2>3. rebound \subseteq Engine
    BY <2>1
  <2> QED BY <1>1, <2>1, <2>2, <2>3 DEF ReachedInv
<1>5. BoundInv'
  BY <1>0, <1>1 DEF BoundInv, CursorInv, MeasureInv
<1>6. ASSUME NEW e \in rebound \cap Engine, NEW q \in Query, NEW k \in DOMAIN timed'[e][q].ran
      PROVE  timed'[e][q].ran[k] = Place(q, k)
  <2>1. CASE e # eng
    BY <1>0, <1>3, <2>1 DEF TimedInv
  <2>2. CASE e = eng /\ q \notin approved
    <3>1. timed'[e][q] = NotTimed
      BY <1>2, <2>2 DEF Draw, ShapeInv
    <3>2. DOMAIN timed'[e][q].ran = {}
      BY <3>1 DEF NotTimed
    <3> QED BY <3>2
  <2>3. CASE e = eng /\ q \in approved
    <3>1. timed'[e][q].ran = [i \in 1..n[q] |-> Entry(q, (i - 1) % Pass(q))]
      BY <1>2, <2>3 DEF Draw, ShapeInv
    <3>2. size[q] = FamilySize[q] /\ cursor[q] = OwnSamples(q)
      BY <1>0, <1>1, <2>3 DEF BoundInv, MeasureInv
    <3> QED BY <3>1, <3>2 DEF Entry, Place
  <2> QED BY <2>1, <2>2, <2>3
<1>7. \A q \in Query : \A k : Place(q, k)' = Place(q, k)
  BY <1>1 DEF Place, OwnSamples, Pass
<1>8. TimedInv'
  BY <1>1, <1>6, <1>7 DEF TimedInv
<1> QED BY <1>4, <1>5, <1>8 DEF DrawInv

\* Where the cursors of engines the binder worked for stand, and what they have given.
LEMMA DrawsKept == Spec => []DrawInv
<1>1. Init => DrawInv
  <2> SUFFICES ASSUME Init PROVE DrawInv
    OBVIOUS
  <2>1. \A e \in Engine, q \in Query : timed[e][q] = NotTimed
    BY DEF Init
  <2> QED BY <2>1 DEF Init, DrawInv, ReachedInv, BoundInv, TimedInv
<1>2. ShapeInv /\ DrawInv /\ [Next]_vars => DrawInv'
  <2> SUFFICES ASSUME ShapeInv, DrawInv, [Next]_vars PROVE DrawInv'
    OBVIOUS
  <2> USE DEF ShapeInv
  <2>0. asked' = asked
    BY DEF Next, vars, RunFails, Bind, Skip, Agrees, Differs, Judge, Measure, ColdPass,
           Document, NoResult, Finish
  <2>t. timed' = timed /\ rebound' = rebound => TimedInv'
    BY <2>0 DEF DrawInv, TimedInv, Place, OwnSamples, Pass
  <2>n. CASE \/ RunFails \/ Document
    <3>1. /\ timed' = timed /\ rebound' = rebound /\ eng' = eng + 1 /\ step' = "load"
      BY <2>n DEF RunFails, Document, source
    <3>2. ReachedInv' /\ eng' \notin rebound'
      BY <3>1 DEF DrawInv, ReachedInv
    <3> QED BY <2>t, <3>1, <3>2 DEF DrawInv, BoundInv
  <2>2. CASE Bind BY <2>2, BindDraws
  <2>7. CASE Measure BY <2>7, MeasureKeepsDraws
  <2>s. ASSUME UNCHANGED <<timed, size, rebound, eng>>, step # "load", step' # "load",
               CursorInv /\ MeasureInv => (CursorInv /\ MeasureInv)'
        PROVE  DrawInv'
    <3>1. ReachedInv'
      BY <2>s DEF DrawInv, ReachedInv
    <3>2. BoundInv'
      BY <2>s DEF DrawInv, BoundInv
    <3> QED BY <2>t, <2>s, <3>1, <3>2 DEF DrawInv
  <2>o. \A q \in Query : OwnSamples(q)' = OwnSamples(q)
    BY DEF OwnSamples
  <2>3. CASE Skip
    BY <2>3, <2>s, <2>o DEF Skip, NextQuery, CursorInv, MeasureInv, source
  <2>4. CASE Agrees
    <3>1. /\ UNCHANGED <<timed, size, rebound, eng>> /\ step = "verify" /\ step' = "verify"
          /\ query \in Query /\ cursor' = [cursor EXCEPT ![query] = cursor[query] + 1]
      BY <2>4 DEF Agrees, source, Next1
    <3>2. CASE eng \in rebound
      <4>1. Samples(query) = OwnSamples(query) /\ CursorInv
        BY <3>1, <3>2 DEF DrawInv, BoundInv, Samples, OwnSamples
      <4>2. CursorInv'
        <5>1. CASE approved' = approved /\ query' = query /\ made' = made + 1
          BY <3>1, <4>1, <5>1, <2>o DEF CursorInv
        <5>2. CASE /\ approved' = approved \cup {query} /\ query' = query + 1 /\ made' = 0
                   /\ made + 1 = Samples(query)
          BY <3>1, <4>1, <5>2, <2>o DEF CursorInv
        <5> QED BY <2>4, <5>1, <5>2 DEF Agrees, NextQuery
      <4> QED BY <3>1, <4>2, <2>s DEF MeasureInv
    <3>3. CASE eng \notin rebound
      <4>1. ReachedInv'
        BY <3>1 DEF DrawInv, ReachedInv
      <4>2. BoundInv'
        BY <3>1, <3>3 DEF BoundInv
      <4> QED BY <2>t, <3>1, <4>1, <4>2 DEF DrawInv
    <3> QED BY <3>2, <3>3
  <2>5. CASE Differs
    BY <2>5, <2>s, <2>o DEF Differs, NextQuery, Next1, CursorInv, MeasureInv, source
  <2>6. CASE Judge BY <2>6, <2>s, <2>o DEF Judge, CursorInv, MeasureInv, source
  <2>8. CASE ColdPass BY <2>8, <2>s, <2>o DEF ColdPass, CursorInv, MeasureInv, source
  <2>10. CASE NoResult \/ Finish \/ UNCHANGED vars
    <3>1. UNCHANGED <<timed, size, rebound, eng, step, query, made, cursor, approved>>
      BY <2>10 DEF NoResult, Finish, vars, source
    <3>2. ReachedInv' /\ BoundInv'
      BY <3>1, <2>o DEF DrawInv, ReachedInv, BoundInv, CursorInv, MeasureInv
    <3> QED BY <2>t, <3>1, <3>2 DEF DrawInv
  <2> QED
    BY <2>n, <2>2, <2>3, <2>4, <2>5, <2>6, <2>7, <2>8, <2>10 DEF Next
<1> QED BY <1>1, <1>2, ShapeKept, PTL DEF Spec

\* The engines of a command for which the family's binder worked were run on the same
\* bindings in the same order (workload/params.go, ADR-8), as far as budget, shares and
\* cancellation let the schedule of each go: an approved query has had all its samples
\* compared, so its cursor stands at the same place for each of them. An engine whose
\* binder failed goes on where the engines before have left the cursors, and nothing is
\* said of it.
THEOREM BinderGivesSameDraws == Spec => []BinderSameDraws
<1>1. DrawInv /\ ShapeInv => BinderSameDraws
  <2> SUFFICES ASSUME DrawInv, ShapeInv, NEW e \in rebound, NEW f \in rebound,
                      NEW q \in Query, NEW k \in DOMAIN timed[e][q].ran \cap DOMAIN timed[f][q].ran
               PROVE  timed[e][q].ran[k] = timed[f][q].ran[k]
    BY DEF BinderSameDraws, RanAlike
  <2>1. rebound \subseteq Engine
    BY DEF DrawInv, ReachedInv
  <2>2. timed[e][q].ran[k] = Place(q, k) /\ timed[f][q].ran[k] = Place(q, k)
    BY <2>1 DEF DrawInv, TimedInv
  <2> QED BY <2>2
<1>2. Spec => []BinderSameDraws
  BY <1>1, DrawsKept, ShapeKept, PTL
<1> QED BY <1>2
-----------------------------------------------------------------------------
(* What the command answers for its engines.                                 *)

\* The engines gone through are those with a document and those counted as failed, and the
\* answer is given after the last.
CountInv ==
  /\ eng \in 1..NumEngines + 1
  /\ docs \subseteq 1..eng - 1
  /\ failed \in Nat
  /\ failed + Cardinality(docs) = eng - 1
  /\ eng > NumEngines => step = "load"
  /\ exit # "none" => eng > NumEngines

AnswerInv ==
  /\ exit = "ok" => failed = 0
  /\ exit = "enginesFailed" => failed > 0
  /\ exit = "noResult" => docs = {}
  /\ exit \in {"none", "noResult", "enginesFailed", "ok"}

LEMMA SomeEngine == NumEngines \in Nat \ {0}
  BY RunVerbAssumption

LEMMA DocsAreFinite ==
  ASSUME CountInv
  PROVE  IsFiniteSet(docs) /\ Cardinality(docs) \in Nat
<1>1. eng - 1 \in Nat /\ 1 \in Int
  BY SomeEngine DEF CountInv
<1>2. IsFiniteSet(1..eng - 1)
  BY <1>1, FS_Interval
<1>3. IsFiniteSet(docs)
  BY <1>2, FS_Subset DEF CountInv
<1> QED BY <1>3, FS_CardinalityType

\* One more document is one more engine.
LEMMA DocumentCounts ==
  ASSUME CountInv, Document
  PROVE  Cardinality(docs') = Cardinality(docs) + 1
<1>1. eng \notin docs
  BY SomeEngine DEF CountInv
<1>2. docs' = docs \cup {eng}
  BY DEF Document
<1> QED BY <1>1, <1>2, DocsAreFinite, FS_AddElement

LEMMA CountKept == Spec => [](CountInv /\ AnswerInv)
<1>1. Init => CountInv /\ AnswerInv
  BY SomeEngine, FS_EmptySet DEF Init, CountInv, AnswerInv
<1>2. CountInv /\ AnswerInv /\ [Next]_vars => (CountInv /\ AnswerInv)'
  <2> SUFFICES ASSUME CountInv, AnswerInv, [Next]_vars PROVE (CountInv /\ AnswerInv)'
    OBVIOUS
  <2>0. Cardinality(docs) \in Nat
    BY DocsAreFinite
  <2>1. CASE RunFails
    <3>1. eng \in Engine /\ exit = "none" /\ eng' = eng + 1 /\ failed' = failed + 1 /\ step' = "load"
      BY <2>1 DEF RunFails
    <3>2. docs' = docs /\ exit' = exit
      BY <2>1 DEF RunFails
    <3>3. AnswerInv'
      BY <3>1, <3>2 DEF AnswerInv
    <3>4. docs' \subseteq 1..eng' - 1
      BY <3>1, <3>2, SomeEngine DEF CountInv
    <3>5. failed' + Cardinality(docs') = eng' - 1 /\ failed' \in Nat
      BY <2>0, <3>1, <3>2, SomeEngine DEF CountInv
    <3> QED BY <3>1, <3>2, <3>3, <3>4, <3>5, SomeEngine DEF CountInv
  <2>2. CASE Bind \/ Skip \/ Agrees \/ Differs \/ Judge \/ Measure \/ ColdPass
    <3>1. UNCHANGED loop /\ eng' = eng
      BY <2>2 DEF Bind, Skip, Agrees, Differs, Judge, Measure, ColdPass
    <3>2. eng \in Engine
      <4>1. eng \in Engine \/ step # "load"
        BY <2>2 DEF Bind, Skip, Agrees, Differs, Judge, Measure, ColdPass
      <4> QED BY <4>1, SomeEngine DEF CountInv
    <3>3. docs' = docs /\ failed' = failed /\ exit' = exit
      BY <3>1 DEF loop
    <3>4. ~(eng > NumEngines)
      BY <3>2, SomeEngine
    <3>5. AnswerInv'
      BY <3>3 DEF AnswerInv
    <3>6. CountInv'
      BY <3>1, <3>3, <3>4 DEF CountInv
    <3> QED BY <3>5, <3>6
  <2>3. CASE Document
    <3>1. eng \in Engine /\ exit = "none"
      BY <2>3, SomeEngine DEF Document, CountInv
    <3>2. /\ eng' = eng + 1 /\ docs' = docs \cup {eng} /\ step' = "load"
          /\ failed' = failed /\ exit' = exit
      BY <2>3 DEF Document
    <3>3. Cardinality(docs') = Cardinality(docs) + 1
      BY <2>3, DocumentCounts
    <3>4. docs' \subseteq 1..eng' - 1
      BY <3>1, <3>2, SomeEngine DEF CountInv
    <3> QED BY <2>0, <3>1, <3>2, <3>3, <3>4, SomeEngine DEF CountInv, AnswerInv
  <2>4. CASE NoResult
    BY <2>4 DEF NoResult, CountInv, AnswerInv
  <2>5. CASE Finish
    BY <2>5 DEF Finish, CountInv, AnswerInv
  <2>6. CASE UNCHANGED vars
    BY <2>6 DEF vars, CountInv, AnswerInv
  <2> QED BY <2>1, <2>2, <2>3, <2>4, <2>5, <2>6 DEF Next
<1> QED BY <1>1, <1>2, PTL DEF Spec

\* The exit of the command hides no engine: it is "ok" exactly when every engine asked for
\* has a document (newRunCmd counts each error and goes on).
THEOREM ExitHidesNone == Spec => []ExitTellsAll
<1>1. CountInv /\ AnswerInv => ExitTellsAll
  <2> SUFFICES ASSUME CountInv, AnswerInv PROVE ExitTellsAll
    OBVIOUS
  <2>1. IsFiniteSet(docs) /\ Cardinality(docs) \in Nat
    BY DocsAreFinite
  <2>2. IsFiniteSet(Engine) /\ Cardinality(Engine) = NumEngines
    BY SomeEngine, FS_Interval
  <2>3. docs = Engine => Cardinality(docs) = NumEngines
    BY <2>2
  <2>4. (docs \subseteq Engine /\ Cardinality(docs) = NumEngines) => docs = Engine
    BY <2>2, FS_Subset
  <2>5. docs \subseteq Engine
    BY SomeEngine DEF CountInv
  <2>6. exit # "none" => eng = NumEngines + 1
    BY SomeEngine DEF CountInv
  <2>7. failed + Cardinality(docs) = eng - 1 /\ failed \in Nat
    BY DEF CountInv
  <2>8. exit = "ok" => docs = Engine
    BY <2>1, <2>4, <2>5, <2>6, <2>7, SomeEngine DEF AnswerInv
  <2>9. (exit # "none" /\ docs = Engine) => exit = "ok"
    <3>1. docs = Engine => docs # {}
      BY SomeEngine
    <3>2. (exit # "none" /\ docs = Engine) => failed = 0
      BY <2>1, <2>3, <2>6, <2>7, SomeEngine
    <3> QED BY <3>1, <3>2 DEF AnswerInv
  <2> QED BY <2>7, <2>8, <2>9 DEF ExitTellsAll, AnswerInv
<1> QED BY <1>1, CountKept, PTL
-----------------------------------------------------------------------------
(* What approval of a query means: so many different bindings compared.      *)

LEMMA DivMod ==
  ASSUME NEW P \in Nat \ {0}, NEW a \in Nat
  PROVE  a = P * (a \div P) + (a % P) /\ a \div P \in Int /\ a % P \in 0..P - 1
  BY SMT

LEMMA TimesDifference ==
  ASSUME NEW P \in Nat, NEW x \in Int, NEW y \in Int
  PROVE  P * (x - y) = P * x - P * y
  BY SMT

LEMMA TimesOneOrMore == ASSUME NEW P \in Nat, NEW k \in Int, k >= 1 PROVE P * k >= P
  BY SMT

LEMMA TimesNoneOrLess == ASSUME NEW P \in Nat, NEW k \in Int, k <= 0 PROVE P * k <= 0
  BY SMT

\* Two numbers less than P apart leave different remainders.
LEMMA RemaindersDiffer ==
  ASSUME NEW P \in Nat \ {0}, NEW a \in Nat, NEW b \in Nat, a < b, b < a + P
  PROVE  a % P # b % P
<1> SUFFICES ASSUME a % P = b % P PROVE FALSE
  OBVIOUS
<1> DEFINE x == b \div P
           y == a \div P
           r == a % P
<1>1. x \in Int /\ y \in Int /\ r \in Int /\ a = P * y + r /\ b = P * x + r
  BY DivMod
<1> HIDE DEF x, y, r
<1>2. P * (x - y) = b - a
  <2>1. P * x \in Int /\ P * y \in Int
    BY <1>1
  <2> QED BY <1>1, <2>1, TimesDifference
<1>3. x - y \in Int /\ (x - y <= 0 \/ x - y >= 1)
  BY <1>1
<1> QED BY <1>2, <1>3, TimesOneOrMore, TimesNoneOrLess

\* The entries of a pool of P the draws gave that brought the cursor from one place to another.
Window(P, from, to) == {n % P : n \in from..to - 1}

\* While verification is at a query its draws are the window before the cursor, each of
\* them a new entry, because there are not more of them than the pool has entries.
BreadthInv ==
  /\ \A q \in approved : Cardinality(drawn[q]) = Samples(q)
  /\ drawn \in [Query -> SUBSET Int]
  /\ step = "verify" =>
       /\ \A q \in approved : q < query
       /\ \A q \in Query : q > query => drawn[q] = {}
       /\ \A q \in Query : q = query =>
            /\ made < Samples(q) /\ made <= cursor[q]
            /\ drawn[q] = Window(size[q], cursor[q] - made, cursor[q])
            /\ IsFiniteSet(drawn[q]) /\ Cardinality(drawn[q]) = made

LEMMA SamplesFit ==
  ASSUME ShapeInv
  PROVE  \A q \in Query : Samples(q) \in Nat \ {0} /\ Samples(q) <= size[q]
<1> SUFFICES ASSUME NEW q \in Query PROVE Samples(q) \in Nat \ {0} /\ Samples(q) <= size[q]
  OBVIOUS
<1>1. size[q] \in Nat \ {0} /\ Wanted[q] \in Nat \ {0}
  BY RunVerbAssumption DEF ShapeInv
<1> QED BY ONLY <1>1 DEF Samples

\* One more draw is one more entry.
LEMMA WindowGrows ==
  ASSUME NEW P \in Nat \ {0}, NEW c \in Nat, NEW n \in Nat, n <= c, n < P,
         IsFiniteSet(Window(P, c - n, c)), Cardinality(Window(P, c - n, c)) = n
  PROVE  /\ Window(P, c - n, c) \cup {c % P} = Window(P, (c + 1) - (n + 1), c + 1)
         /\ IsFiniteSet(Window(P, (c + 1) - (n + 1), c + 1))
         /\ Cardinality(Window(P, (c + 1) - (n + 1), c + 1)) = n + 1
<1> DEFINE old == Window(P, c - n, c)
           new == Window(P, (c + 1) - (n + 1), c + 1)
<1>0. P \in Nat \ {0}
  OBVIOUS
<1>1. c % P \notin old
  <2> SUFFICES ASSUME NEW a \in (c - n)..(c - 1) PROVE a % P # c % P
    BY DEF Window
  <2>1. a \in Nat /\ a < c /\ c < a + P
    BY <1>0
  <2> QED BY <1>0, <2>1, RemaindersDiffer
<1>2. (c + 1) - (n + 1) = c - n /\ (c + 1) - 1 = c
  OBVIOUS
<1>3. new = old \cup {c % P}
  <2>1. (c - n)..c = ((c - n)..(c - 1)) \cup {c}
    OBVIOUS
  <2> QED BY <1>2, <2>1 DEF Window
<1>4. IsFiniteSet(new) /\ Cardinality(new) = Cardinality(old) + 1
  BY <1>1, <1>3, FS_AddElement
<1> QED BY <1>3, <1>4

\* The next query has not been drawn from.
LEMMA FreshQuery ==
  ASSUME ShapeInv, BreadthInv, step = "verify", NextQuery, step' = step, size' = size,
         cursor' \in [Query -> Nat], drawn' \in [Query -> SUBSET Int],
         \A q \in Query : q > query => drawn'[q] = drawn[q],
         \A q \in approved' : q \in Query /\ q <= query,
         \A q \in approved' : Cardinality(drawn'[q]) = Samples(q)
  PROVE  BreadthInv'
<1>1. query' = query + 1 /\ made' = 0 /\ query \in Nat
  BY DEF NextQuery, ShapeInv
<1>2. ASSUME NEW q \in Query, q > query PROVE drawn'[q] = {}
  BY <1>2 DEF BreadthInv
<1>3. ASSUME NEW q \in Query, q = query'
      PROVE  /\ made' < Samples(q) /\ made' <= cursor'[q]
             /\ drawn'[q] = Window(size[q], cursor'[q] - made', cursor'[q])
             /\ IsFiniteSet(drawn'[q]) /\ Cardinality(drawn'[q]) = made'
  <2>1. drawn'[q] = {}
    BY <1>1, <1>2, <1>3
  <2>2. Window(size[q], cursor'[q] - made', cursor'[q]) = {}
    BY <1>1 DEF Window
  <2> QED BY <1>1, <2>1, <2>2, SamplesFit, FS_EmptySet
<1>6. \A q \in approved' : q < query'
  BY <1>1
<1>7. \A q \in Query : q > query' => drawn'[q] = {}
  BY <1>1, <1>2
<1> QED BY <1>3, <1>6, <1>7 DEF BreadthInv, Samples, Window

LEMMA BreadthKept == Spec => []BreadthInv
<1>1. Init => BreadthInv
  <2> SUFFICES ASSUME Init PROVE BreadthInv
    OBVIOUS
  <2>1. step = "load" /\ approved = {} /\ drawn = [q \in Query |-> {}]
    BY DEF Init
  <2> QED BY <2>1 DEF BreadthInv
<1>2. ShapeInv /\ ShapeInv' /\ BreadthInv /\ [Next]_vars => BreadthInv'
  <2> SUFFICES ASSUME ShapeInv, ShapeInv', BreadthInv, [Next]_vars PROVE BreadthInv'
    OBVIOUS
  <2>0. cursor \in [Query -> Nat] /\ query \in Nat /\ made \in Nat
        /\ cursor' \in [Query -> Nat]
    BY DEF ShapeInv
  <2>1. CASE RunFails \/ Judge \/ Measure \/ ColdPass \/ Document
    <3>1. drawn' = drawn /\ approved' = approved /\ step' # "verify" /\ size' = size
      BY <2>1 DEF RunFails, Judge, Measure, ColdPass, Document, source
    <3> QED BY <3>1 DEF BreadthInv, Samples
  <2>2. CASE NoResult \/ Finish \/ UNCHANGED vars
    <3>1. UNCHANGED <<step, query, made, cursor, size, drawn, approved>>
      BY <2>2 DEF NoResult, Finish, vars, source
    <3> QED BY <3>1 DEF BreadthInv, Samples, Window
  <2>3. CASE Bind
    <3>1. query' = 1 /\ made' = 0 /\ approved' = {} /\ drawn' = [q \in Query |-> {}]
      BY <2>3 DEF Bind
    <3>2. ASSUME NEW q \in Query
          PROVE  /\ Window(size'[q], cursor'[q] - made', cursor'[q]) = {}
                 /\ made' <= cursor'[q] /\ made' < Samples(q)'
      <4>1. Samples(q)' \in Nat \ {0}
        BY RunVerbAssumption DEF Samples, ShapeInv
      <4> QED BY <2>0, <3>1, <4>1 DEF Window
    <3> QED BY <3>1, <3>2, FS_EmptySet DEF BreadthInv
  <2>4. CASE Skip
    <3>1. NextQuery /\ step = "verify" /\ UNCHANGED <<step, cursor, size, drawn, approved>>
      BY <2>4 DEF Skip, source
    <3>2. /\ \A q \in approved : q \in Query /\ q <= query /\ Cardinality(drawn[q]) = Samples(q)
          /\ drawn \in [Query -> SUBSET Int]
      BY <2>0, <3>1 DEF BreadthInv, ShapeInv
    <3> QED BY <2>0, <3>1, <3>2, FreshQuery
  <2>5. CASE Differs
    <3>1. NextQuery /\ step = "verify" /\ UNCHANGED <<step, size, drawn, approved>>
      BY <2>5 DEF Differs, source
    <3>2. /\ \A q \in approved : q \in Query /\ q <= query /\ Cardinality(drawn[q]) = Samples(q)
          /\ drawn \in [Query -> SUBSET Int]
      BY <2>0, <3>1 DEF BreadthInv, ShapeInv
    <3> QED BY <2>0, <3>1, <3>2, FreshQuery
  <2>6. CASE Agrees
    <3> DEFINE P == size[query]
               more == Window(P, (cursor[query] + 1) - (made + 1), cursor[query] + 1)
    <3>1. /\ step = "verify" /\ step' = step /\ query \in Query /\ size' = size
          /\ cursor' = [cursor EXCEPT ![query] = cursor[query] + 1]
          /\ drawn' = [drawn EXCEPT ![query] = drawn[query] \cup {cursor[query] % size[query]}]
      <4>1. Entry(query, 0) = cursor[query] % size[query]
        BY <2>0, <2>6 DEF Entry, Agrees
      <4> QED BY <2>6, <4>1 DEF Agrees, Next1, source
    <3>2. /\ made < Samples(query) /\ made <= cursor[query]
          /\ drawn[query] = Window(size[query], cursor[query] - made, cursor[query])
          /\ IsFiniteSet(drawn[query]) /\ Cardinality(drawn[query]) = made
      BY <3>1 DEF BreadthInv
    <3>3. cursor[query] \in Nat /\ made < size[query] /\ size[query] \in Nat
      <4>1. Samples(query) <= size[query] /\ Samples(query) \in Nat
        BY <3>1, SamplesFit
      <4>2. size[query] \in Nat /\ cursor[query] \in Nat
        BY <3>1 DEF ShapeInv
      <4> QED BY ONLY <2>0, <3>2, <4>1, <4>2
    <3>4. /\ drawn[query] \cup {cursor[query] % size[query]} = more
          /\ IsFiniteSet(more) /\ Cardinality(more) = made + 1
      BY <2>0, <3>1, <3>2, <3>3, WindowGrows
    <3>5. /\ drawn' = [drawn EXCEPT ![query] = more]
          /\ drawn \in [Query -> SUBSET Int]
      BY <3>1, <3>4 DEF BreadthInv
    <3>6. more \in SUBSET Int
      <4>1. ASSUME NEW n \in (cursor[query] - made)..cursor[query]
            PROVE  n % size[query] \in Int
        <5>1. n \in Nat /\ size[query] \in Nat \ {0}
          BY <2>0, <3>1, <3>2, <3>3
        <5> QED BY <5>1, DivMod
      <4>2. ((cursor[query] + 1) - (made + 1))..((cursor[query] + 1) - 1) = (cursor[query] - made)..cursor[query]
        BY <2>0, <3>3
      <4> QED BY <4>1, <4>2 DEF Window
    <3>7. /\ drawn' \in [Query -> SUBSET Int] /\ drawn'[query] = more
          /\ \A q \in Query : q # query => drawn'[q] = drawn[q]
      BY <3>1, <3>5, <3>6
    <3> HIDE DEF more
    <3>8. \A q \in approved : q < query /\ q \in Query /\ Cardinality(drawn'[q]) = Samples(q)
      BY <2>0, <3>1, <3>7 DEF BreadthInv, ShapeInv
    <3>9. CASE made' = made + 1 /\ made + 1 < Samples(query) /\ query' = query /\ approved' = approved
      <4>1. cursor'[query] = cursor[query] + 1 /\ made' <= cursor'[query]
        BY <2>0, <3>1, <3>2, <3>3, <3>9
      <4>2. drawn'[query] = Window(size[query], cursor'[query] - made', cursor'[query])
        BY <3>7, <3>9, <4>1 DEF more
      <4>3. \A q \in Query : q > query => drawn'[q] = {}
        BY <2>0, <3>1, <3>7 DEF BreadthInv
      <4> QED
        <5>1. \A q \in Query : q = query' =>
                 /\ made' < Samples(q) /\ made' <= cursor'[q]
                 /\ drawn'[q] = Window(size[q], cursor'[q] - made', cursor'[q])
                 /\ IsFiniteSet(drawn'[q]) /\ Cardinality(drawn'[q]) = made'
          BY <3>4, <3>7, <3>9, <4>1, <4>2
        <5>2. /\ \A q \in approved' : q < query' /\ Cardinality(drawn'[q]) = Samples(q)
              /\ \A q \in Query : q > query' => drawn'[q] = {}
          BY <3>8, <3>9, <4>3
        <5>3. \A q : Samples(q)' = Samples(q)
          BY <3>1 DEF Samples
        <5>4. drawn' \in [Query -> SUBSET Int] /\ step' = step /\ size' = size
          BY <3>1, <3>7
        <5>5. /\ \A q \in approved' : q < query' /\ Cardinality(drawn'[q]) = Samples(q)'
              /\ \A q \in Query : q = query' =>
                   /\ made' < Samples(q)' /\ made' <= cursor'[q]
                   /\ drawn'[q] = Window(size'[q], cursor'[q] - made', cursor'[q])
                   /\ IsFiniteSet(drawn'[q]) /\ Cardinality(drawn'[q]) = made'
          BY <5>1, <5>2, <5>3, <5>4
        <5> QED BY <5>2, <5>4, <5>5 DEF BreadthInv, Window
    <3>10. CASE made + 1 = Samples(query) /\ NextQuery /\ approved' = approved \cup {query}
      <4>1. \A q \in approved' : q \in Query /\ q <= query /\ Cardinality(drawn'[q]) = Samples(q)
        <5>1. Cardinality(drawn'[query]) = Samples(query)
          BY <3>4, <3>7, <3>10
        <5>2. query <= query /\ \A q \in approved : q <= query
          BY <2>0, <3>8 DEF ShapeInv
        <5> QED BY <3>1, <3>8, <3>10, <5>1, <5>2
      <4>2. \A q \in Query : q > query => drawn'[q] = drawn[q]
        BY <2>0, <3>7
      <4> QED BY <2>0, <3>1, <3>7, <3>10, <4>1, <4>2, FreshQuery
    <3> QED BY <2>6, <3>9, <3>10 DEF Agrees
  <2> QED BY <2>1, <2>2, <2>3, <2>4, <2>5, <2>6 DEF Next
<1> QED BY <1>1, <1>2, ShapeKept, PTL DEF Spec

\* An approved query was compared on as many different bindings as verifyRead asks for,
\* wherever in the pool its cursor was left by the engines before.
THEOREM ApprovalIsBroad == Spec => []ComparedBreadth
<1>1. BreadthInv => ComparedBreadth
  BY DEF BreadthInv, ComparedBreadth
<1> QED BY <1>1, BreadthKept, PTL
-----------------------------------------------------------------------------
(* How the entries of a pool are spread over what an engine is timed on.     *)

\* The remainder is the only number below P that leaves a multiple of it.
LEMMA RemainderUnique ==
  ASSUME NEW P \in Nat \ {0}, NEW b \in Nat, NEW m \in Int, NEW r \in 0..P - 1, b = P * m + r
  PROVE  b % P = r
<1> DEFINE x == b \div P
           s == b % P
<1>1. x \in Int /\ s \in 0..P - 1 /\ b = P * x + s
  BY DivMod
<1> HIDE DEF x, s
<1>2. P * (m - x) = s - r
  <2>1. P * m \in Int /\ P * x \in Int
    BY <1>1
  <2> QED BY <1>1, <2>1, TimesDifference
<1>3. P * (x - m) = r - s
  <2>1. P * m \in Int /\ P * x \in Int
    BY <1>1
  <2> QED BY <1>1, <2>1, TimesDifference
<1>4. ~(m - x >= 1) /\ ~(x - m >= 1)
  BY <1>1, <1>2, <1>3, TimesOneOrMore
<1>5. m = x
  BY <1>1, <1>4
<1> QED BY <1>1, <1>5 DEF s

\* How far on from an entry of a pool the next occurrence of another one is.
Ahead(P, x, y) == IF x <= y THEN y - x ELSE y - x + P

LEMMA AheadIsThere ==
  ASSUME NEW P \in Nat \ {0}, NEW a \in Nat, NEW y \in 0..P - 1
  PROVE  /\ Ahead(P, a % P, y) \in 0..P - 1
         /\ (a + Ahead(P, a % P, y)) % P = y
<1> DEFINE m == a \div P
           r == a % P
<1>1. m \in Int /\ r \in 0..P - 1 /\ a = P * m + r
  BY DivMod
<1> HIDE DEF m, r
<1>2. Ahead(P, r, y) \in 0..P - 1
  BY <1>1 DEF Ahead
<1>3. CASE r <= y
  <2>1. a + Ahead(P, r, y) = P * m + y
    <3>1. P * m \in Int
      BY <1>1
    <3> QED BY <1>1, <1>3, <3>1 DEF Ahead
  <2> QED BY <1>1, <1>2, <2>1, RemainderUnique, SMTT(20) DEF r
<1>4. CASE ~(r <= y)
  <2>1. P * (m + 1) = P * m + P
    BY <1>1, SMT
  <2>2. a + Ahead(P, r, y) = P * (m + 1) + y
    <3>1. P * m \in Int
      BY <1>1
    <3> QED BY <1>1, <1>4, <2>1, <3>1 DEF Ahead
  <2>3. m + 1 \in Int
    BY <1>1
  <2>4. a + Ahead(P, r, y) \in Nat
    BY <1>2
  <2> DEFINE b == a + Ahead(P, r, y)
             w == m + 1
  <2>5. b \in Nat /\ w \in Int /\ b = P * w + y
    BY <2>2, <2>3, <2>4
  <2> HIDE DEF b, w
  <2>6. b % P = y
    BY <2>5, RemainderUnique
  <2> QED BY <1>2, <2>6 DEF b, r
<1> QED BY <1>3, <1>4

\* Within one pass of D the remainder counts on.
LEMMA SamePass ==
  ASSUME NEW D \in Nat \ {0}, NEW a \in Nat, NEW t \in Nat, a \div D = (a + t) \div D
  PROVE  (a + t) % D = (a % D) + t
<1> DEFINE m == a \div D
           r == a % D
           b == a + t
           s == b % D
<1>1. m \in Int /\ r \in Int /\ a = D * m + r
  BY DivMod
<1>2. b \in Nat /\ b \div D = m
  OBVIOUS
<1>3. s \in Int /\ b = D * m + s
  <2>1. b = D * (b \div D) + (b % D) /\ b % D \in 0..D - 1
    <3> HIDE DEF b
    <3> QED BY <1>2, DivMod
  <2>2. D - 1 \in Int
    OBVIOUS
  <2> HIDE DEF b, m
  <2>3. b % D \in Int
    BY <2>1, <2>2
  <2>4. b = D * m + (b % D)
    BY <1>2, <2>1, Zenon
  <2> QED BY <2>3, <2>4
<1>4. D * m \in Int
  BY <1>1
<1> HIDE DEF m, r, s
<1>5. s = r + t
  BY <1>1, <1>3, <1>4
<1> QED BY <1>5 DEF r, s, b

\* What lies between two places of a pass is of that pass.
LEMMA BetweenPlaces ==
  ASSUME NEW D \in Nat \ {0}, NEW a \in Nat, NEW b \in Nat, NEW t \in Nat,
         a <= t, t <= b, a \div D = b \div D
  PROVE  t \div D = a \div D
<1> DEFINE m == a \div D
           w == t \div D
<1>1. m \in Int /\ a % D \in 0..D - 1 /\ a = D * m + (a % D)
  BY DivMod
<1>2. b % D \in 0..D - 1 /\ b = D * m + (b % D)
  BY DivMod
<1>3. w \in Int /\ t % D \in 0..D - 1 /\ t = D * w + (t % D)
  BY DivMod
<1> HIDE DEF m, w
<1>4. D * m \in Int /\ D * w \in Int
  BY <1>1, <1>3
<1>5. D * (w - m) = D * w - D * m /\ D * (m - w) = D * m - D * w
  BY <1>1, <1>3, TimesDifference
<1>6. ~(w - m >= 1)
  <2> SUFFICES ASSUME w - m >= 1 PROVE FALSE
    OBVIOUS
  <2>1. w - m \in Int
    BY <1>1, <1>3
  <2>2. D * (w - m) >= D
    BY <2>1, TimesOneOrMore
  <2> QED BY <1>2, <1>3, <1>4, <1>5, <2>2
<1>7. ~(m - w >= 1)
  <2> SUFFICES ASSUME m - w >= 1 PROVE FALSE
    OBVIOUS
  <2>1. m - w \in Int
    BY <1>1, <1>3
  <2>2. D * m - D * w >= D
    BY <1>5, <2>1, TimesOneOrMore
  <2> DEFINE pm == D * m
             pw == D * w
             ra == a % D
             rt == t % D
  <2>3. ra >= 0 /\ rt <= D - 1 /\ ra \in Int /\ rt \in Int
    BY <1>1, <1>3
  <2>4. pm \in Int /\ pw \in Int /\ a = pm + ra /\ t = pw + rt /\ pm - pw >= D
    BY <1>1, <1>3, <1>4, <2>2
  <2> HIDE DEF pm, pw, ra, rt
  <2> QED BY <2>3, <2>4
<1>8. w = m
  BY <1>1, <1>3, <1>6, <1>7
<1> QED BY <1>8 DEF w, m

\* A schedule goes round D draws, the first of them c into a pool of P: where among its
\* operations after lo and up to hi it gives the entry x, and the passes those are of.
Places(P, c, D, lo, hi, x) == {k \in lo + 1..hi : (c + ((k - 1) % D)) % P = x}
Rounds(D, lo, hi) == {(k - 1) \div D : k \in lo + 1..hi}

LEMMA PlacesFinite ==
  ASSUME NEW P, NEW c, NEW D, NEW lo \in Nat, NEW hi \in Nat, NEW x
  PROVE  IsFiniteSet(Places(P, c, D, lo, hi, x)) /\ Cardinality(Places(P, c, D, lo, hi, x)) \in Nat
<1>1. IsFiniteSet(lo + 1..hi)
  BY FS_Interval
<1>2. IsFiniteSet(Places(P, c, D, lo, hi, x))
  BY <1>1, FS_Subset DEF Places
<1> QED BY <1>2, FS_CardinalityType

LEMMA RoundsFinite ==
  ASSUME NEW D, NEW lo \in Nat, NEW hi \in Nat
  PROVE  IsFiniteSet(Rounds(D, lo, hi)) /\ Cardinality(Rounds(D, lo, hi)) \in Nat
<1> DEFINE f == [k \in lo + 1..hi |-> (k - 1) \div D]
<1>1. IsFiniteSet(lo + 1..hi)
  BY FS_Interval
<1>2. f \in Surjection(lo + 1..hi, Rounds(D, lo, hi))
  BY DEF Surjection, Rounds
<1>3. IsFiniteSet(Rounds(D, lo, hi))
  BY <1>1, <1>2, FS_Surjection
<1> QED BY <1>3, FS_CardinalityType

\* The places of x that are followed by a place of y in the same pass.
Followed(P, c, D, lo, hi, x, y) ==
  {k \in Places(P, c, D, lo, hi, x) :
     k + Ahead(P, x, y) <= hi /\ (k - 1) \div D = (k - 1 + Ahead(P, x, y)) \div D}

LEMMA FollowedByOther ==
  ASSUME NEW P \in Nat \ {0}, NEW c \in Nat, NEW D \in Nat \ {0}, NEW lo \in Nat, NEW hi \in Nat,
         NEW x \in 0..P - 1, NEW y \in 0..P - 1
  PROVE  /\ IsFiniteSet(Followed(P, c, D, lo, hi, x, y))
         /\ Cardinality(Followed(P, c, D, lo, hi, x, y)) <= Cardinality(Places(P, c, D, lo, hi, y))
<1> DEFINE Y == Places(P, c, D, lo, hi, y)
           d == Ahead(P, x, y)
           A == Followed(P, c, D, lo, hi, x, y)
<1>0. d \in Nat
  BY DEF Ahead
<1> HIDE DEF d
<1>1. ASSUME NEW k \in A PROVE k \in Int /\ k + d \in Y
  <2>1. /\ k \in lo + 1..hi /\ (c + ((k - 1) % D)) % P = x
        /\ k + d <= hi /\ (k - 1) \div D = (k - 1 + d) \div D
    BY DEF Followed, Places, d
  <2>2. k - 1 \in Nat
    BY <2>1
  <2>3. (k - 1 + d) % D = ((k - 1) % D) + d
    BY <1>0, <2>1, <2>2, SamePass
  <2>4. (k - 1) % D \in Nat
    <3> DEFINE b == k - 1
    <3>1. b \in Nat
      BY <2>2
    <3> HIDE DEF b
    <3>2. b % D \in Nat
      BY <3>1, ModType
    <3> QED BY <3>2 DEF b
  <2> DEFINE a == c + ((k - 1) % D)
  <2>5. a \in Nat /\ a % P = x
    BY <2>1, <2>4
  <2>6. (a + d) % P = y
    <3> HIDE DEF a
    <3> QED BY <2>5, AheadIsThere DEF d
  <2>7. a + d = c + ((k - 1 + d) % D)
    BY <1>0, <2>3, <2>4
  <2> DEFINE w == k + d
  <2>8. w - 1 = k - 1 + d /\ w \in lo + 1..hi
    BY <1>0, <2>1
  <2> HIDE DEF w
  <2>9. (c + ((w - 1) % D)) % P = y
    <3> HIDE DEF a
    <3> QED BY <2>6, <2>7, <2>8
  <2>11. w \in Y
    BY <2>8, <2>9 DEF Places
  <2>12. k \in Int
    BY <2>1
  <2> QED BY <2>11, <2>12 DEF w
<1> DEFINE f == [k \in A |-> k + d]
<1>2. ASSUME NEW k \in A, NEW j \in A, k + d = j + d PROVE k = j
  <2>1. k \in Int /\ j \in Int
    BY <1>1
  <2> QED BY <1>0, <1>2, <2>1
<1>3. f \in [A -> Y]
  BY <1>1
<1>4. f \in Injection(A, Y)
  BY <1>2, <1>3 DEF Injection, IsInjective
<1>5. IsFiniteSet(Y)
  BY PlacesFinite
<1> HIDE DEF f, A, Y
<1>6. IsFiniteSet(A) /\ Cardinality(A) <= Cardinality(Y)
  BY <1>4, <1>5, FS_Injection
<1> QED BY <1>6 DEF A, Y

\* A pass has one place of x at most that is not: the last.
LEMMA LastOfAPass ==
  ASSUME NEW P \in Nat \ {0}, NEW c \in Nat, NEW D \in Nat \ {0}, NEW lo \in Nat, NEW hi \in Nat,
         NEW x \in 0..P - 1, NEW y \in 0..P - 1,
         NEW j \in Places(P, c, D, lo, hi, x), NEW k \in Places(P, c, D, lo, hi, x),
         j < k, (j - 1) \div D = (k - 1) \div D
  PROVE  j \in Followed(P, c, D, lo, hi, x, y)
<1> DEFINE d == Ahead(P, x, y)
           r == (j - 1) % D
           s == (k - 1) % D
<1>0. d \in 0..P - 1
  BY DEF Ahead
<1>1. j \in lo + 1..hi /\ k \in lo + 1..hi /\ (c + r) % P = x /\ (c + s) % P = x
  BY DEF Places
<1>2. r \in Nat /\ j - 1 \in Nat /\ k - 1 \in Nat /\ k - j \in Nat
  BY <1>1, DivMod
<1>3. s = r + (k - j)
  <2>1. (j - 1) + (k - j) = k - 1
    BY <1>1
  <2> QED BY <1>2, <2>1, SamePass
<1> HIDE DEF d, r, s
<1>4. k - j >= P
  <2> SUFFICES ASSUME k - j < P PROVE FALSE
    BY <1>1
  <2> DEFINE a == c + r
             b == c + s
  <2>1. a \in Nat /\ b \in Nat /\ a < b /\ b < a + P
    BY <1>1, <1>2, <1>3
  <2>2. a % P = b % P
    BY <1>1
  <2> HIDE DEF a, b
  <2> QED BY <2>1, <2>2, RemaindersDiffer
<1>5. j + d <= hi /\ j - 1 <= (j - 1) + d /\ (j - 1) + d <= k - 1 /\ (j - 1) + d \in Nat
  BY <1>0, <1>1, <1>4
<1>6. ((j - 1) + d) \div D = (j - 1) \div D
  <2> DEFINE t == (j - 1) + d
  <2>1. t \in Nat /\ j - 1 <= t /\ t <= k - 1
    BY <1>5
  <2> HIDE DEF t
  <2>2. t \div D = (j - 1) \div D
    BY <1>2, <2>1, BetweenPlaces
  <2> QED BY <2>2 DEF t
<1> QED BY <1>5, <1>6 DEF Followed, d

\* No entry is given more often than another by more than once a pass.
LEMMA PassesEven ==
  ASSUME NEW P \in Nat \ {0}, NEW c \in Nat, NEW D \in Nat \ {0}, NEW lo \in Nat, NEW hi \in Nat,
         NEW x \in 0..P - 1, NEW y \in 0..P - 1
  PROVE  Cardinality(Places(P, c, D, lo, hi, x))
           <= Cardinality(Places(P, c, D, lo, hi, y)) + Cardinality(Rounds(D, lo, hi))
<1> DEFINE X == Places(P, c, D, lo, hi, x)
           Y == Places(P, c, D, lo, hi, y)
           A == Followed(P, c, D, lo, hi, x, y)
           B == X \ A
           R == Rounds(D, lo, hi)
           g == [k \in B |-> (k - 1) \div D]
<1>1. IsFiniteSet(A) /\ Cardinality(A) <= Cardinality(Y)
  BY FollowedByOther
<1>2. \A k \in X : k \in lo + 1..hi
  BY DEF Places
<1>3. ASSUME NEW j \in B, NEW k \in B, (j - 1) \div D = (k - 1) \div D PROVE j = k
  <2>1. ~(j < k) /\ ~(k < j)
    BY <1>3, LastOfAPass
  <2>2. j \in lo + 1..hi /\ k \in lo + 1..hi
    BY <1>2
  <2> QED BY <2>1, <2>2
<1>4. g \in [B -> R]
  BY <1>2 DEF Rounds
<1>5. g \in Injection(B, R)
  BY <1>3, <1>4 DEF Injection, IsInjective
<1>6. IsFiniteSet(R) /\ Cardinality(R) \in Nat
  BY RoundsFinite
<1>7. A \subseteq X
  BY DEF Followed
<1>8. IsFiniteSet(X) /\ Cardinality(Y) \in Nat
  BY PlacesFinite
<1> HIDE DEF g, R, X, Y, A
<1>9. IsFiniteSet(B) /\ Cardinality(B) <= Cardinality(R)
  BY <1>5, <1>6, FS_Injection
<1>10. X = A \cup B /\ A \cap B = {}
  BY <1>7
<1>11. Cardinality(X) = Cardinality(A) + Cardinality(B) - Cardinality(A \cap B)
  <2> HIDE DEF B
  <2> QED BY <1>1, <1>9, <1>10, FS_Union
<1>12. Cardinality(A) \in Nat /\ Cardinality(B) \in Nat /\ Cardinality(A \cap B) = 0
  BY <1>1, <1>9, <1>10, FS_CardinalityType, FS_EmptySet
<1>13. Cardinality(X) <= Cardinality(Y) + Cardinality(R)
  BY <1>1, <1>6, <1>8, <1>9, <1>11, <1>12
<1> QED BY <1>13 DEF X, Y, R

\* When the pool goes evenly into a pass, the end of one pass and the beginning of the
\* next meet in the pool: the schedule is a stretch of the pool, as one pass is.
LEMMA EvenPass ==
  ASSUME NEW P \in Nat \ {0}, NEW c \in Nat, NEW D \in Nat \ {0}, D % P = 0
  PROVE  \A a \in Nat : (c + (a % D)) % P = (c + a) % P
<1> SUFFICES ASSUME NEW a \in Nat PROVE (c + (a % D)) % P = (c + a) % P
  OBVIOUS
<1> DEFINE m == a \div D
           r == a % D
           e == D \div P
           u == c + r
           h == u \div P
           z == u % P
<1>1. m \in Int /\ r \in Nat /\ a = D * m + r
  BY DivMod
<1>2. e \in Int /\ D = P * e
  BY DivMod
<1>3. u \in Nat
  BY <1>1
<1>4. h \in Int /\ z \in 0..P - 1 /\ u = P * h + z
  BY <1>3, DivMod
<1> HIDE DEF m, e, h
<1>5. D * m = P * (e * m)
  BY <1>1, <1>2, SMT
<1> DEFINE v == e * m
           w == v + h
<1>6. v \in Int
  BY <1>1, <1>2
<1>7. w \in Int /\ P * w = P * v + P * h
  <2> HIDE DEF v
  <2> QED BY <1>4, <1>6, SMT
<1>8. c + a = P * w + z
  <2>1. c + a = D * m + u
    <3>1. D * m \in Int
      BY <1>1
    <3> QED BY <1>1, <3>1
  <2>2. P * v \in Int /\ P * h \in Int /\ D * m = P * v
    BY <1>4, <1>5, <1>6
  <2> HIDE DEF v, w, u
  <2> QED BY <1>4, <1>7, <2>1, <2>2
<1>9. c + a \in Nat
  OBVIOUS
<1> HIDE DEF w, z
<1>10. (c + a) % P = z
  BY <1>4, <1>7, <1>8, <1>9, RemainderUnique
<1> QED BY <1>10 DEF z, u, r

\* A stretch of one pass.
LEMMA OnePass ==
  ASSUME NEW lo \in Nat, NEW hi \in Nat
  PROVE  Cardinality(Rounds(hi + 1, lo, hi)) <= 1
<1>1. ASSUME NEW k \in lo + 1..hi PROVE (k - 1) \div (hi + 1) = 0
  <2>1. k - 1 \in 0..hi
    OBVIOUS
  <2> QED BY <2>1, SMT
<1>2. Rounds(hi + 1, lo, hi) \subseteq {0}
  BY <1>1 DEF Rounds
<1>3. IsFiniteSet({0}) /\ Cardinality({0}) = 1
  BY FS_Singleton
<1> QED BY <1>2, <1>3, FS_Subset

LEMMA StretchEven ==
  ASSUME NEW P \in Nat \ {0}, NEW c \in Nat, NEW D \in Nat \ {0}, D % P = 0,
         NEW lo \in Nat, NEW hi \in Nat, NEW x \in 0..P - 1, NEW y \in 0..P - 1
  PROVE  Cardinality(Places(P, c, D, lo, hi, x)) <= Cardinality(Places(P, c, D, lo, hi, y)) + 1
<1>0. P \in Nat \ {0} /\ D \in Nat \ {0} /\ c \in Nat /\ D % P = 0
  OBVIOUS
<1>e. \A a \in Nat : (c + (a % D)) % P = (c + a) % P
  BY <1>0, EvenPass
<1>1. ASSUME NEW k \in lo + 1..hi PROVE (c + ((k - 1) % D)) % P = (c + ((k - 1) % (hi + 1))) % P
  <2>1. k - 1 \in 0..hi
    OBVIOUS
  <2>2. (k - 1) % (hi + 1) = k - 1
    BY <2>1, SMT
  <2>3. k - 1 \in Nat
    BY <2>1
  <2>4. (c + ((k - 1) % D)) % P = (c + (k - 1)) % P
    <3> DEFINE a == k - 1
    <3>1. a \in Nat
      BY <2>3
    <3> HIDE DEF a
    <3>2. (c + (a % D)) % P = (c + a) % P
      BY ONLY <1>e, <3>1
    <3> QED BY <3>2 DEF a
  <2> QED BY <2>2, <2>4
<1>2. \A z : Places(P, c, D, lo, hi, z) = Places(P, c, hi + 1, lo, hi, z)
  BY <1>1 DEF Places
<1>3. hi + 1 \in Nat \ {0}
  OBVIOUS
<1> DEFINE X == Places(P, c, hi + 1, lo, hi, x)
           Y == Places(P, c, hi + 1, lo, hi, y)
           R == Rounds(hi + 1, lo, hi)
<1>4. Cardinality(X) <= Cardinality(Y) + Cardinality(R)
  BY <1>3, PassesEven
<1>5. Cardinality(X) \in Nat /\ Cardinality(Y) \in Nat /\ Cardinality(R) \in Nat
  BY PlacesFinite, RoundsFinite
<1>6. Cardinality(R) <= 1
  BY OnePass
<1> HIDE DEF X, Y, R
<1>7. Cardinality(X) <= Cardinality(Y) + 1
  BY <1>4, <1>5, <1>6
<1> QED BY <1>2, <1>7 DEF X, Y

\* What an engine was run on is a walk round the draws of a pass, which are a stretch of
\* the query's pool.
WalkInv ==
  \A e \in Engine, q \in Query : \E c \in Nat :
    \A k \in DOMAIN timed[e][q].ran :
      timed[e][q].ran[k] = (c + ((k - 1) % Pass(q))) % timed[e][q].pool

LEMMA WalkKept == Spec => []WalkInv
<1>1. Init => WalkInv
  <2> SUFFICES ASSUME Init, NEW e \in Engine, NEW q \in Query
               PROVE  DOMAIN timed[e][q].ran = {}
    BY DEF WalkInv
  <2> QED BY DEF Init, NotTimed
<1>2. ShapeInv /\ WalkInv /\ [Next]_vars => WalkInv'
  <2> SUFFICES ASSUME ShapeInv, WalkInv, [Next]_vars PROVE WalkInv'
    OBVIOUS
  <2>0. asked' = asked /\ \A q \in Query : Pass(q)' = Pass(q)
    <3>1. asked' = asked
      BY DEF Next, vars, RunFails, Bind, Skip, Agrees, Differs, Judge, Measure, ColdPass,
             Document, NoResult, Finish
    <3> QED BY <3>1 DEF Pass
  <2>1. CASE Measure
    <3>1. PICK n \in [Query -> Nat], warm \in [Query -> Nat], extra \in Nat : Draw(n, warm, extra)
      BY <2>1, MeasureDraws
    <3>2. ASSUME NEW e \in Engine, NEW q \in Query
          PROVE  \E c \in Nat :
                   \A k \in DOMAIN timed'[e][q].ran :
                     timed'[e][q].ran[k] = (c + ((k - 1) % Pass(q))) % timed'[e][q].pool
      <4>1. CASE e # eng
        <5>1. timed'[e] = timed[e]
          BY <3>1, <4>1 DEF Draw, ShapeInv
        <5>2. \E c \in Nat :
                \A k \in DOMAIN timed[e][q].ran :
                  timed[e][q].ran[k] = (c + ((k - 1) % Pass(q))) % timed[e][q].pool
          BY DEF WalkInv
        <5> QED BY <5>1, <5>2
      <4>2. CASE e = eng /\ q \notin approved
        <5>1. timed'[e][q] = NotTimed
          BY <3>1, <4>2 DEF Draw, ShapeInv
        <5>2. DOMAIN timed'[e][q].ran = {}
          BY <5>1 DEF NotTimed
        <5> QED BY <5>2
      <4>3. CASE e = eng /\ q \in approved
        <5>1. /\ timed'[e][q].ran = [k \in 1..n[q] |-> Entry(q, (k - 1) % Pass(q))]
              /\ timed'[e][q].pool = size[q]
          BY <3>1, <4>3 DEF Draw, ShapeInv
        <5>2. cursor[q] \in Nat
          BY DEF ShapeInv
        <5>3. \A k \in 1..n[q] : Entry(q, (k - 1) % Pass(q)) = (cursor[q] + ((k - 1) % Pass(q))) % size[q]
          BY DEF Entry
        <5> QED BY <5>1, <5>2, <5>3
      <4> QED BY <4>1, <4>2, <4>3
    <3>3. ASSUME NEW e \in Engine, NEW q \in Query
          PROVE  \E c \in Nat :
                   \A k \in DOMAIN timed'[e][q].ran :
                     timed'[e][q].ran[k] = (c + ((k - 1) % Pass(q)')) % timed'[e][q].pool
      <4>1. Pass(q)' = Pass(q)
        BY <2>0
      <4> HIDE DEF Query
      <4> QED BY <3>2, <4>1
    <3> QED BY <3>3 DEF WalkInv
  <2>2. CASE ~Measure
    <3>1. timed' = timed
      BY <2>2 DEF Next, vars, RunFails, Bind, Skip, Agrees, Differs, Judge, ColdPass, Document,
                  NoResult, Finish
    <3> QED BY <2>0, <3>1 DEF WalkInv
  <2> QED BY <2>1, <2>2
<1> QED BY <1>1, <1>2, ShapeKept, PTL DEF Spec

\* No binding an engine is measured on is measured more often than another by more than
\* once for every pass over the draws its schedule was built from, and when the pool goes
\* evenly into those draws by no more than once, wherever the cursor was, however much of
\* the schedule was warmup and wherever it ended (PoolSource.Next, BuildMixedSchedule).
THEOREM TimingIsEven == Spec => []EvenTiming
<1>1. ShapeInv /\ WalkInv => EvenTiming
  <2> SUFFICES ASSUME ShapeInv, WalkInv, NEW e \in Engine, NEW q \in Query,
                      NEW x \in 0..timed[e][q].pool - 1, NEW y \in 0..timed[e][q].pool - 1
               PROVE  /\ Times(e, q, x) <= Times(e, q, y) + Cardinality(Passes(e, q))
                      /\ Pass(q) % timed[e][q].pool = 0 => Times(e, q, x) <= Times(e, q, y) + 1
    BY DEF EvenTiming
  <2> DEFINE P == timed[e][q].pool
             lo == timed[e][q].warm
             hi == Len(timed[e][q].ran)
             D == Pass(q)
  <2>0. timed[e][q] \in Timing
    BY DEF ShapeInv
  <2>1. P \in Nat \ {0} /\ lo \in Nat /\ hi \in Nat /\ D \in Nat \ {0}
        /\ DOMAIN timed[e][q].ran = 1..hi
    BY <2>0, PassType, SMTT(20) DEF Timing
  <2>2. PICK c \in Nat : \A k \in DOMAIN timed[e][q].ran :
          timed[e][q].ran[k] = (c + ((k - 1) % D)) % P
    BY DEF WalkInv
  <2>3. \A z : Times(e, q, z) = Cardinality(Places(P, c, D, lo, hi, z))
    <3> SUFFICES ASSUME NEW z
                 PROVE  {k \in Measured(e, q) : timed[e][q].ran[k] = z} = Places(P, c, D, lo, hi, z)
      BY DEF Times
    <3>1. \A k \in lo + 1..hi : k \in DOMAIN timed[e][q].ran
      BY <2>1, SMTT(20)
    <3> QED BY <2>2, <3>1 DEF Places, Measured
  <2>t. x \in 0..P - 1 /\ y \in 0..P - 1
    OBVIOUS
  <2>4. Passes(e, q) = Rounds(D, lo, hi)
    BY DEF Passes, Rounds, Measured
  <2> HIDE DEF P, lo, hi, D
  <2>5. Times(e, q, x) <= Times(e, q, y) + Cardinality(Passes(e, q))
    <3>1. Cardinality(Places(P, c, D, lo, hi, x))
            <= Cardinality(Places(P, c, D, lo, hi, y)) + Cardinality(Rounds(D, lo, hi))
      BY ONLY <2>1, <2>t, <2>2, PassesEven
    <3>2. Times(e, q, x) = Cardinality(Places(P, c, D, lo, hi, x))
      BY <2>3, Zenon
    <3>3. Times(e, q, y) = Cardinality(Places(P, c, D, lo, hi, y))
      BY <2>3, Zenon
    <3> QED BY ONLY <2>4, <3>1, <3>2, <3>3
  <2>6. ASSUME D % P = 0 PROVE Times(e, q, x) <= Times(e, q, y) + 1
    <3>1. Cardinality(Places(P, c, D, lo, hi, x)) <= Cardinality(Places(P, c, D, lo, hi, y)) + 1
      BY ONLY <2>1, <2>t, <2>2, <2>6, StretchEven
    <3>2. Times(e, q, x) = Cardinality(Places(P, c, D, lo, hi, x))
      BY <2>3, Zenon
    <3>3. Times(e, q, y) = Cardinality(Places(P, c, D, lo, hi, y))
      BY <2>3, Zenon
    <3> QED BY ONLY <3>1, <3>2, <3>3
  <2> QED BY <2>5, <2>6 DEF P, D
<1> QED BY <1>1, ShapeKept, WalkKept, PTL
=============================================================================
