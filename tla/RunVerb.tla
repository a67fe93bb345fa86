------------------------------- MODULE RunVerb -------------------------------
(***************************************************************************)
(* The run verb (cmd/graph-bench/run_cmd.go): one workload, several        *)
(* engines one after the other, and the parameter draws they share.        *)
(*                                                                         *)
(* A query's ParamSource belongs to the workload, not to an engine. Its    *)
(* cursor is moved by the verification, the schedule, the warmup and the   *)
(* cold pass of every engine of the command, and only the binder of a      *)
(* family that ships one starts it again, when it works. What happens      *)
(* inside an engine's run is EngineRun; here it is what the run draws,     *)
(* which of the draws its schedule comes to run, and how it may end.       *)
(***************************************************************************)
EXTENDS Integers, Sequences, FiniteSets

CONSTANTS
  NumEngines,  \* how many names --engines gives
  NumQueries,
  Writes,      \* the queries whose verification is one draw
  Unbound,     \* pooled queries no pool was found for
  FamilySize,  \* [Query -> Nat]: entries of the pool the family's binder makes, 1 when fixed
  GenericSize, \* [Query -> Nat]: entries of the pool of the generic path, 1 when fixed
  Wanted,      \* [Query -> Nat]: the sample size verification asks of a read
  Count,       \* [Query -> Nat]: how many operations of a query a plain run schedules
  MixDraws,    \* how many of each a mixed run draws, 64 in measurePlan
  Reps,        \* how often an analytics run repeats a query's one operation
  Dispatched,  \* sets of numbers of operations, query by query, that may come to run
  Asked        \* what may be asked of the command

Engine == 1..NumEngines
Query == 1..NumQueries

\* Whether the family has a binder of its own, how the workload is measured, --rate
\* (read by mixed runs only), whether the profile has a cold pass, --query and --publish.
AnyCommand ==
  {a \in [binder: BOOLEAN, shape: {"plain", "mixed", "analytics"}, open: BOOLEAN,
          cold: BOOLEAN, focused: BOOLEAN, publish: BOOLEAN] :
     /\ a.focused => ~a.publish /\ a.shape # "mixed"
     /\ a.open => a.shape = "mixed"}

ASSUME RunVerbAssumption ==
  /\ NumEngines \in Nat \ {0} /\ NumQueries \in Nat
  /\ Writes \subseteq Query /\ Unbound \subseteq Query
  /\ FamilySize \in [Query -> Nat \ {0}] /\ GenericSize \in [Query -> Nat \ {0}]
  /\ Wanted \in [Query -> Nat \ {0}]
  /\ Count \in [Query -> Nat \ {0}] /\ MixDraws \in Nat \ {0} /\ Reps \in Nat \ {0}
  /\ Dispatched \subseteq [Query -> Nat]
  /\ Asked \subseteq AnyCommand

VARIABLES
  asked,    \* this command, which never changes
  eng,      \* the engine being run, NumEngines + 1 after the last
  step,     \* where its run is
  query,    \* the query its verification has reached
  made,     \* how many draws of that query it has checked
  cursor,   \* the PoolSource's next, for every query
  size,     \* how many entries the pool of a query's source has
  rebound,  \* history: the engines for which the family's binder worked
  drawn,    \* history: the pool entries this engine's verification compared
  approved, \* the queries it cleared
  clean,    \* no query of this engine has failed
  timed,    \* history: what each engine was timed on, query by query
  docs,     \* the engines whose document is in the matrix
  files,    \* the engines whose document is on disk
  failed,   \* how many engines gave an error
  indexed,  \* the lineage index was rewritten
  exit      \* what the command returns

loop == <<docs, files, failed, indexed, exit>>
source == <<size, rebound>>
vars == <<asked, eng, step, query, made, cursor, size, rebound, drawn, approved, clean, timed,
          docs, files, failed, indexed, exit>>

\* Mutated forms of Entry: the index counts from one; the cursor stops at the end.
EntryFromOne(q, k) == ((cursor[q] + k) % size[q]) + 1
EntryClamped(q, k) == IF cursor[q] + k < size[q] THEN cursor[q] + k ELSE size[q] - 1

\* The pool entry k draws after the cursor.
Entry(q, k) == (cursor[q] + k) % size[q]

\* A write is checked once, a read on as many draws as asked and as there are.
Samples(q) ==
  IF q \in Writes THEN 1
  ELSE IF size[q] < Wanted[q] THEN size[q] ELSE Wanted[q]

\* The size of the pool, the entries run in the order of the schedule, and how many
\* of the first of them are warmup of the open model and not measured.
NotTimed == [pool |-> 1, ran |-> <<>>, warm |-> 0]

Init ==
  /\ asked \in Asked
  /\ eng = 1 /\ step = "load"
  /\ query = 1 /\ made = 0
  /\ cursor = [q \in Query |-> 0]
  /\ size = GenericSize
  /\ rebound = {}
  /\ drawn = [q \in Query |-> {}]
  /\ approved = {} /\ clean = TRUE
  /\ timed = [e \in Engine |-> [q \in Query |-> NotTimed]]
  /\ docs = {} /\ files = {} /\ failed = 0
  /\ indexed = FALSE
  /\ exit = "none"

-----------------------------------------------------------------------------
(* One engine's run.                                                       *)

\* Mutated form of RunFails: the failure is not counted.
RunFailsUncounted ==
  /\ eng \in Engine /\ exit = "none"
  /\ step # "write"
  /\ eng' = eng + 1 /\ step' = "load"
  /\ UNCHANGED <<asked, query, made, cursor, source, drawn, approved, clean, timed, docs,
                 files, failed, indexed, exit>>

\* The error of any step of executeRun; what it drew stays drawn.
RunFails ==
  /\ eng \in Engine /\ exit = "none"
  /\ step # "write"
  /\ failed' = failed + 1
  /\ eng' = eng + 1 /\ step' = "load"
  /\ UNCHANGED <<asked, query, made, cursor, source, drawn, approved, clean, timed, docs,
                 files, indexed, exit>>

\* Mutated form of Rebind: a query that has a source keeps it.
RebindOnce ==
  /\ UNCHANGED <<cursor, size>>
  /\ rebound' = IF asked.binder THEN rebound \cup {eng} ELSE rebound

\* The queries in fresh get a new source over the family's pool.
Renew(fresh) ==
  /\ cursor' = [q \in Query |-> IF q \in fresh THEN 0 ELSE cursor[q]]
  /\ size' = [q \in Query |-> IF q \in fresh THEN FamilySize[q] ELSE size[q]]

\* bindParams. The family's binder makes a new source for every pooled query. When it
\* fails, which is a warning and nothing more, it has renewed some of them or none, and
\* the others keep the source and the cursor the engines before have left. So does every
\* query of a family without a binder: the generic path binds one that has no source.
Rebind ==
  \/ asked.binder /\ Renew(Query) /\ rebound' = rebound \cup {eng}
  \/ asked.binder /\ (\E fresh \in SUBSET Query : Renew(fresh)) /\ UNCHANGED rebound
  \/ ~asked.binder /\ UNCHANGED <<cursor, size, rebound>>

Bind ==
  /\ eng \in Engine /\ step = "load"
  /\ Rebind
  /\ query' = 1 /\ made' = 0
  /\ drawn' = [q \in Query |-> {}]
  /\ approved' = {} /\ clean' = TRUE
  /\ step' = "verify"
  /\ UNCHANGED <<asked, eng, timed, loop>>

NextQuery == query' = query + 1 /\ made' = 0

\* No text in the engine's dialects, a need it does not offer, or no pool.
Skip ==
  /\ step = "verify" /\ query \in Query
  /\ made = 0
  /\ NextQuery
  /\ UNCHANGED <<asked, eng, step, cursor, source, drawn, approved, clean, timed, loop>>

\* Mutated form of Next1: the cursor is read and not moved.
Peek(q) == UNCHANGED cursor

\* PoolSource.Next.
Next1(q) == cursor' = [cursor EXCEPT ![q] = @ + 1]

\* One more draw is answered as the oracle says, or the write has its effect.
Agrees ==
  /\ step = "verify" /\ query \in Query \ Unbound
  /\ drawn' = [drawn EXCEPT ![query] = @ \cup {Entry(query, 0)}]
  /\ Next1(query)
  /\ \/ /\ made + 1 < Samples(query)
        /\ made' = made + 1
        /\ UNCHANGED <<query, approved>>
     \/ /\ made + 1 = Samples(query)
        /\ approved' = approved \cup {query}
        /\ NextQuery
  /\ UNCHANGED <<asked, eng, step, source, clean, timed, loop>>

\* The draw is answered wrongly, or with an error: the rest are not drawn.
Differs ==
  /\ step = "verify" /\ query \in Query \ Unbound
  /\ Next1(query)
  /\ clean' = FALSE
  /\ NextQuery
  /\ UNCHANGED <<asked, eng, step, source, drawn, approved, timed, loop>>

Judge ==
  /\ step = "verify" /\ query > NumQueries
  /\ step' = IF clean /\ approved # {} THEN "measure" ELSE "write"
  /\ UNCHANGED <<asked, eng, query, made, cursor, source, drawn, approved, clean, timed, loop>>

\* How many draws of a query the schedule is built from. A mixed schedule goes round
\* its draws as often as the query's share of the slots asks, an analytics run repeats
\* its only one.
Pass(q) ==
  IF asked.shape = "plain" THEN Count[q] ELSE IF asked.shape = "mixed" THEN MixDraws ELSE 1

\* Of the schedule built from Pass(q) draws of each approved query, n[q] operations run and
\* the first warm[q] of them are not measured; extra more draws go into a warmup of its own.
Draw(n, warm, extra) ==
  /\ timed' = [timed EXCEPT ![eng] =
       [q \in Query |->
          IF q \in approved
          THEN [pool |-> size[q], warm |-> warm[q],
                ran |-> [k \in 1..n[q] |-> Entry(q, (k - 1) % Pass(q))]]
          ELSE NotTimed]]
  /\ cursor' = [q \in Query |-> IF q \in approved THEN cursor[q] + Pass(q) + extra ELSE cursor[q]]

NoneOf == [q \in Query |-> 0]

\* The budget keeps at least one operation of every query of a plain run and drops the last ones.
MeasurePlain ==
  /\ asked.shape = "plain"
  /\ \E n \in Dispatched :
       /\ \A q \in Query : n[q] \in 1..Count[q]
       /\ Draw(n, NoneOf, 1)

\* The shares follow the weights of the approved queries and may be nothing; an open-model
\* schedule has a warmup in front and ends early when the run is cancelled.
MeasureMixed ==
  /\ asked.shape = "mixed"
  /\ \E n \in Dispatched, warm \in Dispatched \cup {NoneOf} :
       /\ \A q \in Query : warm[q] <= n[q]
       /\ asked.open \/ warm = NoneOf
       /\ Draw(n, warm, 0)

\* The profile may discard the first repetition.
MeasureAnalytics ==
  /\ asked.shape = "analytics"
  /\ \E discard \in {0, 1} : Draw([q \in Query |-> Reps], [q \in Query |-> discard], 0)

Measure ==
  /\ step = "measure"
  /\ MeasurePlain \/ MeasureMixed \/ MeasureAnalytics
  /\ \/ step' = "write"
     \/ asked.cold /\ asked.shape = "plain" /\ step' = "cold"
  /\ UNCHANGED <<asked, eng, query, made, source, drawn, approved, clean, loop>>

\* The cold pass of a persistent engine, one draw of each approved query.
ColdPass ==
  /\ step = "cold"
  /\ cursor' = [q \in Query |-> IF q \in approved THEN cursor[q] + 1 ELSE cursor[q]]
  /\ step' = "write"
  /\ UNCHANGED <<asked, eng, query, made, source, drawn, approved, clean, timed, loop>>

\* report.Write, whose error is printed and nothing more.
Document ==
  /\ step = "write"
  /\ docs' = docs \cup {eng}
  /\ \/ ~asked.focused /\ files' = files \cup {eng}
     \/ UNCHANGED files
  /\ eng' = eng + 1 /\ step' = "load"
  /\ UNCHANGED <<asked, query, made, cursor, source, drawn, approved, clean, timed, failed,
                 indexed, exit>>

-----------------------------------------------------------------------------
(* After the last engine.                                                  *)

NoResult ==
  /\ eng > NumEngines /\ exit = "none"
  /\ docs = {}
  /\ exit' = "noResult"
  /\ UNCHANGED <<asked, eng, step, query, made, cursor, source, drawn, approved, clean, timed,
                 docs, files, failed, indexed>>

\* The index, whose error is printed and nothing more, and the verdict.
Finish ==
  /\ eng > NumEngines /\ exit = "none"
  /\ docs # {}
  /\ indexed' \in {FALSE, asked.publish}
  /\ exit' = IF failed > 0 THEN "enginesFailed" ELSE "ok"
  /\ UNCHANGED <<asked, eng, step, query, made, cursor, source, drawn, approved, clean, timed,
                 docs, files, failed>>

Next ==
  \/ RunFails \/ Bind \/ Skip \/ Agrees \/ Differs \/ Judge
  \/ Measure \/ ColdPass \/ Document \/ NoResult \/ Finish

Spec == Init /\ [][Next]_vars

-----------------------------------------------------------------------------
(* Properties.                                                             *)

\* The variables hold what the verb, the gate and the sources put in them.
TypeOK ==
  /\ asked \in Asked
  /\ eng \in 1..NumEngines + 1
  /\ step \in {"load", "verify", "measure", "cold", "write"}
  /\ query \in 1..NumQueries + 1 /\ made \in Nat
  /\ cursor \in [Query -> Nat]
  /\ size \in [Query -> Nat \ {0}] /\ rebound \subseteq Engine
  /\ \A q \in Query : drawn[q] \subseteq 0..size[q] - 1
  /\ approved \subseteq Query \ Unbound /\ clean \in BOOLEAN
  /\ \A e \in Engine, q \in Query :
       /\ timed[e][q].warm \in Nat
       /\ \A k \in DOMAIN timed[e][q].ran : timed[e][q].ran[k] \in 0..timed[e][q].pool - 1
  /\ docs \subseteq Engine /\ files \subseteq docs
  /\ failed \in Nat /\ indexed \in BOOLEAN
  /\ exit \in {"none", "noResult", "enginesFailed", "ok"}

\* As far as the schedules of both went, e and f were run on the same bindings in the
\* same order.
RanAlike(e, f) ==
  \A q \in Query :
    \A k \in DOMAIN timed[e][q].ran \cap DOMAIN timed[f][q].ran :
      timed[e][q].ran[k] = timed[f][q].ran[k]

\* "Every engine sees the identical sequence" (workload/workload.go) holds of the engines
\* for which the family's binder worked, whatever happened to the engines before and
\* between: a failed draw, a skipped query, a binder that failed, a run broken off in the
\* middle, a cold pass.
BinderSameDraws == \A e, f \in rebound : RanAlike(e, f)

\* verifyRead asks for min(sample, pool) draws so that each is a binding not yet
\* compared: an approved query was compared on that many different bindings,
\* wherever the engines before had left its cursor.
ComparedBreadth == \A q \in approved : Cardinality(drawn[q]) = Samples(q)

\* The measured places of what was run.
Measured(e, q) == (timed[e][q].warm + 1)..Len(timed[e][q].ran)

Times(e, q, entry) == Cardinality({k \in Measured(e, q) : timed[e][q].ran[k] = entry})

\* The passes over the draws that the measured places belong to.
Passes(e, q) == {(k - 1) \div Pass(q) : k \in Measured(e, q)}

\* Next cycles and so does the schedule: no binding is measured more often than another
\* by more than once for every pass over the draws, and by no more than once at all when
\* the pool goes evenly into the draws of a pass.
EvenTiming ==
  \A e \in Engine, q \in Query :
    \A x, y \in 0..timed[e][q].pool - 1 :
      /\ Times(e, q, x) <= Times(e, q, y) + Cardinality(Passes(e, q))
      /\ Pass(q) % timed[e][q].pool = 0 => Times(e, q, x) <= Times(e, q, y) + 1

\* Every engine so far has a document or was counted as failed, and the command
\* says ok only when every engine asked for is in the matrix.
ExitTellsAll ==
  /\ failed + Cardinality(docs) = eng - 1
  /\ (exit = "ok") <=> (exit # "none" /\ docs = Engine)
  /\ exit = "noResult" => docs = {}

-----------------------------------------------------------------------------
(* What the comment says of every engine and the code does not give.       *)

\* A family without a binder, or one whose binder fails, leaves the cursor where the
\* engines before have left it.
SameDraws == \A e, f \in Engine : RanAlike(e, f)
=============================================================================
