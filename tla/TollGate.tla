------------------------------ MODULE TollGate -------------------------------
(***************************************************************************)
(* verify.Run (verify/verify.go): the toll gate every query passes before  *)
(* it is timed. Reads are compared with an oracle over several parameter   *)
(* draws; a write is staged, executed, checked by a post-condition or by   *)
(* its own rows, and torn down.                                            *)
(*                                                                         *)
(* An answer is either right or wrong. The graph is the set of writes      *)
(* whose scratch rows are in the store, and a read of a store that holds   *)
(* any may come back wrong with nothing wrong with the engine. A write     *)
(* with no teardown leaves no rows: the registry's only one assigns a      *)
(* property to itself.                                                     *)
(***************************************************************************)
EXTENDS Integers, FiniteSets

CONSTANTS
  NumQueries,   \* len(w.Queries); a query is its place in the workload
  Writes,       \* the queries of class Write
  Needs,        \* what each query needs of the engine
  Offers,       \* what the engine's Info declares
  Draws,        \* how many parameter draws a read is checked on
  HasSetup,     \* writes with a setup text in the resolved dialect
  HasTeardown,  \* writes with a teardown text in the resolved dialect
  Checked,      \* writes with a post-condition in the resolved dialect
  Telling,      \* those whose post-condition only the write makes true
  Referenced,   \* writes whose own rows are compared with an oracle
  MayCancel,    \* the run may be interrupted
  Faults        \* what may go wrong under a live context

Query == 1..NumQueries

\* Path predicates, shortest paths, transactions (a write that is not
\* AutocommitOK), a text in one of the engine's dialects: the order they are asked in.
Features == {"path-predicates", "shortest-paths", "transactions", "dialect-text"}

FaultKinds == {"setup", "exec", "answer", "commit", "oracle", "check", "teardown"}

ASSUME TollGateAssumption ==
  /\ NumQueries \in Nat
  /\ Writes \subseteq Query
  /\ Needs \in [Query -> SUBSET Features]
  /\ Offers \subseteq Features
  /\ Draws \in [Query -> Nat \ {0}]
  /\ HasTeardown \subseteq Writes
  /\ HasSetup \subseteq HasTeardown
  /\ Checked \subseteq Writes
  /\ Telling \subseteq Checked
  /\ Referenced \subseteq Writes
  /\ MayCancel \in BOOLEAN
  /\ Faults \subseteq FaultKinds

VARIABLES
  query,      \* the query under verification
  at,         \* the step it is at
  outcome,    \* rep so far: its Outcome, or the poisoned reason
  samples,    \* rep.Samples so far
  reports,    \* the outcome of each reported query
  approved,   \* plan.Approved
  poisoned,   \* plan.Poisoned
  result,     \* what Run returned: nothing yet, the plan, or an error
  cancelled,  \* the context is done
  graph,      \* writes with scratch rows in the store
  landed,     \* writes whose effect is in the store
  wrong,      \* history: queries the engine answered wrongly or failed
  lost        \* history: writes that had no effect when a telling check asked

plan == <<reports, approved, poisoned>>
store == <<graph, landed>>
past == <<wrong, lost>>
vars == <<query, at, outcome, samples, reports, approved, poisoned, result,
          cancelled, graph, landed, wrong, lost>>

Outcomes == {"PASS", "FAIL", "SKIP"}

\* poisonedReason: a FAIL that says the graph is no longer what it was.
Poison == "teardown-failed"

Steps == {"judge", "read", "setup", "exec", "check", "teardown", "report",
          "decide", "returned"}

\* The engine cannot be asked this query.
Skipped(q) == ~(Needs[q] \subseteq Offers)

Fails(kind) == cancelled \/ kind \in Faults

\* A failure the run's own cancellation does not explain is the engine's.
Blame(kind) ==
  \/ kind \in Faults /\ wrong' = wrong \cup {query}
  \/ cancelled /\ UNCHANGED wrong

Init ==
  /\ query = 1
  /\ at = "judge"
  /\ outcome = "none"
  /\ samples = 0
  /\ reports = [q \in Query |-> "none"]
  /\ approved = {}
  /\ poisoned = FALSE
  /\ result = "none"
  /\ cancelled = FALSE
  /\ graph = {}
  /\ landed = {}
  /\ wrong = {}
  /\ lost = {}

\* The report of this query is filed with this outcome.
Conclude(verdict) == outcome' = verdict /\ at' = "report"

-----------------------------------------------------------------------------
(* The static filter.                                                      *)

Judge ==
  /\ at = "judge" /\ query \in Query
  /\ IF Skipped(query)
     THEN Conclude("SKIP")
     ELSE /\ at' = IF query \notin Writes THEN "read"
                   ELSE IF query \in HasSetup THEN "setup" ELSE "exec"
          /\ UNCHANGED outcome
  /\ UNCHANGED <<query, samples, result, cancelled>>
  /\ UNCHANGED plan /\ UNCHANGED store /\ UNCHANGED past

-----------------------------------------------------------------------------
(* Reads.                                                                  *)

\* One more draw agrees with the oracle; the last one makes it a PASS.
DrawAgrees ==
  /\ at = "read"
  /\ samples' = samples + 1
  /\ IF samples + 1 = Draws[query] THEN Conclude("PASS") ELSE UNCHANGED <<outcome, at>>
  /\ UNCHANGED <<query, result, cancelled>>
  /\ UNCHANGED plan /\ UNCHANGED store /\ UNCHANGED past

\* Mutated form: a mismatch on a later draw is outvoted by the draws before it.
DrawOutvoted ==
  /\ at = "read"
  /\ \/ "answer" \in Faults /\ wrong' = wrong \cup {query}
     \/ graph # {} /\ UNCHANGED wrong
  /\ Conclude(IF samples > 0 THEN "PASS" ELSE "FAIL")
  /\ UNCHANGED <<query, samples, result, cancelled, lost>>
  /\ UNCHANGED plan /\ UNCHANGED store

\* The answer is not the oracle's, because the engine is wrong or because a
\* write left rows behind.
DrawDiffers ==
  /\ at = "read"
  /\ \/ "answer" \in Faults /\ wrong' = wrong \cup {query}
     \/ graph # {} /\ UNCHANGED wrong
  /\ Conclude("FAIL")
  /\ UNCHANGED <<query, samples, result, cancelled, lost>>
  /\ UNCHANGED plan /\ UNCHANGED store

\* Exec or its stream returns an error.
DrawFails ==
  /\ at = "read"
  /\ Blame("exec")
  /\ Conclude("FAIL")
  /\ UNCHANGED <<query, samples, result, cancelled, lost>>
  /\ UNCHANGED plan /\ UNCHANGED store

\* The reference cannot compute what to expect: nothing the engine did.
OracleFails ==
  /\ at = "read" \/ (at = "check" /\ query \in Referenced \ Checked)
  /\ "oracle" \in Faults
  /\ IF at = "read" THEN Conclude("FAIL") ELSE outcome' = "FAIL" /\ at' = "teardown"
  /\ UNCHANGED <<query, samples, result, cancelled>>
  /\ UNCHANGED plan /\ UNCHANGED store /\ UNCHANGED past

-----------------------------------------------------------------------------
(* Writes.                                                                 *)

\* Mutated form: a write with nothing to tear down leaves rows too.
LeavesUnbracketed(effect) ==
  /\ graph' = graph \cup effect
  /\ landed' = landed \cup effect

\* What a write of the current query puts in the store, if it has an effect.
Leaves(effect) ==
  /\ graph' = graph \cup (effect \cap HasTeardown)
  /\ landed' = landed \cup effect

SetupOk ==
  /\ at = "setup"
  /\ graph' = graph \cup {query}
  /\ at' = "exec"
  /\ UNCHANGED <<query, outcome, samples, result, cancelled, landed>>
  /\ UNCHANGED plan /\ UNCHANGED past

\* A failed setup is reported at once: its teardown never runs.
SetupFails ==
  /\ at = "setup"
  /\ Blame("setup")
  /\ graph' \in {graph, graph \cup {query}}
  /\ Conclude("FAIL")
  /\ UNCHANGED <<query, samples, result, cancelled, landed, lost>>
  /\ UNCHANGED plan

WriteOk ==
  /\ at = "exec"
  /\ Leaves({query})
  /\ at' = "check"
  /\ UNCHANGED <<query, outcome, samples, result, cancelled>>
  /\ UNCHANGED plan /\ UNCHANGED past

\* Exec and the stream work but Close, which execToAnswer does not ask, could not commit.
WriteUncommitted ==
  /\ at = "exec"
  /\ Fails("commit")
  /\ Leaves({})
  /\ at' = "check"
  /\ UNCHANGED <<query, outcome, samples, result, cancelled>>
  /\ UNCHANGED plan /\ UNCHANGED past

\* Exec returns an error, with or without an effect: no check, but still the teardown.
WriteFails ==
  /\ at = "exec"
  /\ Blame("exec")
  /\ \E effect \in {{}, {query}} : Leaves(effect)
  /\ outcome' = "FAIL"
  /\ at' = "teardown"
  /\ UNCHANGED <<query, samples, result, cancelled, lost>>
  /\ UNCHANGED plan

\* A telling check meets a store the write has not reached.
Note == lost' = IF query \in Telling \ landed THEN lost \cup {query} ELSE lost

\* Comparing a write's own rows executes the write a second time.
Again == IF query \in Referenced \ Checked THEN Leaves({query}) ELSE UNCHANGED store

\* Mutated form: any row at all satisfies the post-condition.
CheckAnyRow ==
  /\ at = "check"
  /\ Note
  /\ outcome' = "PASS"
  /\ samples' = 1
  /\ at' = "teardown"
  /\ UNCHANGED <<query, result, cancelled, wrong>>
  /\ UNCHANGED plan /\ UNCHANGED store

\* The post-condition returns one row that says true, the write's rows are
\* the oracle's, or there is nothing to check.
CheckHolds ==
  /\ at = "check"
  /\ query \in Telling => query \in landed
  /\ Note
  /\ Again
  /\ outcome' = "PASS"
  /\ samples' = 1
  /\ at' = "teardown"
  /\ UNCHANGED <<query, result, cancelled, wrong>>
  /\ UNCHANGED plan

\* The check says no: the effect is missing, or the engine answers wrongly.
CheckDenies ==
  /\ at = "check"
  /\ query \in Checked \cup Referenced
  /\ \/ "answer" \in Faults
     \/ query \in Telling \ landed
  /\ wrong' = wrong \cup {query}
  /\ Note
  /\ Again
  /\ outcome' = "FAIL"
  /\ at' = "teardown"
  /\ UNCHANGED <<query, samples, result, cancelled>>
  /\ UNCHANGED plan

\* The check itself returns an error.
CheckFails ==
  /\ at = "check"
  /\ query \in Checked \cup Referenced
  /\ Blame("check")
  /\ Note
  /\ Again \/ UNCHANGED store
  /\ outcome' = "FAIL"
  /\ at' = "teardown"
  /\ UNCHANGED <<query, samples, result, cancelled>>
  /\ UNCHANGED plan

TeardownOk ==
  /\ at = "teardown" /\ query \in HasTeardown
  /\ graph' = graph \ {query}
  /\ landed' = landed \ {query}
  /\ at' = "report"
  /\ UNCHANGED <<query, outcome, samples, result, cancelled>>
  /\ UNCHANGED plan /\ UNCHANGED past

NoTeardown ==
  /\ at = "teardown" /\ query \notin HasTeardown
  /\ at' = "report"
  /\ UNCHANGED <<query, outcome, samples, result, cancelled>>
  /\ UNCHANGED plan /\ UNCHANGED store /\ UNCHANGED past

\* Mutated form: the error of a teardown is dropped, as the runner drops it.
TeardownErrorDropped ==
  /\ at = "teardown" /\ query \in HasTeardown
  /\ Blame("teardown")
  /\ at' = "report"
  /\ UNCHANGED <<query, outcome, samples, result, cancelled, lost>>
  /\ UNCHANGED plan /\ UNCHANGED store

\* A failed teardown, which may have removed the rows or not, poisons the plan.
TeardownFails ==
  /\ at = "teardown" /\ query \in HasTeardown
  /\ Blame("teardown")
  /\ graph' \in {graph, graph \ {query}}
  /\ Conclude(Poison)
  /\ UNCHANGED <<query, samples, result, cancelled, landed, lost>>
  /\ UNCHANGED plan

-----------------------------------------------------------------------------
(* The loop of Run.                                                        *)

Report ==
  /\ at = "report"
  /\ reports' = [reports EXCEPT ![query] = IF outcome = Poison THEN "FAIL" ELSE outcome]
  /\ approved' = IF outcome = "PASS" THEN approved \cup {query} ELSE approved
  /\ poisoned' = (poisoned \/ outcome = Poison)
  /\ at' = "decide"
  /\ UNCHANGED <<query, outcome, samples, result, cancelled>>
  /\ UNCHANGED store /\ UNCHANGED past

Advance ==
  /\ query' = query + 1
  /\ at' = "judge"
  /\ outcome' = "none"
  /\ samples' = 0
  /\ UNCHANGED result

Stop(returns) ==
  /\ at' = "returned"
  /\ result' = returns
  /\ UNCHANGED <<query, outcome, samples>>

\* Mutated form: a poisoned plan goes on to the next query.
DecideUnpoisoned ==
  /\ at = "decide"
  /\ IF cancelled THEN Stop("error") ELSE Advance
  /\ UNCHANGED cancelled /\ UNCHANGED plan /\ UNCHANGED store /\ UNCHANGED past

\* Poison leaves the loop before the context is looked at.
Decide ==
  /\ at = "decide"
  /\ \/ poisoned /\ Stop("plan")
     \/ ~poisoned /\ cancelled /\ Stop("error")
     \/ ~poisoned /\ ~cancelled /\ Advance
  /\ UNCHANGED cancelled /\ UNCHANGED plan /\ UNCHANGED store /\ UNCHANGED past

EndOfWorkload ==
  /\ at = "judge" /\ query > NumQueries
  /\ Stop("plan")
  /\ UNCHANGED cancelled /\ UNCHANGED plan /\ UNCHANGED store /\ UNCHANGED past

Interrupt ==
  /\ MayCancel /\ ~cancelled /\ at # "returned"
  /\ cancelled' = TRUE
  /\ UNCHANGED <<query, at, outcome, samples, result>>
  /\ UNCHANGED plan /\ UNCHANGED store /\ UNCHANGED past

Read == DrawAgrees \/ DrawDiffers \/ DrawFails
Write ==
  \/ SetupOk \/ SetupFails
  \/ WriteOk \/ WriteUncommitted \/ WriteFails
  \/ CheckHolds \/ CheckDenies \/ CheckFails
  \/ TeardownOk \/ NoTeardown \/ TeardownFails
Loop == Judge \/ Report \/ Decide \/ EndOfWorkload

Next == Read \/ OracleFails \/ Write \/ Loop \/ Interrupt

Spec == Init /\ [][Next]_vars

-----------------------------------------------------------------------------
(* Properties.                                                             *)

\* The variables stay in their types.
TypeOK ==
  /\ query \in 1..(NumQueries + 1)
  /\ at \in Steps
  /\ outcome \in Outcomes \cup {"none", Poison}
  /\ samples \in Nat
  /\ reports \in [Query -> Outcomes \cup {"none"}]
  /\ approved \subseteq Query
  /\ poisoned \in BOOLEAN
  /\ result \in {"none", "plan", "error"}
  /\ cancelled \in BOOLEAN
  /\ graph \subseteq HasTeardown
  /\ landed \subseteq Writes
  /\ wrong \subseteq Query
  /\ lost \subseteq Writes

\* "A fake PASS is not" respectable (verify.go, Outcome): no query is cleared
\* for timing if the engine gave one wrong answer or error on any of its draws,
\* or if its write had no effect that its post-condition can tell.
ApprovedEarned == approved \cap (wrong \cup lost) = {}

\* Between two queries every scratch row left in the store belongs to a write
\* whose own report says FAIL, so a plan with no FAIL hands the measurement a
\* clean graph, and a PASS was never earned by leaving rows behind.
ResidueIsReported ==
  at \in {"judge", "decide", "returned"} => \A q \in graph : reports[q] = "FAIL"

\* "A poisoned teardown stops further writes" (verify.go, Run): once a plan is
\* poisoned nothing reaches the store and no verdict is added.
NothingAfterPoison ==
  [][poisoned => UNCHANGED <<graph, landed, reports, approved>>]_vars

-----------------------------------------------------------------------------
(* What the comments say and the code does not do.                         *)

\* "Fail means an answer mismatch or an execution error on a query the engine
\* claimed" (verify.go, Outcome): a FAIL in a plan is something the engine did,
\* not the interruption of the run.
FailBlamesEngine ==
  result = "plan" => \A q \in Query : reports[q] = "FAIL" => q \in wrong
=============================================================================
