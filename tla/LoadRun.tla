------------------------------- MODULE LoadRun -------------------------------
(***************************************************************************)
(* measure.Run (measure/run.go): the load generator that every published   *)
(* latency comes from. One dispatcher walks the schedule; each dispatched  *)
(* operation is a goroutine that holds a slot of the client pool, brackets *)
(* a write between an untimed Setup and Teardown under its query's mutex,  *)
(* and records one Sample.                                                 *)
(*                                                                         *)
(* Time is abstract. A per-operation deadline, the run context and a       *)
(* query's budget are flags the environment may raise at any moment, and   *)
(* the code is asked to be right for every moment. In the open model       *)
(* (Rate > 0) an arrival is a step the dispatcher takes whenever it likes. *)
(*                                                                         *)
(* The graph is abstract too: for each bracketed query it is the rows that *)
(* repetitions have in the store, each with its owner and with whether     *)
(* Setup staged it or the write left it. Teardown's text deletes by the    *)
(* literal scratch ids, whoever owns the rows. Most texts delete whatever  *)
(* they find. The one of snb-iu6 is a single MATCH of the staged and the   *)
(* written rows together, which finds nothing, and deletes nothing without *)
(* an error, when one of them is missing.                                  *)
(***************************************************************************)
EXTENDS Integers, FiniteSets

CONSTANTS
  NumOps,       \* len(ops)
  Queries,      \* the QueryIDs of the schedule
  QueryOf,      \* the QueryID of each op
  Bracketed,    \* the keys of Options.Brackets; each has a Teardown text
  Staged,       \* the bracketed queries that also have a Setup text
  Joined,       \* those whose Teardown is one MATCH of staged and written rows
  Concurrency,  \* Options.Concurrency, which may be zero or negative
  OpenModel,    \* Options.Rate > 0
  WarmupOps,    \* how many ops have Offset < Options.Warmup
  Budgeted,     \* Options.Budget > 0
  MayExpire,    \* the per-query deadlines are short enough to pass
  MayCancel,    \* the run's context may be cancelled
  Faults        \* which statements the engine may fail under a live context

Ops == 1..NumOps
NoOp == 0

FaultKinds == {"setup", "exec", "stream", "teardown"}

ASSUME LoadRunAssumption ==
  /\ NumOps \in Nat
  /\ QueryOf \in [Ops -> Queries]
  /\ Bracketed \subseteq Queries
  /\ Staged \subseteq Bracketed
  /\ Joined \subseteq Staged
  /\ Concurrency \in Int
  /\ OpenModel \in BOOLEAN
  /\ WarmupOps \in 0..NumOps
  \* Without a rate every Offset is 0, so Warmup covers all of them or none.
  /\ ~OpenModel => WarmupOps \in {0, NumOps}
  /\ Budgeted \in BOOLEAN
  /\ MayExpire \in BOOLEAN
  /\ MayCancel \in BOOLEAN
  /\ Faults \subseteq FaultKinds

VARIABLES
  next,       \* the op the dispatcher's loop is at
  dpc,        \* where the dispatcher is
  pc,         \* where each op's goroutine is
  free,       \* tokens in the pool's channel
  gate,       \* who holds each bracketed query's mutex
  began,      \* queries in the began map
  spent,      \* queries whose budget has run out
  measured,   \* ops with measured[i] set
  sample,     \* samples[i]: nothing yet, a completion or an error
  cancelled,  \* the run's context is done
  expired,    \* ops whose deadline has passed
  graph,      \* per bracketed query, the rows its repetitions have in the store
  abandoned,  \* history: repetitions whose Setup or Teardown failed
  broken,     \* history: ops whose stream or Close failed after Exec returned
  lost        \* history: ops of joined queries whose write failed and left no row

loop == <<next, dpc, began, measured>>
env == <<cancelled, expired, spent>>
store == <<graph, abandoned, broken, lost>>
vars == <<next, dpc, pc, free, gate, began, spent, measured, sample,
          cancelled, expired, graph, abandoned, broken, lost>>

\* newPool never makes an empty pool.
Slots == IF Concurrency <= 0 THEN 1 ELSE Concurrency

Warm(i) == i <= WarmupOps
IsBracketed(i) == QueryOf[i] \in Bracketed

\* The run context covers the op's own: either ends what the op sees.
Dead(i) == cancelled \/ i \in expired

\* A statement may fail because its context is done or because the engine failed it.
MayFail(i, kind) == Dead(i) \/ kind \in Faults

DispatcherPCs == {"arrive", "admit", "drain", "returned"}
Unstarted == {"idle", "dropped", "queued"}
InBracket == {"staging", "exec", "recorded", "unlocking"}
Holding == {"admitted", "staging", "exec", "recorded", "unlocking", "leaving"}
WorkerPCs == Unstarted \cup Holding \cup {"done"}

RowKinds == {"staged", "written"}

\* Ops that hold a token of the pool.
Holders == {i \in Ops : pc[i] \in Holding}

Init ==
  /\ next = 1
  /\ dpc = "arrive"
  /\ pc = [i \in Ops |-> "idle"]
  /\ free = Slots
  /\ gate = [q \in Bracketed |-> NoOp]
  /\ began = {}
  /\ spent = {}
  /\ measured = {}
  /\ sample = [i \in Ops |-> "none"]
  /\ cancelled = FALSE
  /\ expired = {}
  /\ graph = [q \in Bracketed |-> {}]
  /\ abandoned = {}
  /\ broken = {}
  /\ lost = {}

-----------------------------------------------------------------------------
(* The dispatcher.                                                         *)

\* An op that is launched is measured unless it falls in the warmup window.
Launch(to) ==
  /\ pc' = [pc EXCEPT ![next] = to]
  /\ measured' = IF Warm(next) THEN measured ELSE measured \cup {next}
  /\ next' = next + 1

\* Open model: the arrival is due, or the loop is behind schedule and does not wait.
OpenArrive ==
  /\ OpenModel /\ dpc = "arrive" /\ next \in Ops
  /\ Launch("queued")
  /\ UNCHANGED <<dpc, free, gate, began, sample>> /\ UNCHANGED env /\ UNCHANGED store

\* Open model: the context ends while the loop waits for the arrival. Count
\* mode never waits, so it never looks at the context.
StopDispatch ==
  /\ OpenModel /\ dpc = "arrive" /\ next \in Ops
  /\ cancelled
  /\ dpc' = "drain"
  /\ UNCHANGED <<next, pc, free, gate, began, measured, sample>>
  /\ UNCHANGED env /\ UNCHANGED store

\* Mutated form: one budget for the whole run.
OverRunBudget(q) == Budgeted /\ q \in Queries /\ spent # {}

\* The query has been dispatching for its Budget.
OverBudget(q) == Budgeted /\ q \in began /\ q \in spent

\* Count mode: the repetition is dropped, so its op never runs.
Drop ==
  /\ ~OpenModel /\ dpc = "arrive" /\ next \in Ops
  /\ OverBudget(QueryOf[next])
  /\ pc' = [pc EXCEPT ![next] = "dropped"]
  /\ next' = next + 1
  /\ UNCHANGED <<dpc, free, gate, began, measured, sample>>
  /\ UNCHANGED env /\ UNCHANGED store

\* Count mode: the clock of the query starts at its first repetition, before the slot is free.
Consider ==
  /\ ~OpenModel /\ dpc = "arrive" /\ next \in Ops
  /\ ~OverBudget(QueryOf[next])
  /\ began' = IF Budgeted THEN began \cup {QueryOf[next]} ELSE began
  /\ dpc' = "admit"
  /\ UNCHANGED <<next, pc, free, gate, measured, sample>>
  /\ UNCHANGED env /\ UNCHANGED store

\* Mutated form: the count-mode dispatcher starts the goroutine without p.acquire.
AdmitWithoutSlot ==
  /\ dpc = "admit"
  /\ Launch("admitted")
  /\ dpc' = "arrive"
  /\ UNCHANGED <<free, gate, began, sample>> /\ UNCHANGED env /\ UNCHANGED store

\* Count mode: the dispatcher itself takes the slot, then starts the goroutine.
Admit ==
  /\ dpc = "admit"
  /\ free > 0
  /\ free' = free - 1
  /\ Launch("admitted")
  /\ dpc' = "arrive"
  /\ UNCHANGED <<gate, began, sample>> /\ UNCHANGED env /\ UNCHANGED store

EndOfSchedule ==
  /\ dpc = "arrive" /\ next > NumOps
  /\ dpc' = "drain"
  /\ UNCHANGED <<next, pc, free, gate, began, measured, sample>>
  /\ UNCHANGED env /\ UNCHANGED store

\* Mutated form: a wg.Add that comes after the go statement counts only started goroutines.
ReturnBeforeQueued ==
  /\ dpc = "drain"
  /\ \A i \in Ops : pc[i] \in {"idle", "dropped", "queued", "admitted", "done"}
  /\ dpc' = "returned"
  /\ UNCHANGED <<next, pc, free, gate, began, measured, sample>>
  /\ UNCHANGED env /\ UNCHANGED store

\* wg.Wait, after which the measured samples are summarised.
Return ==
  /\ dpc = "drain"
  /\ \A i \in Ops : pc[i] \in {"idle", "dropped", "done"}
  /\ dpc' = "returned"
  /\ UNCHANGED <<next, pc, free, gate, began, measured, sample>>
  /\ UNCHANGED env /\ UNCHANGED store

Dispatcher ==
  OpenArrive \/ StopDispatch \/ Drop \/ Consider \/ Admit \/ EndOfSchedule \/ Return

-----------------------------------------------------------------------------
(* One op's goroutine.                                                     *)

\* Mutated form: the goroutine of an open-model run forgets p.acquire.
AcquireNothing(i) ==
  /\ pc[i] = "queued"
  /\ pc' = [pc EXCEPT ![i] = "admitted"]
  /\ UNCHANGED <<free, gate, sample>> /\ UNCHANGED loop /\ UNCHANGED env /\ UNCHANGED store

\* Open model: the goroutine takes its own slot; its deadline starts here.
Acquire(i) ==
  /\ pc[i] = "queued"
  /\ free > 0
  /\ free' = free - 1
  /\ pc' = [pc EXCEPT ![i] = "admitted"]
  /\ UNCHANGED <<gate, sample>> /\ UNCHANGED loop /\ UNCHANGED env /\ UNCHANGED store

\* Mutated form: a mutex made per operation excludes nobody.
LockOwn(i) ==
  /\ pc[i] = "admitted"
  /\ IsBracketed(i)
  /\ gate' = [gate EXCEPT ![QueryOf[i]] = i]
  /\ pc' = [pc EXCEPT ![i] = "staging"]
  /\ UNCHANGED <<free, sample>> /\ UNCHANGED loop /\ UNCHANGED env /\ UNCHANGED store

\* A bracketed op waits for its query's mutex with the slot and the running deadline in hand.
Lock(i) ==
  /\ pc[i] = "admitted"
  /\ IsBracketed(i)
  /\ gate[QueryOf[i]] = NoOp
  /\ gate' = [gate EXCEPT ![QueryOf[i]] = i]
  /\ pc' = [pc EXCEPT ![i] = "staging"]
  /\ UNCHANGED <<free, sample>> /\ UNCHANGED loop /\ UNCHANGED env /\ UNCHANGED store

\* An op with no bracket goes straight to the engine.
Bare(i) ==
  /\ pc[i] = "admitted"
  /\ ~IsBracketed(i)
  /\ pc' = [pc EXCEPT ![i] = "exec"]
  /\ UNCHANGED <<free, gate, sample>> /\ UNCHANGED loop /\ UNCHANGED env /\ UNCHANGED store

\* Setup works; an empty text stages nothing.
SetupOk(i) ==
  /\ pc[i] = "staging"
  /\ pc' = [pc EXCEPT ![i] = "exec"]
  /\ graph' = IF QueryOf[i] \in Staged
              THEN [graph EXCEPT ![QueryOf[i]] = @ \cup {<<i, "staged">>}] ELSE graph
  /\ UNCHANGED <<free, gate, sample, abandoned, broken, lost>>
  /\ UNCHANGED loop /\ UNCHANGED env

\* The sample of a measured op; a warmup op records nothing.
Record(i, outcome) ==
  sample' = IF Warm(i) THEN sample ELSE [sample EXCEPT ![i] = outcome]

\* Setup fails, with or without its rows in the store: no write, and no Teardown either.
SetupFails(i) ==
  /\ pc[i] = "staging"
  /\ QueryOf[i] \in Staged
  /\ MayFail(i, "setup")
  /\ Record(i, "err")
  /\ \E rows \in {{}, {<<i, "staged">>}} :
       graph' = [graph EXCEPT ![QueryOf[i]] = @ \cup rows]
  /\ abandoned' = abandoned \cup {i}
  /\ pc' = [pc EXCEPT ![i] = "unlocking"]
  /\ UNCHANGED <<free, gate, broken, lost>> /\ UNCHANGED loop /\ UNCHANGED env

\* The row a write leaves; reads and unbracketed writes leave none that anyone restores.
OneWrite(i) ==
  /\ graph' = IF IsBracketed(i)
              THEN [graph EXCEPT ![QueryOf[i]] = @ \cup {<<i, "written">>}] ELSE graph
  /\ lost' = lost

\* A failed statement may have had no effect.
NoWrite(i) ==
  /\ graph' = graph
  /\ lost' = IF QueryOf[i] \in Joined THEN lost \cup {i} ELSE lost

AfterExec(i) == IF IsBracketed(i) THEN "recorded" ELSE "leaving"

\* The timed statement: Exec and the drain of its rows both work.
ExecOk(i) ==
  /\ pc[i] = "exec"
  /\ OneWrite(i)
  /\ Record(i, "ok")
  /\ pc' = [pc EXCEPT ![i] = AfterExec(i)]
  /\ UNCHANGED <<free, gate, abandoned, broken>> /\ UNCHANGED loop /\ UNCHANGED env

\* Exec returns an error, with or without an effect in the store.
ExecFails(i) ==
  /\ pc[i] = "exec"
  /\ MayFail(i, "exec")
  /\ OneWrite(i) \/ NoWrite(i)
  /\ Record(i, "err")
  /\ pc' = [pc EXCEPT ![i] = AfterExec(i)]
  /\ UNCHANGED <<free, gate, abandoned, broken>> /\ UNCHANGED loop /\ UNCHANGED env

\* Exec returns a Result whose stream or Close fails; drainAndClose asks neither.
StreamFails(i) ==
  /\ pc[i] = "exec"
  /\ MayFail(i, "stream")
  /\ OneWrite(i) \/ NoWrite(i)
  /\ Record(i, "ok")
  /\ broken' = broken \cup {i}
  /\ pc' = [pc EXCEPT ![i] = AfterExec(i)]
  /\ UNCHANGED <<free, gate, abandoned>> /\ UNCHANGED loop /\ UNCHANGED env

\* What Teardown's text finds of the rows its query has in the store.
Found(q) ==
  IF q \in Joined /\ {row[2] : row \in graph[q]} # RowKinds THEN {} ELSE graph[q]

\* Mutated form: Teardown is registered only once the write has worked.
TeardownOnSuccess(i) ==
  /\ pc[i] = "recorded"
  /\ graph' = IF sample[i] = "err" THEN graph
              ELSE [graph EXCEPT ![QueryOf[i]] = @ \ Found(QueryOf[i])]
  /\ pc' = [pc EXCEPT ![i] = "unlocking"]
  /\ UNCHANGED <<free, gate, sample, abandoned, broken, lost>>
  /\ UNCHANGED loop /\ UNCHANGED env

\* The deferred Teardown works: it deletes what it finds, which may be nothing.
TeardownOk(i) ==
  /\ pc[i] = "recorded"
  /\ graph' = [graph EXCEPT ![QueryOf[i]] = @ \ Found(QueryOf[i])]
  /\ pc' = [pc EXCEPT ![i] = "unlocking"]
  /\ UNCHANGED <<free, gate, sample, abandoned, broken, lost>>
  /\ UNCHANGED loop /\ UNCHANGED env

\* The deferred Teardown runs under the op's own context, and its error is dropped.
TeardownFails(i) ==
  /\ pc[i] = "recorded"
  /\ MayFail(i, "teardown")
  /\ \E gone \in {{}, Found(QueryOf[i])} :
       graph' = [graph EXCEPT ![QueryOf[i]] = @ \ gone]
  /\ abandoned' = abandoned \cup {i}
  /\ pc' = [pc EXCEPT ![i] = "unlocking"]
  /\ UNCHANGED <<free, gate, sample, broken, lost>>
  /\ UNCHANGED loop /\ UNCHANGED env

\* Mutated form: an op that failed returns with the mutex still locked.
UnlockUnlessErr(i) ==
  /\ pc[i] = "unlocking"
  /\ gate' = IF sample[i] = "err" THEN gate ELSE [gate EXCEPT ![QueryOf[i]] = NoOp]
  /\ pc' = [pc EXCEPT ![i] = "leaving"]
  /\ UNCHANGED <<free, sample>> /\ UNCHANGED loop /\ UNCHANGED env /\ UNCHANGED store

Unlock(i) ==
  /\ pc[i] = "unlocking"
  /\ gate' = [gate EXCEPT ![QueryOf[i]] = NoOp]
  /\ pc' = [pc EXCEPT ![i] = "leaving"]
  /\ UNCHANGED <<free, sample>> /\ UNCHANGED loop /\ UNCHANGED env /\ UNCHANGED store

\* cancel(), p.release() and wg.Done(), the last deferred calls of the goroutine.
Leave(i) ==
  /\ pc[i] = "leaving"
  /\ free' = free + 1
  /\ expired' = expired \ {i}
  /\ pc' = [pc EXCEPT ![i] = "done"]
  /\ UNCHANGED <<gate, sample, cancelled, spent>> /\ UNCHANGED loop /\ UNCHANGED store

Worker(i) ==
  \/ Acquire(i) \/ Lock(i) \/ Bare(i)
  \/ SetupOk(i) \/ SetupFails(i)
  \/ ExecOk(i) \/ ExecFails(i) \/ StreamFails(i)
  \/ TeardownOk(i) \/ TeardownFails(i)
  \/ Unlock(i) \/ Leave(i)

-----------------------------------------------------------------------------
(* The environment: time and the caller.                                   *)

Expire(i) ==
  /\ MayExpire
  /\ pc[i] \in {"admitted", "staging", "exec", "recorded"}
  /\ i \notin expired
  /\ expired' = expired \cup {i}
  /\ UNCHANGED <<pc, free, gate, sample, cancelled, spent>>
  /\ UNCHANGED loop /\ UNCHANGED store

SpendBudget(q) ==
  /\ q \in began \ spent
  /\ spent' = spent \cup {q}
  /\ UNCHANGED <<pc, free, gate, sample, cancelled, expired>>
  /\ UNCHANGED loop /\ UNCHANGED store

Cancel ==
  /\ MayCancel /\ ~cancelled /\ dpc # "returned"
  /\ cancelled' = TRUE
  /\ UNCHANGED <<pc, free, gate, sample, expired, spent>>
  /\ UNCHANGED loop /\ UNCHANGED store

Environment ==
  (\E i \in Ops : Expire(i)) \/ (\E q \in Queries : SpendBudget(q)) \/ Cancel

Next == Dispatcher \/ (\E i \in Ops : Worker(i)) \/ Environment

\* The Go scheduler runs every goroutine that can run, and an engine call
\* returns. Nothing makes time pass a deadline or a caller cancel.
Fairness == WF_vars(Dispatcher) /\ \A i \in Ops : WF_vars(Worker(i))

Spec == Init /\ [][Next]_vars /\ Fairness

-----------------------------------------------------------------------------
(* Properties.                                                             *)

\* The variables stay in their types.
TypeOK ==
  /\ next \in 1..(NumOps + 1)
  /\ dpc \in DispatcherPCs
  /\ pc \in [Ops -> WorkerPCs]
  /\ free \in 0..Slots
  /\ gate \in [Bracketed -> Ops \cup {NoOp}]
  /\ began \subseteq Queries
  /\ spent \subseteq began
  /\ measured \subseteq Ops
  /\ sample \in [Ops -> {"none", "ok", "err"}]
  /\ cancelled \in BOOLEAN
  /\ expired \subseteq Ops
  /\ graph \in [Bracketed -> SUBSET (Ops \X RowKinds)]
  /\ abandoned \subseteq Ops
  /\ broken \subseteq Ops
  /\ lost \subseteq Ops

\* The pool of newPool, acquire and release neither loses nor invents a slot:
\* the tokens in the channel and the goroutines holding one always add up to
\* Concurrency, on every path through the goroutine, the early return of a
\* failed Setup included.
PoolConserved == free = Slots - Cardinality(Holders)

\* "Repetitions of a bracketed query are serialized" (run.go, Bracket): no two
\* of them are between Setup and the end of Teardown at once, for warmup and
\* measured repetitions alike.
BracketExclusive ==
  \A i, j \in Ops :
    (/\ i # j /\ IsBracketed(i) /\ QueryOf[i] = QueryOf[j]
     /\ pc[i] \in InBracket) => pc[j] \notin InBracket

\* Repetitions of q that may leave rows behind: one whose own Setup or Teardown
\* failed, and, where Teardown joins staged and written rows, one whose write
\* failed without an effect.
Leavers(q) == abandoned \cup {i \in lost : QueryOf[i] = q}

\* A repetition meets its own staged rows, and no rows of another repetition
\* but those such a failure explains: the early return, the deferred Teardown
\* and the mutex of run.go never make two repetitions meet by themselves.
OwnRowsOnly ==
  \A i \in Ops :
    (IsBracketed(i) /\ pc[i] = "exec") =>
      /\ \A row \in graph[QueryOf[i]] : row[1] \in {i} \cup Leavers(QueryOf[i])
      /\ QueryOf[i] \in Staged => <<i, "staged">> \in graph[QueryOf[i]]

\* When Run summarises, every op it marked measured has written its sample
\* and nothing is still inside the engine: no zero-valued Sample reaches the
\* percentiles, whatever failed, expired or was cancelled.
SummaryIsComplete ==
  dpc = "returned" =>
    /\ \A i \in measured : sample[i] # "none"
    /\ Holders = {}

\* The Budget is per query "so the last ones" are not left "with no measurement
\* at all" (run.go, Options.Budget): in count mode every query of the schedule
\* reports at least one repetition.
EveryQueryMeasured ==
  (dpc = "returned" /\ ~OpenModel /\ WarmupOps = 0) =>
    \A i \in Ops : \E j \in measured : QueryOf[j] = QueryOf[i]

\* Run returns: slots and mutexes are taken in one order, so no set of
\* goroutines waits on itself, and every path gives both back.
RunReturns == <>(dpc = "returned")

-----------------------------------------------------------------------------
(* What the comments say and the code does not do.                         *)

\* "Repetition n and repetition 1 see the same graph" (run.go, Bracket). A Setup or a
\* Teardown that fails leaves rows, and so does the Teardown of a joined query that
\* works after a write that had no effect.
StationaryRepetitions ==
  \A i \in Ops :
    (IsBracketed(i) /\ pc[i] = "exec") => \A row \in graph[QueryOf[i]] : row[1] = i

\* "P99 describes completed queries only" (measure.go, Stat): a sample without
\* an error is a statement that completed.
SampledOkCompleted == \A i \in Ops : sample[i] = "ok" => i \notin broken

-----------------------------------------------------------------------------
(* LoadRun implements Admission.                                           *)

Promise ==
  INSTANCE Admission WITH
    inside <- Holders,
    turn   <- gate,
    gone   <- {i \in Ops : pc[i] = "done"}

\* Whatever the dispatcher, the pool channel and the mutexes do, a client sees
\* admissions bounded by Concurrency and repetitions that take turns.
ImplementsAdmission == Promise!Spec
=============================================================================
