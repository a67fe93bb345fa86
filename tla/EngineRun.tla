------------------------------ MODULE EngineRun ------------------------------
(***************************************************************************)
(* executeRun and measurePlan (cmd/graph-bench/exec.go): one engine's run, *)
(* from the dataset to the document, and everything it must give back.     *)
(*                                                                         *)
(* The verification phase is TollGate, step by step, on the same graph and *)
(* the same context. The warm measurement is one step here: LoadRun says   *)
(* what happens inside it, and the rows its failed teardowns may leave are *)
(* what this module takes from it. The deferred calls run as steps of      *)
(* their own, in the reverse of the order that registered them.            *)
(***************************************************************************)
EXTENDS Integers, FiniteSets

CONSTANTS
  NumQueries, Writes, Needs, Offers, Draws, HasSetup, HasTeardown,
  Checked, Telling, Referenced, MayCancel, Faults,  \* TollGate's
  Runs,    \* what may be asked of executeRun
  Trouble  \* which steps of the harness may fail under a live context

TroubleKinds ==
  {"dataset", "tempdir", "docker", "start", "load", "close", "analytics", "warm"}

\* Where the engine lives, how the workload is measured, whether the profile
\* has a cold pass and the engine a store that survives a restart.
AnyRun ==
  [plane: {"embedded", "managed", "supplied"}, shape: {"plain", "mixed", "analytics"},
   cold: BOOLEAN, persistent: BOOLEAN]

ASSUME EngineRunAssumption ==
  /\ Runs \subseteq AnyRun
  /\ Trouble \subseteq TroubleKinds

VARIABLES
  query, at, outcome, samples, reports, approved, poisoned, result,
  cancelled, graph, landed, wrong, lost,             \* TollGate's
  asked,      \* this run, which never changes
  pc,         \* where executeRun is
  tmp,        \* the temporary directory: "none", "there" or "removed"
  container,  \* the managed server: "none", its port is "up", it is "speaking" its
              \* protocol, "stopped", or "leaked" by a start that failed
  sampler,    \* the memory sampler: "off", "on" or "stopped"
  reading,    \* what the sampler's last reading saw: "none", "engine" or "noEngine"
  session,    \* the session: "none", "open" or "closed"
  cold,       \* the cold pass's session
  closed,     \* the closed flag
  window,     \* containerStartWindow has not run out
  ret,        \* what executeRun returns: nothing yet, a document, or an error
  measured,   \* the measured flag
  unstaged    \* history: staged writes that ran in the cold pass without their Setup

Gate == INSTANCE TollGate

\* The workload and the engine are ones TollGate is about.
ASSUME WorkloadAssumption == Gate!TollGateAssumption

gateVars == <<query, at, outcome, samples, reports, approved, poisoned, result,
              graph, landed, wrong, lost>>
held == <<tmp, container, sampler, session, cold, closed>>
notes == <<reading, window, measured, unstaged>>
vars == <<query, at, outcome, samples, reports, approved, poisoned, result,
          cancelled, graph, landed, wrong, lost, asked, pc, tmp, container, sampler,
          reading, session, cold, closed, window, ret, measured, unstaged>>

Embedded == asked.plane = "embedded"
Managed == asked.plane = "managed"

Fails(kind) == cancelled \/ kind \in Trouble

Phases ==
  {"dataset", "tempdir", "docker", "sampler", "start", "load", "verify", "judge",
   "measure", "coldClose", "coldStart", "coldRun", "coldEnd", "close", "capture"}
Deferred == {"deferClose", "deferSampler", "deferContainer", "deferTempdir"}

Init ==
  /\ Gate!Init
  /\ asked \in Runs
  /\ pc = "dataset"
  /\ tmp = "none"
  /\ container = "none"
  /\ sampler = "off"
  /\ reading = "none"
  /\ session = "none"
  /\ cold = "none"
  /\ closed = FALSE
  /\ window = TRUE
  /\ ret = "none"
  /\ measured = FALSE
  /\ unstaged = {}

\* executeRun returns; the deferred calls are next.
Return(what) == ret' = what /\ pc' = "deferClose"

\* The step of this phase fails and executeRun returns the error.
Abort(phase, kind) ==
  /\ pc = phase
  /\ Fails(kind)
  /\ Return("error")
  /\ UNCHANGED <<cancelled, held, notes>> /\ UNCHANGED gateVars

-----------------------------------------------------------------------------
(* Setting up.                                                             *)

Dataset ==
  /\ pc = "dataset"
  /\ pc' = "tempdir"
  /\ UNCHANGED <<cancelled, ret, held, notes>> /\ UNCHANGED gateVars

MakeTemp ==
  /\ pc = "tempdir"
  /\ tmp' = IF Embedded THEN "there" ELSE tmp
  /\ pc' = "docker"
  /\ UNCHANGED <<cancelled, ret, container, sampler, session, cold, closed, notes>>
  /\ UNCHANGED gateVars

StartContainer ==
  /\ pc = "docker"
  /\ container' = IF Managed THEN "up" ELSE container
  /\ pc' = "sampler"
  /\ UNCHANGED <<cancelled, ret, tmp, sampler, session, cold, closed, notes>>
  /\ UNCHANGED gateVars

\* docker run worked and the server never became ready. The docker stop that
\* follows is given the same context: after an interruption it does not run.
ContainerNotReady ==
  /\ pc = "docker" /\ Managed
  /\ Fails("docker")
  /\ container' = IF cancelled THEN "leaked" ELSE "stopped"
  /\ Return("error")
  /\ UNCHANGED <<cancelled, tmp, sampler, session, cold, closed, notes>>
  /\ UNCHANGED gateVars

\* The sampler takes its first reading before the engine is up.
StartSampler ==
  /\ pc = "sampler"
  /\ sampler' = "on"
  /\ reading' = "noEngine"
  /\ pc' = "start"
  /\ UNCHANGED <<cancelled, ret, tmp, container, session, cold, closed>>
  /\ UNCHANGED <<window, measured, unstaged>> /\ UNCHANGED gateVars

StartSession ==
  /\ pc = "start"
  /\ Managed => container = "speaking"
  /\ session' = "open"
  /\ pc' = "load"
  /\ UNCHANGED <<cancelled, ret, tmp, container, sampler, cold, closed, notes>>
  /\ UNCHANGED gateVars

\* Mutated form: the retry loop has no deadline.
RetryForever ==
  /\ pc = "start" /\ Managed
  /\ cancelled
  /\ Return("error")
  /\ UNCHANGED <<cancelled, held, notes>> /\ UNCHANGED gateVars

\* A server this run launched is retried until its window or the context
\* ends, when even an answering server may have been asked too early.
GiveUpStart ==
  /\ pc = "start" /\ Managed
  /\ cancelled \/ ~window
  /\ Return("error")
  /\ UNCHANGED <<cancelled, held, notes>> /\ UNCHANGED gateVars

WindowEnds ==
  /\ pc = "start" /\ Managed /\ window
  /\ window' = FALSE
  /\ UNCHANGED <<cancelled, pc, ret, held, reading, measured, unstaged>>
  /\ UNCHANGED gateVars

\* Some time after its port opens, or never, the server answers on it.
ServerSpeaks ==
  /\ container = "up"
  /\ container' = "speaking"
  /\ UNCHANGED <<cancelled, pc, ret, tmp, sampler, session, cold, closed, notes>>
  /\ UNCHANGED gateVars

Load ==
  /\ pc = "load"
  /\ pc' = "verify"
  /\ UNCHANGED <<cancelled, ret, held, notes>> /\ UNCHANGED gateVars

SetupFailures ==
  \/ Abort("dataset", "dataset")
  \/ Embedded /\ Abort("tempdir", "tempdir")
  \/ Managed /\ Abort("docker", "docker")
  \/ ContainerNotReady
  \/ GiveUpStart
  \/ ~Managed /\ Abort("start", "start")
  \/ Abort("load", "load")

-----------------------------------------------------------------------------
(* Verification.                                                           *)

Verify ==
  /\ pc = "verify"
  /\ Gate!Read \/ Gate!OracleFails \/ Gate!Write \/ Gate!Loop
  /\ UNCHANGED <<pc, ret, held, notes>>

VerifyErrors ==
  /\ pc = "verify" /\ result = "error"
  /\ Return("error")
  /\ UNCHANGED <<cancelled, held, notes>> /\ UNCHANGED gateVars

VerifyReturns ==
  /\ pc = "verify" /\ result = "plan"
  /\ pc' = "judge"
  /\ UNCHANGED <<cancelled, ret, held, notes>> /\ UNCHANGED gateVars

Failed == \E q \in Gate!Query : reports[q] = "FAIL"

\* Mutated form: one approved query is enough to measure.
JudgeApproved ==
  /\ pc = "judge"
  /\ pc' = IF approved = {} THEN "close" ELSE "measure"
  /\ measured' = (approved # {})
  /\ UNCHANGED <<cancelled, ret, held, reading, window, unstaged>>
  /\ UNCHANGED gateVars

\* A failed, poisoned or empty plan skips the measurement, not the document.
Judge ==
  /\ pc = "judge"
  /\ pc' = IF Failed \/ poisoned \/ approved = {} THEN "close" ELSE "measure"
  /\ UNCHANGED <<cancelled, ret, held, notes>> /\ UNCHANGED gateVars

-----------------------------------------------------------------------------
(* Measurement.                                                            *)

\* Mutated form: a query with no bracket leaves rows too.
MayRemainUnbracketed == {q \in approved : Fails("warm")}

\* The rows a warm run may leave: repetitions whose Setup or Teardown failed.
MayRemain == {q \in approved : q \in HasTeardown /\ Fails("warm")}

\* Warmup and measure.Run return whatever happens: an interruption is not an error.
Measure ==
  /\ pc = "measure" /\ asked.shape # "analytics"
  /\ graph' \in {graph \cup rows : rows \in SUBSET MayRemain}
  /\ IF asked.shape = "plain" /\ asked.cold /\ asked.persistent
     THEN pc' = "coldClose" /\ UNCHANGED measured
     ELSE pc' = "close" /\ measured' = TRUE
  /\ UNCHANGED <<cancelled, ret, held, reading, window, unstaged>>
  /\ UNCHANGED <<query, at, outcome, samples, reports, approved, poisoned, result>>
  /\ UNCHANGED <<landed, wrong, lost>>

\* RunAnalytics asks the context before every repetition.
MeasureAnalytics ==
  /\ pc = "measure" /\ asked.shape = "analytics"
  /\ ~cancelled
  /\ measured' = TRUE
  /\ pc' = "close"
  /\ UNCHANGED <<cancelled, ret, held, reading, window, unstaged>>
  /\ UNCHANGED gateVars

AnalyticsFails == asked.shape = "analytics" /\ Abort("measure", "analytics")

\* A session that will not close is kept and there is no cold pass.
ColdCloseFails ==
  /\ pc = "coldClose"
  /\ Fails("close")
  /\ measured' = TRUE
  /\ pc' = "close"
  /\ UNCHANGED <<cancelled, ret, held, reading, window, unstaged>>
  /\ UNCHANGED gateVars

ColdClose ==
  /\ pc = "coldClose"
  /\ session' = "closed"
  /\ pc' = "coldStart"
  /\ UNCHANGED <<cancelled, ret, tmp, container, sampler, cold, closed, notes>>
  /\ UNCHANGED gateVars

ColdStart ==
  /\ pc = "coldStart"
  /\ cold' = "open"
  /\ closed' = TRUE
  /\ pc' = "coldRun"
  /\ UNCHANGED <<cancelled, ret, tmp, container, sampler, session, notes>>
  /\ UNCHANGED gateVars

\* ColdRun executes each approved query once, with no bracket: a staged write
\* runs without its Setup, and no write is torn down. It stops at an interruption.
ColdRun ==
  /\ pc = "coldRun"
  /\ \E ran \in {approved} \cup (IF cancelled THEN SUBSET approved ELSE {}) :
       /\ graph' \in {graph \cup rows : rows \in SUBSET (ran \cap HasTeardown)}
       /\ unstaged' = ran \cap HasSetup
  /\ pc' = "coldEnd"
  /\ UNCHANGED <<cancelled, ret, held, reading, window, measured>>
  /\ UNCHANGED <<query, at, outcome, samples, reports, approved, poisoned, result>>
  /\ UNCHANGED <<landed, wrong, lost>>

\* Mutated form: the cold session is left to the caller's deferred Close.
ColdEndOpen ==
  /\ pc = "coldEnd"
  /\ measured' = TRUE
  /\ pc' = "close"
  /\ UNCHANGED <<cancelled, ret, held>>
  /\ UNCHANGED <<reading, window, unstaged>> /\ UNCHANGED gateVars

\* measurePlan's own deferred Close.
ColdEnd ==
  /\ pc = "coldEnd"
  /\ cold' = "closed"
  /\ measured' = TRUE
  /\ pc' = "close"
  /\ UNCHANGED <<cancelled, ret, tmp, container, sampler, session, closed>>
  /\ UNCHANGED <<reading, window, unstaged>> /\ UNCHANGED gateVars

Measurement ==
  \/ Measure \/ MeasureAnalytics \/ AnalyticsFails
  \/ ColdClose \/ ColdCloseFails
  \/ ColdStart \/ Abort("coldStart", "start")
  \/ ColdRun \/ ColdEnd

-----------------------------------------------------------------------------
(* The end of the run and the deferred calls.                              *)

CloseSession ==
  /\ pc = "close"
  /\ session' = IF closed THEN session ELSE "closed"
  /\ closed' = TRUE
  /\ pc' = "capture"
  /\ UNCHANGED <<cancelled, ret, tmp, container, sampler, cold, notes>>
  /\ UNCHANGED gateVars

\* The closing readings: the store's size, then the sampler's result.
Capture ==
  /\ pc = "capture"
  /\ sampler' = "stopped"
  /\ Return("doc")
  /\ UNCHANGED <<cancelled, tmp, container, session, cold, closed, notes>>
  /\ UNCHANGED gateVars

\* Mutated form: an error return does not reach the session.
DeferCloseOnSuccess ==
  /\ pc = "deferClose"
  /\ session' = IF session = "none" \/ closed \/ ret = "error" THEN session ELSE "closed"
  /\ pc' = "deferSampler"
  /\ UNCHANGED <<cancelled, ret, tmp, container, sampler, cold, closed, notes>>
  /\ UNCHANGED gateVars

DeferClose ==
  /\ pc = "deferClose"
  /\ session' = IF session = "none" \/ closed THEN session ELSE "closed"
  /\ pc' = "deferSampler"
  /\ UNCHANGED <<cancelled, ret, tmp, container, sampler, cold, closed, notes>>
  /\ UNCHANGED gateVars

DeferSampler ==
  /\ pc = "deferSampler"
  /\ sampler' = IF sampler = "on" THEN "stopped" ELSE sampler
  /\ pc' = "deferContainer"
  /\ UNCHANGED <<cancelled, ret, tmp, container, session, cold, closed, notes>>
  /\ UNCHANGED gateVars

\* Stop is given a context no interruption reaches.
DeferContainer ==
  /\ pc = "deferContainer"
  /\ container' = IF container \in {"up", "speaking"} THEN "stopped" ELSE container
  /\ pc' = "deferTempdir"
  /\ UNCHANGED <<cancelled, ret, tmp, sampler, session, cold, closed, notes>>
  /\ UNCHANGED gateVars

DeferTempDir ==
  /\ pc = "deferTempdir"
  /\ tmp' = IF tmp = "there" THEN "removed" ELSE tmp
  /\ pc' = "returned"
  /\ UNCHANGED <<cancelled, ret, container, sampler, session, cold, closed, notes>>
  /\ UNCHANGED gateVars

Unwind == DeferClose \/ DeferSampler \/ DeferContainer \/ DeferTempDir

-----------------------------------------------------------------------------
(* The environment.                                                        *)

EngineUp == session = "open" \/ cold = "open"

\* The sampler's ticker goes off.
Tick ==
  /\ sampler = "on"
  /\ reading' = IF EngineUp THEN "engine" ELSE "noEngine"
  /\ UNCHANGED <<cancelled, pc, ret, held, window, measured, unstaged>>
  /\ UNCHANGED gateVars

\* SIGINT cancels the command's context.
Interrupt ==
  /\ MayCancel /\ ~cancelled /\ pc # "returned"
  /\ cancelled' = TRUE
  /\ UNCHANGED <<pc, ret, held, notes>> /\ UNCHANGED gateVars

HarnessStep ==
  \/ Dataset \/ MakeTemp \/ StartContainer \/ StartSampler \/ StartSession \/ Load
  \/ SetupFailures
  \/ Verify \/ VerifyErrors \/ VerifyReturns \/ Judge
  \/ Measurement
  \/ CloseSession \/ Capture \/ Unwind

EnvironmentStep == ServerSpeaks \/ Tick \/ Interrupt

Harness == HarnessStep /\ UNCHANGED asked
StartTime == WindowEnds /\ UNCHANGED asked
Environment == EnvironmentStep /\ UNCHANGED asked

Next == Harness \/ StartTime \/ Environment

\* The harness is one goroutine and its calls return; the start window is
\* wall-clock time. Nothing makes a server answer.
Fairness == WF_vars(Harness) /\ WF_vars(StartTime)

Spec == Init /\ [][Next]_vars /\ Fairness

-----------------------------------------------------------------------------
(* Properties.                                                             *)

\* The variables stay in their types; TollGate's stay in TollGate's.
TypeOK ==
  /\ Gate!TypeOK
  /\ asked \in Runs
  /\ pc \in Phases \cup Deferred \cup {"returned"}
  /\ tmp \in {"none", "there", "removed"}
  /\ container \in {"none", "up", "speaking", "stopped", "leaked"}
  /\ sampler \in {"off", "on", "stopped"}
  /\ reading \in {"none", "engine", "noEngine"}
  /\ session \in {"none", "open", "closed"}
  /\ cold \in {"none", "open", "closed"}
  /\ closed \in BOOLEAN
  /\ window \in BOOLEAN
  /\ ret \in {"none", "doc", "error"}
  /\ measured \in BOOLEAN
  /\ unstaged \subseteq HasSetup

\* Every way out of executeRun gives everything back: both sessions, the
\* sampler's goroutine, the temporary directory and the container, except a
\* container the interruption caught while it was starting.
AllReleased ==
  pc = "returned" =>
    /\ session # "open" /\ cold # "open"
    /\ sampler # "on"
    /\ tmp # "there"
    /\ container \notin {"up", "speaking"}
    /\ container = "leaked" => cancelled /\ ret = "error"

\* Nothing is pulled from under a live session: while one is open its server
\* is up and its directory is there, on the way out of an error as well.
SessionHasGround ==
  EngineUp => container # "stopped" /\ tmp # "removed"

\* "A store only holds every byte the run made durable once the engine has
\* shut down" (exec.go): the closing size is read with no session open and the
\* store still in place.
SizedAfterShutdown ==
  pc = "capture" =>
    /\ ~EngineUp
    /\ Managed => container = "speaking"
    /\ Embedded => tmp = "there"

\* A latency is only ever measured of an engine that answered every query it
\* was asked, on a graph verification left as the load made it.
MeasuredAfterCleanVerification ==
  [][pc # "measure" /\ pc' = "measure" =>
       /\ graph = {}
       /\ ~poisoned
       /\ \A q \in Gate!Query : reports[q] \in {"PASS", "SKIP"}]_vars

\* executeRun returns, whatever fails and whenever the interruption comes.
RunReturns == <>(pc = "returned")

-----------------------------------------------------------------------------
(* What the comments say and the code does not do.                         *)

\* "Every schedule builder - plain, mixed, cold - then gets the behavior" (measure/run.go,
\* Options.Brackets): the cold pass stages what a write consumes.
ColdPassStages == unstaged = {}
=============================================================================
