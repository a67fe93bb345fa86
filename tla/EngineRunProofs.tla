---------------------------- MODULE EngineRunProofs ----------------------------
(***************************************************************************)
(* Proofs about EngineRun, for every workload, engine and kind of run:     *)
(* whatever fails and whenever the interruption comes, what the run took   *)
(* is given back, in an order that keeps the ground under its sessions.    *)
(***************************************************************************)
EXTENDS EngineRun, TLAPS

\* Where a session may be open, and where the server has been found to speak.
BeforeSession == {"dataset", "tempdir", "docker", "sampler", "start"}
InSession ==
  {"load", "verify", "judge", "measure", "coldClose", "coldStart", "coldRun", "coldEnd",
   "close", "capture"}
LEMMA PhasesSplit == Phases = BeforeSession \cup InSession
  BY DEF Phases, BeforeSession, InSession

HeldTypes ==
  /\ asked \in AnyRun
  /\ pc \in Phases \cup Deferred \cup {"returned"}
  /\ tmp \in {"none", "there", "removed"}
  /\ container \in {"none", "up", "speaking", "stopped", "leaked"}
  /\ sampler \in {"off", "on", "stopped"}
  /\ session \in {"none", "open", "closed"}
  /\ cold \in {"none", "open", "closed"}
  /\ closed \in BOOLEAN
  /\ ret \in {"none", "doc", "error"}

\* The session is open from Start to the first of its closes, and none is open past the
\* deferred one; the cold pass's lives between its start and its end.
SessionInv ==
  /\ pc \in BeforeSession => session = "none" /\ ~closed
  /\ session = "open" => pc \in (InSession \ {"capture"}) \cup {"deferClose"}
  /\ pc \in {"coldStart", "coldRun", "coldEnd"} => session # "open"
  /\ closed => session # "open"
  /\ cold = "open" => pc \in {"coldRun", "coldEnd"}

\* A server is up until the deferred Stop, unless its start failed; then there never was
\* a session.
ContainerInv ==
  /\ pc \in {"dataset", "tempdir", "docker"} => container = "none"
  /\ container \in {"up", "speaking"} => pc \notin {"deferTempdir", "returned"}
  /\ container = "stopped" =>
       /\ pc \in Deferred \cup {"returned"}
       /\ session # "open"
  /\ container = "leaked" => pc \in Deferred \cup {"returned"} /\ cancelled /\ ret = "error" /\ session # "open"
  /\ (Managed /\ pc \in InSession) => container = "speaking"

DirectoryInv ==
  /\ tmp = "removed" => pc = "returned"
  /\ tmp = "there" => pc # "returned"
  /\ (Embedded /\ pc \in Phases \ {"dataset", "tempdir"}) => tmp = "there"

SamplerInv == sampler = "on" => pc \notin {"deferContainer", "deferTempdir", "returned"}

HeldInv == HeldTypes /\ SessionInv /\ ContainerInv /\ DirectoryInv /\ SamplerInv

USE DEF HeldInv, HeldTypes, SessionInv, ContainerInv, DirectoryInv, SamplerInv,
        BeforeSession, InSession, Phases, Deferred, AnyRun, Managed, Embedded

LEMMA HeldInit == Init => HeldInv
  BY EngineRunAssumption DEF Init, Gate!Init

LEMMA HeldSetup ==
  ASSUME HeldInv, asked' = asked,
         Dataset \/ MakeTemp \/ StartContainer \/ StartSampler \/ StartSession \/ Load \/ SetupFailures
  PROVE  HeldInv'
<1>1. CASE Dataset BY <1>1 DEF Dataset, held
<1>2. CASE MakeTemp BY <1>2 DEF MakeTemp
<1>3. CASE StartContainer BY <1>3 DEF StartContainer
<1>4. CASE StartSampler BY <1>4 DEF StartSampler
<1>5. CASE StartSession BY <1>5 DEF StartSession
<1>6. CASE Load BY <1>6 DEF Load, held
<1>7. CASE ContainerNotReady BY <1>7 DEF ContainerNotReady, Return
<1>8. CASE GiveUpStart BY <1>8 DEF GiveUpStart, Return, held
<1>9. CASE \E phase \in BeforeSession \cup {"load"}, kind \in TroubleKinds : Abort(phase, kind)
  BY <1>9 DEF Abort, Return, held
<1>10. SetupFailures => ContainerNotReady \/ GiveUpStart
                        \/ \E phase \in BeforeSession \cup {"load"}, kind \in TroubleKinds : Abort(phase, kind)
  BY DEF SetupFailures, TroubleKinds
<1> QED BY <1>1, <1>2, <1>3, <1>4, <1>5, <1>6, <1>7, <1>8, <1>9, <1>10

\* Verification and the judgement of it hold nothing.
LEMMA HeldVerification ==
  ASSUME HeldInv, asked' = asked, Verify \/ VerifyErrors \/ VerifyReturns \/ Judge
  PROVE  HeldInv'
<1>1. CASE Verify BY <1>1 DEF Verify, held
<1>2. CASE VerifyErrors BY <1>2 DEF VerifyErrors, Return, held
<1>3. CASE VerifyReturns BY <1>3 DEF VerifyReturns, held
<1>4. CASE Judge BY <1>4 DEF Judge, held
<1> QED BY <1>1, <1>2, <1>3, <1>4

LEMMA HeldMeasurement ==
  ASSUME HeldInv, asked' = asked, Measurement
  PROVE  HeldInv'
<1>1. CASE Measure BY <1>1 DEF Measure, held
<1>2. CASE MeasureAnalytics BY <1>2 DEF MeasureAnalytics, held
<1>3. CASE AnalyticsFails BY <1>3 DEF AnalyticsFails, Abort, Return, held
<1>4. CASE ColdClose BY <1>4 DEF ColdClose
<1>5. CASE ColdCloseFails BY <1>5 DEF ColdCloseFails, held
<1>6. CASE ColdStart BY <1>6 DEF ColdStart
<1>7. CASE Abort("coldStart", "start") BY <1>7 DEF Abort, Return, held
<1>8. CASE ColdRun BY <1>8 DEF ColdRun, held
<1>9. CASE ColdEnd BY <1>9 DEF ColdEnd
<1> QED BY <1>1, <1>2, <1>3, <1>4, <1>5, <1>6, <1>7, <1>8, <1>9 DEF Measurement

\* Here, and in no other step but the failed start of a server, something is given back.
LEMMA HeldUnwinding ==
  ASSUME HeldInv, asked' = asked, CloseSession \/ Capture \/ Unwind
  PROVE  HeldInv'
<1>1. CASE CloseSession BY <1>1 DEF CloseSession
<1>2. CASE Capture BY <1>2 DEF Capture, Return
<1>3. CASE DeferClose BY <1>3 DEF DeferClose
<1>4. CASE DeferSampler BY <1>4 DEF DeferSampler
<1>5. CASE DeferContainer BY <1>5 DEF DeferContainer
<1>6. CASE DeferTempDir BY <1>6 DEF DeferTempDir
<1> QED BY <1>1, <1>2, <1>3, <1>4, <1>5, <1>6 DEF Unwind

LEMMA HeldEnvironment ==
  ASSUME HeldInv, asked' = asked, WindowEnds \/ EnvironmentStep
  PROVE  HeldInv'
<1>1. CASE WindowEnds BY <1>1 DEF WindowEnds, held
<1>2. CASE ServerSpeaks BY <1>2 DEF ServerSpeaks
<1>3. CASE Tick BY <1>3 DEF Tick, held
<1>4. CASE Interrupt BY <1>4 DEF Interrupt, held
<1> QED BY <1>1, <1>2, <1>3, <1>4 DEF EnvironmentStep

HIDE DEF HeldInv, HeldTypes, SessionInv, ContainerInv, DirectoryInv, SamplerInv,
         BeforeSession, InSession, Phases, Deferred, AnyRun, Managed, Embedded

\* What the run holds follows from where it is.
LEMMA HeldAlways == Spec => []HeldInv
<1>1. HeldInv /\ [Next]_vars => HeldInv'
  <2> SUFFICES ASSUME HeldInv, [Next]_vars PROVE HeldInv'
    OBVIOUS
  <2>1. CASE UNCHANGED vars
    BY <2>1 DEF vars, HeldInv, HeldTypes, SessionInv, ContainerInv, DirectoryInv, SamplerInv,
                Managed, Embedded
  <2>2. CASE Harness
    BY <2>2, HeldSetup, HeldVerification, HeldMeasurement, HeldUnwinding DEF Harness, HarnessStep
  <2>3. CASE StartTime \/ Environment BY <2>3, HeldEnvironment DEF StartTime, Environment
  <2> QED BY <2>1, <2>2, <2>3 DEF Next
<1> QED BY <1>1, HeldInit, PTL DEF Spec

\* Every way out of executeRun gives back the sessions, the sampler, the directory and
\* the container, but for one that an interruption caught while it was starting.
THEOREM EverythingReleased == Spec => []AllReleased
<1>1. HeldInv => AllReleased
  BY DEF AllReleased, HeldInv, SessionInv, ContainerInv, DirectoryInv, SamplerInv, InSession
<1> QED BY <1>1, HeldAlways, PTL

\* No server is stopped and no directory removed under an open session, on any way out
\* (the order in which executeRun registers its deferred calls).
THEOREM GroundKept == Spec => []SessionHasGround
<1>1. HeldInv => SessionHasGround
  BY DEF SessionHasGround, EngineUp, HeldInv, SessionInv, ContainerInv, DirectoryInv, InSession, Deferred
<1> QED BY <1>1, HeldAlways, PTL

\* The closing size is read with no session open and the store in its place.
THEOREM SizedWhenShut == Spec => []SizedAfterShutdown
<1>1. HeldInv => SizedAfterShutdown
  BY DEF SizedAfterShutdown, EngineUp, HeldInv, SessionInv, ContainerInv, DirectoryInv, InSession, Phases
<1> QED BY <1>1, HeldAlways, PTL
-----------------------------------------------------------------------------
(* What is measured, and on what. Verification is a run of TollGate, so      *)
(* what is proved there holds of the plan the pipeline judges.               *)

Toll == INSTANCE TollGateProofs

LEMMA TollAssumption == Toll!TollGateAssumption
  BY WorkloadAssumption
  DEF Gate!TollGateAssumption, Toll!TollGateAssumption, Gate!Query, Toll!Query,
      Gate!Features, Toll!Features, Gate!FaultKinds, Toll!FaultKinds

LEMMA TollStep ==
  ASSUME Toll!PlanInv, Toll!Next
  PROVE  Toll!PlanInv'
  BY TollAssumption, Toll!PlanStep DEF Toll!PlanStep, Toll!TollGateAssumption

\* A step of verification is one of TollGate's.
LEMMA VerifyIsToll == Verify => Toll!Next
<1> USE DEF Toll!Next, Gate!Conclude, Toll!Conclude, Gate!Blame, Toll!Blame, Gate!plan, Toll!plan,
            Gate!store, Toll!store, Gate!past, Toll!past, Gate!Fails, Toll!Fails, Gate!Query, Toll!Query
<1>1. Gate!Read => Toll!Next
  BY DEF Gate!Read, Gate!DrawAgrees, Gate!DrawDiffers, Gate!DrawFails,
         Toll!Read, Toll!DrawAgrees, Toll!DrawDiffers, Toll!DrawFails
<1>2. Gate!OracleFails => Toll!Next
  BY DEF Gate!OracleFails, Toll!OracleFails
<1>3. Gate!Write => Toll!Next
  <2>1. Gate!SetupOk \/ Gate!SetupFails => Toll!Write
    BY DEF Gate!SetupOk, Gate!SetupFails, Toll!Write, Toll!SetupOk, Toll!SetupFails
  <2>2. Gate!WriteOk \/ Gate!WriteUncommitted \/ Gate!WriteFails => Toll!Write
    BY DEF Gate!WriteOk, Gate!WriteUncommitted, Gate!WriteFails, Gate!Leaves,
           Toll!Write, Toll!WriteOk, Toll!WriteUncommitted, Toll!WriteFails, Toll!Leaves
  <2>3. Gate!CheckHolds \/ Gate!CheckDenies \/ Gate!CheckFails => Toll!Write
    BY DEF Gate!CheckHolds, Gate!CheckDenies, Gate!CheckFails, Gate!Note, Gate!Again, Gate!Leaves,
           Toll!Write, Toll!CheckHolds, Toll!CheckDenies, Toll!CheckFails, Toll!Note, Toll!Again, Toll!Leaves
  <2>4. Gate!TeardownOk \/ Gate!NoTeardown \/ Gate!TeardownFails => Toll!Write
    BY DEF Gate!TeardownOk, Gate!NoTeardown, Gate!TeardownFails, Gate!Poison,
           Toll!Write, Toll!TeardownOk, Toll!NoTeardown, Toll!TeardownFails, Toll!Poison
  <2> QED BY <2>1, <2>2, <2>3, <2>4 DEF Gate!Write
<1>4. Gate!Loop => Toll!Next
  BY DEF Gate!Loop, Gate!Judge, Gate!Skipped, Gate!Report, Gate!Poison, Gate!Decide, Gate!Stop,
         Gate!Advance, Gate!EndOfWorkload,
         Toll!Loop, Toll!Judge, Toll!Skipped, Toll!Report, Toll!Poison, Toll!Decide, Toll!Stop,
         Toll!Advance, Toll!EndOfWorkload
<1> QED BY <1>1, <1>2, <1>3, <1>4 DEF Verify

\* Until the plan is judged only verification moves it, and what is judged is a plan.
UntilJudged == BeforeSession \cup {"load", "verify", "judge"}
PlanInv ==
  /\ pc \in UntilJudged => Toll!PlanInv
  /\ pc = "judge" => result = "plan"

LEMMA PlanKept ==
  ASSUME Toll!PlanInv, UNCHANGED gateVars, cancelled' \in {cancelled, TRUE}
  PROVE  Toll!PlanInv'
  BY DEF gateVars, Toll!PlanInv, Toll!GateTypes, Toll!TypeOK, Toll!PlaceInv, Toll!ResidueInv,
         Toll!LoopInv

\* Every other step of the harness leaves the plan alone or is after its judgement.
LEMMA OthersLeavePlan ==
  ASSUME Next, ~Verify
  PROVE  /\ pc' \in UntilJudged =>
              pc \in UntilJudged /\ UNCHANGED gateVars /\ cancelled' \in {cancelled, TRUE}
         /\ pc' = "judge" => pc = "judge" \/ result = "plan"
         /\ (pc' = "measure" /\ pc # "measure") => Judge
<1> USE DEF UntilJudged, BeforeSession, held, notes
<1>1. CASE Dataset \/ MakeTemp \/ StartContainer \/ StartSampler \/ StartSession \/ Load
  BY <1>1 DEF Dataset, MakeTemp, StartContainer, StartSampler, StartSession, Load
<1>2. CASE SetupFailures
  BY <1>2 DEF SetupFailures, Abort, ContainerNotReady, GiveUpStart, Return
<1>3. CASE VerifyErrors \/ VerifyReturns \/ Judge
  BY <1>3 DEF VerifyErrors, VerifyReturns, Judge, Return
<1>4. CASE Measurement
  BY <1>4 DEF Measurement, Measure, MeasureAnalytics, AnalyticsFails, Abort, Return, ColdClose,
              ColdCloseFails, ColdStart, ColdRun, ColdEnd
<1>5. CASE CloseSession \/ Capture \/ Unwind
  BY <1>5 DEF CloseSession, Capture, Return, Unwind, DeferClose, DeferSampler, DeferContainer,
              DeferTempDir
<1>6. CASE WindowEnds \/ EnvironmentStep
  BY <1>6 DEF WindowEnds, EnvironmentStep, ServerSpeaks, Tick, Interrupt
<1> QED
  BY <1>1, <1>2, <1>3, <1>4, <1>5, <1>6
  DEF Next, Harness, HarnessStep, StartTime, Environment

LEMMA PlanAlways == Spec => []PlanInv
<1>1. Init => PlanInv
  <2> SUFFICES ASSUME Init PROVE PlanInv
    OBVIOUS
  <2>1. Toll!Init
    BY DEF Init, Gate!Init, Toll!Init, Gate!Query, Toll!Query
  <2>2. Toll!PlanInv
    BY <2>1, TollAssumption, Toll!PlanInit DEF Toll!PlanInit, Toll!TollGateAssumption
  <2> QED BY <2>2 DEF Init, PlanInv
<1>2. PlanInv /\ [Next]_vars => PlanInv'
  <2> SUFFICES ASSUME PlanInv, [Next]_vars PROVE PlanInv'
    OBVIOUS
  <2>1. CASE UNCHANGED vars
    <3>1. pc' = pc /\ result' = result /\ UNCHANGED gateVars /\ cancelled' = cancelled
      BY <2>1 DEF vars, gateVars
    <3> QED BY <3>1, PlanKept DEF PlanInv
  <2>2. CASE Next /\ Verify
    <3>1. pc = "verify" /\ pc' = "verify"
      BY <2>2 DEF Verify
    <3> QED BY <3>1, <2>2, VerifyIsToll, TollStep DEF PlanInv, UntilJudged
  <2>3. CASE Next /\ ~Verify
    <3>1. pc' \in UntilJudged => Toll!PlanInv'
      BY <2>3, OthersLeavePlan, PlanKept DEF PlanInv
    <3>2. pc' = "judge" => result' = "plan"
      <4>1. pc' = "judge" => UNCHANGED gateVars
        BY <2>3, OthersLeavePlan DEF UntilJudged
      <4> QED BY <2>3, <4>1, OthersLeavePlan DEF PlanInv, gateVars
    <3> QED BY <3>1, <3>2 DEF PlanInv
  <2> QED BY <2>1, <2>2, <2>3
<1> QED BY <1>1, <1>2, PTL DEF Spec

\* measurePlan is only reached with a plan that has no FAIL and is not poisoned, which
\* TollGate shows to vouch for every query and for the graph.
THEOREM MeasuredOnCleanGraph == Spec => MeasuredAfterCleanVerification
<1>1. PlanInv /\ [Next]_vars =>
        [pc # "measure" /\ pc' = "measure" =>
           /\ graph = {}
           /\ ~poisoned
           /\ \A q \in Gate!Query : reports[q] \in {"PASS", "SKIP"}]_vars
  <2> SUFFICES ASSUME PlanInv, Next, pc # "measure", pc' = "measure"
               PROVE  /\ graph = {}
                      /\ ~poisoned
                      /\ \A q \in Gate!Query : reports[q] \in {"PASS", "SKIP"}
    OBVIOUS
  <2>1. Judge
    BY OthersLeavePlan DEF Verify
  <2>2. ~Failed /\ ~poisoned /\ pc = "judge"
    BY <2>1 DEF Judge
  <2>3. result = "plan" /\ Toll!PlanInv
    BY <2>2 DEF PlanInv, UntilJudged
  <2>4. Toll!CleanPlan
    BY <2>3, TollAssumption, Toll!PlanIsClean DEF Toll!PlanIsClean, Toll!TollGateAssumption
  <2> QED
    BY <2>2, <2>3, <2>4 DEF Toll!CleanPlan, Failed, Gate!Query, Toll!Query
<1> QED BY <1>1, PlanAlways, PTL DEF Spec, MeasuredAfterCleanVerification
=============================================================================
