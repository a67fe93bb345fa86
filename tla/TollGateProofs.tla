---------------------------- MODULE TollGateProofs ---------------------------
(***************************************************************************)
(* Proofs about TollGate, for every workload and every engine.             *)
(*                                                                         *)
(* PlaceInv (the step of a query and the kind of query it is) makes the    *)
(* types inductive. EarnInv says where in its steps a query may already    *)
(* be in the wrong, ResidueInv where rows of a query may be, and           *)
(* PoisonInv that poison only ever meets the end of the loop; each is      *)
(* inductive given the types.                                              *)
(***************************************************************************)
EXTENDS TollGate, TLAPS

\* A step of a write is reached by a write, and setup by one that has a setup.
PlaceInv ==
  /\ at \notin {"judge", "returned"} => query \in Query
  /\ at \in {"exec", "check", "teardown"} => query \in Writes
  /\ at = "setup" => query \in HasSetup

GateTypes == TypeOK /\ PlaceInv

\* A write only ever adds its own rows and its own effect.
LEMMA LeavesOwnRows ==
  ASSUME NEW effect \in {{}, {query}}, Leaves(effect)
  PROVE  /\ graph' = graph \/ (query \in HasTeardown /\ graph' = graph \cup {query})
         /\ landed' = landed \/ landed' = landed \cup {query}
<1>1. CASE effect = {}
  BY <1>1 DEF Leaves
<1>2. CASE effect = {query} /\ query \in HasTeardown
  <2>1. effect \cap HasTeardown = {query}
    BY <1>2
  <2>2. QED
    BY <1>2, <2>1 DEF Leaves
<1>3. CASE effect = {query} /\ query \notin HasTeardown
  <2>1. effect \cap HasTeardown = {}
    BY <1>3
  <2>2. QED
    BY <1>3, <2>1 DEF Leaves
<1>4. QED
  BY <1>1, <1>2, <1>3

LEMMA TypesInit == Init => GateTypes
<1> SUFFICES ASSUME Init PROVE GateTypes
  OBVIOUS
<1>1. query \in 1..(NumQueries + 1)
  BY TollGateAssumption DEF Init
<1>2. reports \in [Query -> Outcomes \cup {"none"}]
  BY DEF Init
<1>3. TypeOK
  BY <1>1, <1>2 DEF Init, TypeOK, Steps
<1>4. QED
  BY <1>3 DEF Init, GateTypes, PlaceInv

LEMMA TypesStep == GateTypes /\ [Next]_vars => GateTypes'
<1> SUFFICES ASSUME GateTypes, [Next]_vars PROVE GateTypes'
  OBVIOUS
<1> USE DEF GateTypes, TypeOK, PlaceInv, Conclude, plan, store, past
<1>1. CASE Read
  <2>1. CASE DrawAgrees
    BY <2>1 DEF DrawAgrees, Steps, Outcomes
  <2>2. CASE DrawDiffers
    BY <2>2 DEF DrawDiffers, Steps, Outcomes
  <2>3. CASE DrawFails
    BY <2>3 DEF DrawFails, Blame, Steps, Outcomes
  <2>4. QED
    BY <1>1, <2>1, <2>2, <2>3 DEF Read
<1>2. CASE OracleFails
  BY <1>2 DEF OracleFails, Steps, Outcomes
<1>3. CASE Write
  <2>1. CASE SetupOk
    BY <2>1, TollGateAssumption DEF SetupOk, Steps
  <2>2. CASE SetupFails
    BY <2>2, TollGateAssumption DEF SetupFails, Blame, Steps, Outcomes
  <2>3. CASE WriteOk
    BY <2>3, LeavesOwnRows DEF WriteOk, Steps
  <2>4. CASE WriteUncommitted
    BY <2>4, LeavesOwnRows DEF WriteUncommitted, Steps
  <2>5. CASE WriteFails
    BY <2>5, LeavesOwnRows DEF WriteFails, Blame, Steps, Outcomes
  <2>6. CASE CheckHolds
    <3>1. graph' \subseteq HasTeardown /\ landed' \subseteq Writes
      BY <2>6, LeavesOwnRows DEF CheckHolds, Again
    <3>2. lost' \subseteq Writes
      BY <2>6 DEF CheckHolds, Note
    <3>3. QED
      BY <2>6, <3>1, <3>2 DEF CheckHolds, Steps, Outcomes
  <2>7. CASE CheckDenies
    <3>1. graph' \subseteq HasTeardown /\ landed' \subseteq Writes
      BY <2>7, LeavesOwnRows DEF CheckDenies, Again
    <3>2. lost' \subseteq Writes /\ wrong' \subseteq Query
      BY <2>7 DEF CheckDenies, Note
    <3>3. QED
      BY <2>7, <3>1, <3>2 DEF CheckDenies, Steps, Outcomes
  <2>8. CASE CheckFails
    <3>1. graph' \subseteq HasTeardown /\ landed' \subseteq Writes
      BY <2>8, LeavesOwnRows DEF CheckFails, Again
    <3>2. lost' \subseteq Writes /\ wrong' \subseteq Query
      BY <2>8 DEF CheckFails, Note, Blame
    <3>3. QED
      BY <2>8, <3>1, <3>2 DEF CheckFails, Steps, Outcomes
  <2>9. CASE TeardownOk \/ NoTeardown
    BY <2>9 DEF TeardownOk, NoTeardown, Steps
  <2>10. CASE TeardownFails
    BY <2>10 DEF TeardownFails, Blame, Steps
  <2>11. QED
    BY <1>3, <2>1, <2>2, <2>3, <2>4, <2>5, <2>6, <2>7, <2>8, <2>9, <2>10 DEF Write
<1>4. CASE Loop
  <2>1. CASE Judge
    BY <2>1 DEF Judge, Steps, Outcomes
  <2>2. CASE Report
    BY <2>2 DEF Report, Poison, Steps, Outcomes
  <2>3. CASE Decide
    BY <2>3, TollGateAssumption DEF Decide, Stop, Advance, Query, Steps
  <2>4. CASE EndOfWorkload
    BY <2>4 DEF EndOfWorkload, Stop, Steps
  <2>5. QED
    BY <1>4, <2>1, <2>2, <2>3, <2>4 DEF Loop
<1>5. CASE Interrupt
  BY <1>5 DEF Interrupt
<1>6. CASE UNCHANGED vars
  BY <1>6 DEF vars
<1>7. QED
  BY <1>1, <1>2, <1>3, <1>4, <1>5, <1>6 DEF Next

LEMMA Types == Spec => []GateTypes
<1>1. Init => GateTypes
  BY TypesInit
<1>2. GateTypes /\ [Next]_vars => GateTypes'
  BY TypesStep
<1>3. QED
  BY <1>1, <1>2, PTL DEF Spec

\* The verification pass never leaves its types, for every workload
\* (verify/verify.go, Run).
THEOREM GateTypeCorrect == Spec => []TypeOK
  BY Types, PTL DEF GateTypes

-----------------------------------------------------------------------------
(* No fake PASS.                                                           *)

\* A query is in the wrong only once it has been asked, a PASS under way is
\* not in the wrong, and nothing is approved before its report.
EarnInv ==
  /\ \A p \in wrong \cup lost \cup approved : p <= query
  /\ at \in {"judge", "read", "setup", "exec", "check"} =>
       query \notin wrong \cup lost \cup approved
  /\ at \in {"teardown", "report"} => query \notin approved
  /\ at \in {"teardown", "report"} /\ outcome = "PASS" => query \notin wrong \cup lost
  /\ ApprovedEarned

\* What a step of a read or a write does to the histories: at most the query
\* under verification joins them.
LEMMA OnlyTheQueryIsMarked ==
  ASSUME Read \/ OracleFails \/ Write
  PROVE  /\ wrong' = wrong \/ wrong' = wrong \cup {query}
         /\ lost' = lost \/ lost' = lost \cup {query}
         /\ query' = query /\ approved' = approved
<1> USE DEF Conclude, plan, store, past
<1>1. CASE Read \/ OracleFails
  BY <1>1 DEF Read, DrawAgrees, DrawDiffers, DrawFails, OracleFails, Blame
<1>2. CASE SetupOk \/ SetupFails \/ WriteOk \/ WriteUncommitted \/ WriteFails
  BY <1>2 DEF SetupOk, SetupFails, WriteOk, WriteUncommitted, WriteFails, Blame
<1>3. CASE CheckHolds \/ CheckDenies \/ CheckFails
  BY <1>3 DEF CheckHolds, CheckDenies, CheckFails, Note, Blame
<1>4. CASE TeardownOk \/ NoTeardown \/ TeardownFails
  BY <1>4 DEF TeardownOk, NoTeardown, TeardownFails, Blame
<1>5. QED
  BY <1>1, <1>2, <1>3, <1>4 DEF Write

\* A read or a write moves its query forward, and to a PASS only unmarked.
LEMMA StepsOfAQuery ==
  ASSUME Read \/ OracleFails \/ Write
  PROVE  /\ at \in {"read", "setup", "exec", "check", "teardown"}
         /\ at' \in {"read", "setup", "exec", "check", "teardown", "report"}
         /\ at = "teardown" => at' = "report"
         /\ at = "teardown" /\ outcome' = "PASS" =>
              outcome = "PASS" /\ wrong' = wrong /\ lost' = lost
         /\ at # "teardown" /\ at' \notin {"teardown", "report"} =>
              wrong' = wrong /\ lost' = lost
         /\ at # "teardown" /\ at' \in {"teardown", "report"} /\ outcome' = "PASS" =>
              wrong' = wrong /\ lost' = lost
<1> USE DEF Conclude, plan, store, past
<1>1. CASE Read \/ OracleFails
  BY <1>1 DEF Read, DrawAgrees, DrawDiffers, DrawFails, OracleFails
<1>2. CASE SetupOk \/ SetupFails \/ WriteOk \/ WriteUncommitted \/ WriteFails
  BY <1>2 DEF SetupOk, SetupFails, WriteOk, WriteUncommitted, WriteFails
<1>3. CASE CheckHolds
  BY <1>3 DEF CheckHolds, Note
<1>4. CASE CheckDenies \/ CheckFails
  BY <1>4 DEF CheckDenies, CheckFails
<1>5. CASE TeardownOk \/ NoTeardown \/ TeardownFails
  BY <1>5 DEF TeardownOk, NoTeardown, TeardownFails, Poison
<1>6. QED
  BY <1>1, <1>2, <1>3, <1>4, <1>5 DEF Write

LEMMA EarnStep ==
  ASSUME GateTypes, EarnInv, [Next]_vars
  PROVE  EarnInv'
<1>0. query \in Nat /\ wrong \cup lost \cup approved \subseteq Nat
  BY TollGateAssumption DEF GateTypes, TypeOK, Query
<1>1. CASE Read \/ OracleFails \/ Write
  <2>1. /\ wrong' = wrong \/ wrong' = wrong \cup {query}
        /\ lost' = lost \/ lost' = lost \cup {query}
        /\ query' = query /\ approved' = approved
    BY <1>1, OnlyTheQueryIsMarked
  <2>2. query \notin approved /\ query \notin approved'
    BY <1>1, <2>1, StepsOfAQuery DEF EarnInv
  <2>3. \A p \in (wrong \cup lost \cup approved)' : p <= query'
    BY <1>0, <2>1 DEF EarnInv
  <2>4. ApprovedEarned'
    BY <2>1, <2>2 DEF EarnInv, ApprovedEarned
  <2>5. CASE at = "teardown"
    <3>1. /\ at' = "report"
          /\ outcome' = "PASS" => outcome = "PASS" /\ wrong' = wrong /\ lost' = lost
      BY <1>1, <2>5, StepsOfAQuery
    <3>2. outcome' = "PASS" => query \notin wrong' \cup lost'
      BY <2>5, <3>1 DEF EarnInv
    <3>3. QED
      BY <2>1, <2>2, <2>3, <2>4, <3>1, <3>2 DEF EarnInv
  <2>6. CASE at # "teardown"
    <3>1. query \notin wrong \cup lost
      BY <1>1, <2>6, StepsOfAQuery DEF EarnInv
    <3>2. CASE at' \in {"teardown", "report"}
      BY <1>1, <2>1, <2>2, <2>3, <2>4, <2>6, <3>1, <3>2, StepsOfAQuery DEF EarnInv
    <3>3. CASE at' \notin {"teardown", "report"}
      BY <1>1, <2>1, <2>2, <2>3, <2>4, <2>6, <3>1, <3>3, StepsOfAQuery DEF EarnInv
    <3>4. QED
      BY <3>2, <3>3
  <2>7. QED
    BY <2>5, <2>6
<1>2. CASE Loop
  <2> USE DEF EarnInv, ApprovedEarned, plan, store, past
  <2>1. CASE Judge
    BY <2>1 DEF Judge, Conclude
  <2>2. CASE Report
    BY <1>0, <2>2 DEF Report
  <2>3. CASE Decide
    BY <1>0, <2>3 DEF Decide, Stop, Advance
  <2>4. CASE EndOfWorkload
    BY <2>4 DEF EndOfWorkload, Stop
  <2>5. QED
    BY <1>2, <2>1, <2>2, <2>3, <2>4 DEF Loop
<1>3. CASE Interrupt
  BY <1>3 DEF Interrupt, EarnInv, ApprovedEarned, plan, store, past
<1>4. CASE UNCHANGED vars
  BY <1>4 DEF vars, EarnInv, ApprovedEarned
<1>5. QED
  BY <1>1, <1>2, <1>3, <1>4 DEF Next

\* verify.Run clears no query for timing whose engine gave one wrong answer,
\* returned one error, or left its write without the effect the post-condition
\* tells: for every workload, number of draws, fault and interruption.
THEOREM NoFakePass == Spec => []ApprovedEarned
<1>1. Init => EarnInv
  BY DEF Init, EarnInv, ApprovedEarned
<1>2. GateTypes /\ EarnInv /\ [Next]_vars => EarnInv'
  BY EarnStep
<1>3. EarnInv => ApprovedEarned
  BY DEF EarnInv
<1>4. QED
  BY <1>1, <1>2, <1>3, Types, PTL DEF Spec

-----------------------------------------------------------------------------
(* Rows left behind.                                                       *)

\* Where a query with rows in the store can be in its steps.
ResidueInv ==
  \A p \in graph :
    \/ p < query /\ reports[p] = "FAIL"
    \/ p = query /\ at \in {"exec", "check", "teardown"}
    \/ p = query /\ at = "report" /\ outcome \in {"FAIL", Poison}
    \/ p = query /\ at \in {"decide", "returned"} /\ reports[p] = "FAIL"

LEMMA ResidueStep ==
  ASSUME GateTypes, ResidueInv, [Next]_vars
  PROVE  ResidueInv'
<1>0. query \in Nat /\ graph \subseteq Nat /\ graph \subseteq HasTeardown
  BY TollGateAssumption DEF GateTypes, TypeOK, Query
<1> USE DEF ResidueInv, Conclude, plan, store, past
<1>1. CASE Read \/ OracleFails
  BY <1>1 DEF Read, DrawAgrees, DrawDiffers, DrawFails, OracleFails
<1>2. CASE Write
  <2>1. CASE SetupOk \/ SetupFails
    BY <2>1 DEF SetupOk, SetupFails
  <2>2. CASE WriteOk \/ WriteUncommitted \/ WriteFails
    BY <2>2, LeavesOwnRows DEF WriteOk, WriteUncommitted, WriteFails
  <2>3. CASE CheckHolds \/ CheckDenies \/ CheckFails
    BY <2>3, LeavesOwnRows DEF CheckHolds, CheckDenies, CheckFails, Again
  <2>4. CASE TeardownOk \/ NoTeardown
    BY <1>0, <2>4 DEF TeardownOk, NoTeardown
  <2>5. CASE TeardownFails
    BY <2>5 DEF TeardownFails
  <2>6. QED
    BY <1>2, <2>1, <2>2, <2>3, <2>4, <2>5 DEF Write
<1>3. CASE Loop
  <2>1. CASE Judge
    BY <2>1 DEF Judge
  <2>2. CASE Report
    <3>1. reports \in [Query -> Outcomes \cup {"none"}] /\ query \in Query
      BY <2>2 DEF GateTypes, TypeOK, PlaceInv, Report
    <3>2. QED
      BY <1>0, <2>2, <3>1 DEF Report, Poison
  <2>3. CASE Decide
    BY <1>0, <2>3 DEF Decide, Stop, Advance
  <2>4. CASE EndOfWorkload
    BY <2>4 DEF EndOfWorkload, Stop
  <2>5. QED
    BY <1>3, <2>1, <2>2, <2>3, <2>4 DEF Loop
<1>4. CASE Interrupt
  BY <1>4 DEF Interrupt
<1>5. CASE UNCHANGED vars
  BY <1>5 DEF vars
<1>6. QED
  BY <1>1, <1>2, <1>3, <1>4, <1>5 DEF Next

\* Rows that verifyWrite leaves in the store are always owned by a query whose
\* report is FAIL, so executeRun, which measures nothing after a FAIL, never
\* measures over them.
THEOREM RowsLeftAreReported == Spec => []ResidueIsReported
<1>1. Init => ResidueInv
  BY DEF Init, ResidueInv
<1>2. GateTypes /\ ResidueInv /\ [Next]_vars => ResidueInv'
  BY ResidueStep
<1>3. ResidueInv => ResidueIsReported
  BY DEF ResidueInv, ResidueIsReported
<1>4. QED
  BY <1>1, <1>2, <1>3, Types, PTL DEF Spec

-----------------------------------------------------------------------------
(* Poison.                                                                 *)

\* A poisoned plan is only ever seen at the end of the loop.
PoisonInv == poisoned => at \in {"decide", "returned"}

LEMMA PoisonStep ==
  ASSUME PoisonInv, [Next]_vars
  PROVE  PoisonInv' /\ (poisoned => UNCHANGED <<graph, landed, reports, approved>>)
<1> USE DEF PoisonInv, plan, store, past
<1>1. CASE Read \/ OracleFails
  BY <1>1 DEF Read, DrawAgrees, DrawDiffers, DrawFails, OracleFails
<1>2. CASE Write
  BY <1>2 DEF Write, SetupOk, SetupFails, WriteOk, WriteUncommitted, WriteFails,
              CheckHolds, CheckDenies, CheckFails, TeardownOk, NoTeardown, TeardownFails
<1>3. CASE Loop
  BY <1>3 DEF Loop, Judge, Report, Decide, EndOfWorkload, Stop, Advance
<1>4. CASE Interrupt
  BY <1>4 DEF Interrupt
<1>5. CASE UNCHANGED vars
  BY <1>5 DEF vars
<1>6. QED
  BY <1>1, <1>2, <1>3, <1>4, <1>5 DEF Next

\* After a teardown failed, verify.Run sends nothing more to the store and adds
\* no verdict, whatever queries are left.
THEOREM PoisonIsFinal == Spec => NothingAfterPoison
<1>1. Init => PoisonInv
  BY DEF Init, PoisonInv
<1>2. PoisonInv /\ [Next]_vars => PoisonInv'
  BY PoisonStep
<1>3. PoisonInv /\ [Next]_vars => [poisoned => UNCHANGED <<graph, landed, reports, approved>>]_vars
  BY PoisonStep
<1>4. QED
  BY <1>1, <1>2, <1>3, PTL DEF Spec, NothingAfterPoison
-----------------------------------------------------------------------------
(* The plan that is handed over.                                           *)

\* Every query the loop has left behind is reported, and so is the one it decides about;
\* the loop is left with a plan when it is poisoned or there is no further query.
LoopInv ==
  /\ \A q \in Query : q < query => reports[q] # "none"
  /\ at = "decide" => reports[query] # "none"
  /\ at = "report" => outcome # "none"
  /\ at = "teardown" => outcome # "none"
  /\ result = "plan" => at = "returned" /\ (poisoned \/ query > NumQueries)

LEMMA LoopStep ==
  ASSUME GateTypes, LoopInv, [Next]_vars
  PROVE  LoopInv'
<1>0. query \in Nat /\ reports \in [Query -> Outcomes \cup {"none"}]
  BY TollGateAssumption DEF GateTypes, TypeOK
<1> USE DEF LoopInv, Conclude, plan, store, past
<1>1. CASE Read \/ OracleFails
  BY <1>1 DEF Read, DrawAgrees, DrawDiffers, DrawFails, OracleFails
<1>2. CASE Write
  BY <1>2 DEF Write, SetupOk, SetupFails, WriteOk, WriteUncommitted, WriteFails, Poison,
              CheckHolds, CheckDenies, CheckFails, TeardownOk, NoTeardown, TeardownFails
<1>3. CASE Loop
  <2>1. CASE Judge
    BY <2>1 DEF Judge
  <2>2. CASE Report
    <3>1. query \in Query
      BY <2>2 DEF GateTypes, PlaceInv, Report
    <3>2. QED
      BY <1>0, <2>2, <3>1 DEF Report
  <2>3. CASE Decide
    BY <1>0, <2>3 DEF Decide, Stop, Advance, Query
  <2>4. CASE EndOfWorkload
    BY <2>4 DEF EndOfWorkload, Stop
  <2>5. QED
    BY <1>3, <2>1, <2>2, <2>3, <2>4 DEF Loop
<1>4. CASE Interrupt
  BY <1>4 DEF Interrupt
<1>5. CASE UNCHANGED vars
  BY <1>5 DEF vars
<1>6. QED
  BY <1>1, <1>2, <1>3, <1>4, <1>5 DEF Next

\* What the pipeline measures on: a plan that is not poisoned and has no FAIL has a PASS or
\* a SKIP for every query and leaves the graph as the load made it.
PlanInv == GateTypes /\ ResidueInv /\ LoopInv
CleanPlan ==
  (result = "plan" /\ ~poisoned /\ \A q \in Query : reports[q] # "FAIL") =>
    /\ graph = {}
    /\ \A q \in Query : reports[q] \in {"PASS", "SKIP"}

LEMMA PlanInit == Init => PlanInv
  BY TypesInit DEF Init, PlanInv, ResidueInv, LoopInv, Query

LEMMA PlanStep == PlanInv /\ [Next]_vars => PlanInv'
  BY ResidueStep, LoopStep, TypesStep DEF PlanInv

LEMMA PlanIsClean == PlanInv => CleanPlan
<1> SUFFICES ASSUME PlanInv, result = "plan", ~poisoned, \A q \in Query : reports[q] # "FAIL"
             PROVE  graph = {} /\ \A q \in Query : reports[q] \in {"PASS", "SKIP"}
  BY DEF CleanPlan
<1>1. query \in Nat /\ query > NumQueries /\ at = "returned"
  BY TollGateAssumption DEF PlanInv, LoopInv, GateTypes, TypeOK
<1>2. reports \in [Query -> Outcomes \cup {"none"}] /\ graph \subseteq Query
  BY TollGateAssumption DEF PlanInv, GateTypes, TypeOK
<1>3. graph = {}
  BY <1>1, <1>2 DEF PlanInv, ResidueInv
<1>4. \A q \in Query : reports[q] # "none"
  BY <1>1, TollGateAssumption DEF PlanInv, LoopInv, Query
<1>5. QED
  BY <1>2, <1>3, <1>4 DEF Outcomes

\* A plan without a FAIL vouches for every query and for the graph (verify.Run, Plan).
THEOREM CleanPlanVouches == Spec => []CleanPlan
<1>1. PlanInv => CleanPlan
  BY PlanIsClean
<1>2. QED
  BY <1>1, PlanInit, PlanStep, PTL DEF Spec
=============================================================================
