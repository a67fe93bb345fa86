---------------------------- MODULE LoadRunProofs ----------------------------
(***************************************************************************)
(* Proofs about LoadRun, for every schedule, every number of clients and   *)
(* every combination of deadlines, cancellation and statement failures.    *)
(*                                                                         *)
(* The argument is layered. PoolInv (types, the pool and the dispatcher's  *)
(* cursor) is inductive alone. GateInv (a mutex is held by exactly the op  *)
(* whose bracket is open) is inductive given the types. RowsInv (whose     *)
(* rows are in the store) is inductive given both, and SampleInv (what an  *)
(* op past its statement has recorded) given the types and the cursor.     *)
(***************************************************************************)
EXTENDS LoadRun, FiniteSetTheorems, TLAPS

\* The slots are a positive number and the operations a finite set.
LEMMA Constants ==
  /\ Slots \in Nat \ {0}
  /\ IsFiniteSet(Ops)
  /\ Ops \subseteq Nat \ {0}
  /\ NoOp \notin Ops
<1>1. Slots \in Nat \ {0}
  BY LoadRunAssumption DEF Slots
<1>2. IsFiniteSet(Ops)
  BY LoadRunAssumption, FS_Interval DEF Ops
<1>3. QED
  BY <1>1, <1>2, LoadRunAssumption DEF Ops, NoOp

-----------------------------------------------------------------------------
(* The pool.                                                               *)

\* What a step can do to the pool: a slot is taken by one op, given back by
\* one op, or nobody's hold changes.
SlotStep ==
  \/ Holders' = Holders /\ free' = free
  \/ \E i \in Ops \ Holders : Holders' = Holders \cup {i} /\ free > 0 /\ free' = free - 1
  \/ \E i \in Holders : Holders' = Holders \ {i} /\ free' = free + 1

\* The dispatcher's cursor is at an op it has not launched.
CursorInv ==
  /\ dpc = "admit" => next \in Ops /\ ~OpenModel
  /\ \A i \in Ops : i >= next => pc[i] = "idle"

PoolInv == TypeOK /\ PoolConserved /\ CursorInv

LEMMA PoolInit == Init => PoolInv
<1> SUFFICES ASSUME Init PROVE PoolInv
  OBVIOUS
<1>1. TypeOK
  <2>1. next \in 1..(NumOps + 1) /\ free \in 0..Slots
    BY Constants, LoadRunAssumption DEF Init
  <2>2. pc \in [Ops -> WorkerPCs] /\ sample \in [Ops -> {"none", "ok", "err"}]
    BY DEF Init, WorkerPCs, Unstarted
  <2>3. gate \in [Bracketed -> Ops \cup {NoOp}]
        /\ graph \in [Bracketed -> SUBSET (Ops \X RowKinds)]
    BY DEF Init
  <2>4. QED
    BY <2>1, <2>2, <2>3 DEF Init, TypeOK, DispatcherPCs
<1>2. Holders = {}
  BY DEF Init, Holders, Holding
<1>3. PoolConserved
  BY <1>2, Constants, FS_EmptySet DEF Init, PoolConserved
<1>4. CursorInv
  BY DEF Init, CursorInv
<1>5. QED
  BY <1>1, <1>3, <1>4 DEF PoolInv

\* Every step takes one slot, returns one slot or leaves the pool alone.
LEMMA EveryStepIsASlotStep ==
  ASSUME TypeOK, CursorInv, [Next]_vars
  PROVE  SlotStep
<1> USE DEF TypeOK, SlotStep, Holders, Holding, loop, env, store
<1>1. CASE Dispatcher
  <2>1. CASE OpenArrive
    BY <2>1 DEF OpenArrive, Launch, CursorInv
  <2>2. CASE Drop
    BY <2>2 DEF Drop, CursorInv
  <2>3. CASE Admit
    <3>1. next \in Ops \ Holders /\ free > 0 /\ free' = free - 1
      BY <2>3, Constants DEF Admit, CursorInv
    <3>2. Holders' = Holders \cup {next}
      BY <2>3, <3>1 DEF Admit, Launch
    <3>3. QED
      BY <3>1, <3>2
  <2>4. CASE StopDispatch \/ Consider \/ EndOfSchedule \/ Return
    BY <2>4 DEF StopDispatch, Consider, EndOfSchedule, Return
  <2>5. QED
    BY <1>1, <2>1, <2>2, <2>3, <2>4 DEF Dispatcher
<1>2. ASSUME NEW i \in Ops, Worker(i) PROVE SlotStep
  <2>1. CASE Acquire(i)
    <3>1. i \in Ops \ Holders /\ free > 0 /\ free' = free - 1
      BY <2>1 DEF Acquire
    <3>2. Holders' = Holders \cup {i}
      BY <2>1 DEF Acquire
    <3>3. QED
      BY <3>1, <3>2
  <2>2. CASE Leave(i)
    <3>1. i \in Holders /\ free' = free + 1
      BY <2>2 DEF Leave
    <3>2. Holders' = Holders \ {i}
      BY <2>2 DEF Leave
    <3>3. QED
      BY <3>1, <3>2
  <2>3. CASE Lock(i) \/ Bare(i) \/ Unlock(i)
    BY <2>3 DEF Lock, Bare, Unlock
  <2>4. CASE SetupOk(i) \/ SetupFails(i)
    BY <2>4 DEF SetupOk, SetupFails
  <2>5. CASE ExecOk(i) \/ ExecFails(i) \/ StreamFails(i)
    BY <2>5 DEF ExecOk, ExecFails, StreamFails, AfterExec
  <2>6. CASE TeardownOk(i) \/ TeardownFails(i)
    BY <2>6 DEF TeardownOk, TeardownFails
  <2>7. QED
    BY <1>2, <2>1, <2>2, <2>3, <2>4, <2>5, <2>6 DEF Worker
<1>3. CASE Environment
  BY <1>3 DEF Environment, Expire, SpendBudget, Cancel
<1>4. CASE UNCHANGED vars
  BY <1>4 DEF vars
<1>5. QED
  BY <1>1, <1>2, <1>3, <1>4 DEF Next

\* A slot step keeps tokens and holders adding up, and within bounds.
LEMMA SlotStepConserves ==
  ASSUME TypeOK, PoolConserved, SlotStep, Holders' \subseteq Ops
  PROVE  PoolConserved' /\ free' \in 0..Slots
<1> USE DEF PoolConserved
<1>1. IsFiniteSet(Holders) /\ Cardinality(Holders) \in Nat
  BY Constants, FS_Subset, FS_CardinalityType DEF Holders
<1>2. free \in 0..Slots /\ Slots' = Slots
  BY DEF TypeOK, Slots
<1>3. CASE Holders' = Holders /\ free' = free
  BY <1>2, <1>3
<1>4. ASSUME NEW i \in Ops \ Holders,
             Holders' = Holders \cup {i}, free > 0, free' = free - 1
      PROVE  PoolConserved' /\ free' \in 0..Slots
  <2>1. Cardinality(Holders') = Cardinality(Holders) + 1
    BY <1>1, <1>4, FS_AddElement
  <2>2. QED
    BY <2>1, <1>1, <1>2, <1>4, Constants
<1>5. ASSUME NEW i \in Holders, Holders' = Holders \ {i}, free' = free + 1
      PROVE  PoolConserved' /\ free' \in 0..Slots
  <2>1. Cardinality(Holders') = Cardinality(Holders) - 1
    BY <1>1, <1>5, FS_RemoveElement
  <2>2. Cardinality(Holders') \in Nat
    BY <1>1, <1>5, FS_RemoveElement, FS_CardinalityType
  <2>3. QED
    BY <2>1, <2>2, <1>1, <1>2, <1>5, Constants
<1>6. QED
  BY <1>3, <1>4, <1>5 DEF SlotStep

\* The cursor only moves past the op it launches or drops.
LEMMA CursorStep ==
  ASSUME TypeOK, CursorInv, [Next]_vars
  PROVE  CursorInv'
<1> USE Constants, LoadRunAssumption DEF TypeOK, CursorInv, loop, env, store
<1>1. CASE Dispatcher
  <2>1. CASE OpenArrive
    BY <2>1 DEF OpenArrive, Launch, Ops
  <2>2. CASE Drop
    BY <2>2 DEF Drop, Ops
  <2>3. CASE Admit
    BY <2>3 DEF Admit, Launch, Ops
  <2>4. CASE StopDispatch \/ Consider \/ EndOfSchedule \/ Return
    BY <2>4 DEF StopDispatch, Consider, EndOfSchedule, Return
  <2>5. QED
    BY <1>1, <2>1, <2>2, <2>3, <2>4 DEF Dispatcher
<1>2. ASSUME NEW i \in Ops, Worker(i) PROVE CursorInv'
  <2>1. CASE Acquire(i) \/ Lock(i) \/ Bare(i) \/ Unlock(i) \/ Leave(i)
    BY <2>1 DEF Acquire, Lock, Bare, Unlock, Leave
  <2>2. CASE SetupOk(i) \/ SetupFails(i) \/ TeardownOk(i) \/ TeardownFails(i)
    BY <2>2 DEF SetupOk, SetupFails, TeardownOk, TeardownFails
  <2>3. CASE ExecOk(i) \/ ExecFails(i) \/ StreamFails(i)
    BY <2>3 DEF ExecOk, ExecFails, StreamFails
  <2>4. QED
    BY <1>2, <2>1, <2>2, <2>3 DEF Worker
<1>3. CASE Environment
  BY <1>3 DEF Environment, Expire, SpendBudget, Cancel
<1>4. CASE UNCHANGED vars
  BY <1>4 DEF vars
<1>5. QED
  BY <1>1, <1>2, <1>3, <1>4 DEF Next

\* The types survive every step; free stays in range because tokens are conserved.
LEMMA TypeStep ==
  ASSUME PoolInv, [Next]_vars
  PROVE  TypeOK'
<1> USE Constants DEF PoolInv, TypeOK, loop, env, store
<1>0. free' \in 0..Slots
  <2>1. Holders' \subseteq Ops
    BY DEF Holders
  <2>2. QED
    BY <2>1, EveryStepIsASlotStep, SlotStepConserves
<1>1. CASE Dispatcher
  <2> USE <1>0 DEF DispatcherPCs, WorkerPCs, Unstarted, Holding
  <2>1. CASE OpenArrive
    BY <2>1, LoadRunAssumption DEF OpenArrive, Launch, Ops
  <2>2. CASE Drop
    BY <2>2, LoadRunAssumption DEF Drop, Ops
  <2>3. CASE Admit
    BY <2>3, LoadRunAssumption DEF Admit, Launch, CursorInv, Ops
  <2>4. CASE Consider
    BY <2>4, LoadRunAssumption DEF Consider
  <2>5. CASE StopDispatch \/ EndOfSchedule \/ Return
    BY <2>5 DEF StopDispatch, EndOfSchedule, Return
  <2>6. QED
    BY <1>1, <2>1, <2>2, <2>3, <2>4, <2>5 DEF Dispatcher
<1>2. ASSUME NEW i \in Ops, Worker(i) PROVE TypeOK'
  <2> USE <1>0 DEF WorkerPCs, Unstarted, Holding
  <2>1. CASE Acquire(i) \/ Bare(i)
    BY <2>1 DEF Acquire, Bare
  <2>2. CASE Lock(i)
    BY <2>2 DEF Lock
  <2>3. CASE Unlock(i)
    BY <2>3 DEF Unlock
  <2>4. CASE Leave(i)
    BY <2>4 DEF Leave
  <2>5. CASE SetupOk(i) \/ SetupFails(i) \/ ExecOk(i) \/ ExecFails(i) \/ StreamFails(i)
             \/ TeardownOk(i) \/ TeardownFails(i)
    <3>1. pc' \in [Ops -> WorkerPCs]
      BY <2>5 DEF SetupOk, SetupFails, ExecOk, ExecFails, StreamFails, AfterExec,
                  TeardownOk, TeardownFails
    <3>2. sample' \in [Ops -> {"none", "ok", "err"}]
      BY <2>5 DEF SetupOk, SetupFails, ExecOk, ExecFails, StreamFails, Record,
                  TeardownOk, TeardownFails
    <3>3. graph' \in [Bracketed -> SUBSET (Ops \X RowKinds)]
      <4> DEFINE S == <<i, "staged">>
                 W == <<i, "written">>
      <4>0. S \in Ops \X RowKinds /\ W \in Ops \X RowKinds
        BY <1>2 DEF RowKinds
      <4>1. CASE SetupOk(i)
        BY <4>0, <4>1 DEF SetupOk
      <4>2. CASE SetupFails(i)
        <5>1. PICK rows \in {{}, {S}} : graph' = [graph EXCEPT ![QueryOf[i]] = @ \cup rows]
          BY <4>2 DEF SetupFails
        <5>2. rows \subseteq Ops \X RowKinds
          BY <4>0, <5>1
        <5>3. QED
          BY <5>1, <5>2
      <4>3. CASE ExecOk(i) \/ ExecFails(i) \/ StreamFails(i)
        BY <4>0, <4>3 DEF ExecOk, ExecFails, StreamFails, OneWrite, NoWrite
      <4>4. CASE TeardownOk(i)
        BY <4>4 DEF TeardownOk
      <4>5. CASE TeardownFails(i)
        <5>1. PICK gone \in {{}, Found(QueryOf[i])} :
                graph' = [graph EXCEPT ![QueryOf[i]] = @ \ gone]
          BY <4>5 DEF TeardownFails
        <5>2. QED
          BY <5>1
      <4>6. QED
        BY <2>5, <4>1, <4>2, <4>3, <4>4, <4>5
    <3>4. abandoned' \subseteq Ops /\ broken' \subseteq Ops /\ lost' \subseteq Ops
      BY <2>5 DEF SetupOk, SetupFails, ExecOk, ExecFails, StreamFails, OneWrite, NoWrite,
                  TeardownOk, TeardownFails
    <3>5. UNCHANGED <<gate, next, dpc, began, measured, cancelled, expired, spent>>
      BY <2>5 DEF SetupOk, SetupFails, ExecOk, ExecFails, StreamFails,
                  TeardownOk, TeardownFails
    <3>6. QED
      BY <3>1, <3>2, <3>3, <3>4, <3>5
  <2>6. QED
    BY <1>2, <2>1, <2>2, <2>3, <2>4, <2>5 DEF Worker
<1>3. CASE Environment
  BY <1>3 DEF Environment, Expire, SpendBudget, Cancel
<1>4. CASE UNCHANGED vars
  BY <1>4 DEF vars
<1>5. QED
  BY <1>1, <1>2, <1>3, <1>4 DEF Next

\* PoolInv is inductive.
LEMMA PoolStep == PoolInv /\ [Next]_vars => PoolInv'
<1> SUFFICES ASSUME PoolInv, [Next]_vars PROVE PoolInv'
  OBVIOUS
<1>1. TypeOK'
  BY TypeStep
<1>2. PoolConserved'
  <2>1. Holders' \subseteq Ops
    BY DEF Holders
  <2>2. QED
    BY <2>1, EveryStepIsASlotStep, SlotStepConserves DEF PoolInv
<1>3. CursorInv'
  BY CursorStep DEF PoolInv
<1>4. QED
  BY <1>1, <1>2, <1>3 DEF PoolInv

LEMMA PoolInvariant == Spec => []PoolInv
  BY PoolInit, PoolStep, PTL DEF Spec

\* Every variable of the runner stays in its type, in every schedule.
THEOREM TypeCorrect == Spec => []TypeOK
  BY PoolInvariant, PTL DEF PoolInv

\* No path through a goroutine loses or invents a slot of the client pool, so
\* Options.Concurrency is what the engine meets from the first op to the last.
THEOREM PoolIsConserved == Spec => []PoolConserved
  BY PoolInvariant, PTL DEF PoolInv

-----------------------------------------------------------------------------
(* The per-query mutexes.                                                  *)

\* A mutex is held by exactly the op whose bracket is open.
GateInv ==
  /\ \A i \in Ops : pc[i] \in {"staging", "recorded", "unlocking"} => IsBracketed(i)
  /\ \A i \in Ops : IsBracketed(i) => (gate[QueryOf[i]] = i <=> pc[i] \in InBracket)
  /\ \A q \in Bracketed : gate[q] \in Ops => QueryOf[gate[q]] = q

LEMMA GateInit == Init => GateInv
  BY Constants, LoadRunAssumption DEF Init, GateInv, IsBracketed, InBracket

\* The dispatcher launches ops that hold no mutex and touches none.
LEMMA GateDispatch ==
  ASSUME TypeOK, CursorInv, GateInv, Dispatcher
  PROVE  GateInv'
<1> USE Constants DEF TypeOK, GateInv, IsBracketed, InBracket, env, store
<1>1. CASE OpenArrive
  BY <1>1 DEF OpenArrive, Launch, CursorInv
<1>2. CASE Drop
  BY <1>2 DEF Drop, CursorInv
<1>3. CASE Admit
  BY <1>3 DEF Admit, Launch, CursorInv
<1>4. CASE StopDispatch \/ Consider \/ EndOfSchedule \/ Return
  BY <1>4 DEF StopDispatch, Consider, EndOfSchedule, Return
<1>5. QED
  BY <1>1, <1>2, <1>3, <1>4 DEF Dispatcher

LEMMA GateStep ==
  ASSUME TypeOK, CursorInv, GateInv, [Next]_vars
  PROVE  GateInv'
<1> USE Constants DEF TypeOK, GateInv, IsBracketed, InBracket, loop, env, store
<1>1. CASE Dispatcher
  BY <1>1, GateDispatch
<1>2. ASSUME NEW i \in Ops, Worker(i) PROVE GateInv'
  <2>1. CASE Acquire(i) \/ Bare(i)
    BY <2>1 DEF Acquire, Bare
  <2>2. CASE Lock(i)
    BY <2>2 DEF Lock
  <2>3. CASE Unlock(i)
    BY <2>3 DEF Unlock
  <2>4. CASE Leave(i)
    BY <2>4 DEF Leave
  <2>5. CASE SetupOk(i) \/ SetupFails(i)
    BY <2>5 DEF SetupOk, SetupFails
  <2>6. CASE ExecOk(i) \/ ExecFails(i) \/ StreamFails(i)
    BY <2>6 DEF ExecOk, ExecFails, StreamFails, AfterExec
  <2>7. CASE TeardownOk(i) \/ TeardownFails(i)
    BY <2>7 DEF TeardownOk, TeardownFails
  <2>8. QED
    BY <1>2, <2>1, <2>2, <2>3, <2>4, <2>5, <2>6, <2>7 DEF Worker
<1>3. CASE Environment
  BY <1>3 DEF Environment, Expire, SpendBudget, Cancel
<1>4. CASE UNCHANGED vars
  BY <1>4 DEF vars
<1>5. QED
  BY <1>1, <1>2, <1>3, <1>4 DEF Next

LEMMA GateInvariant == Spec => []GateInv
<1>1. PoolInv /\ GateInv /\ [Next]_vars => GateInv'
  BY GateStep DEF PoolInv
<1>2. QED
  BY <1>1, GateInit, PoolInvariant, PTL DEF Spec

\* No two repetitions of a bracketed query are ever between Setup and the end
\* of Teardown together, in count mode and in the open model, warmup included.
THEOREM RepetitionsTakeTurns == Spec => []BracketExclusive
<1>1. GateInv => BracketExclusive
  BY DEF GateInv, BracketExclusive, IsBracketed
<1>2. QED
  BY <1>1, GateInvariant, PTL

-----------------------------------------------------------------------------
(* Whose rows are in the store.                                            *)

\* A staged row of the open bracket stays until Teardown, and a write that was
\* not lost left its own row: Teardown finds everything unless the write was lost.
RowsInv ==
  /\ \A q \in Bracketed : \A row \in graph[q] : row[1] = gate[q] \/ row[1] \in Leavers(q)
  /\ \A i \in Ops : (pc[i] \in {"exec", "recorded"} /\ QueryOf[i] \in Staged)
                      => <<i, "staged">> \in graph[QueryOf[i]]
  /\ \A i \in Ops : (pc[i] = "recorded" /\ QueryOf[i] \in Joined /\ i \notin lost)
                      => <<i, "written">> \in graph[QueryOf[i]]
  /\ \A i \in Ops : pc[i] = "unlocking" =>
       \A row \in graph[QueryOf[i]] : row[1] \in Leavers(QueryOf[i])

LEMMA RowsInit == Init => RowsInv
  BY Constants DEF Init, RowsInv, IsBracketed

\* A Teardown that deletes what it finds leaves only rows of Leavers, the ones
\* of its own repetition included.
LEMMA TeardownLeaves ==
  ASSUME TypeOK, GateInv, RowsInv, NEW i \in Ops, pc[i] = "recorded",
         NEW row \in graph[QueryOf[i]] \ Found(QueryOf[i])
  PROVE  row[1] \in Leavers(QueryOf[i])
<1> DEFINE q == QueryOf[i]
<1>1. q \in Bracketed /\ gate[q] = i
  BY DEF GateInv, IsBracketed, InBracket
<1>2. q \in Joined /\ {r[2] : r \in graph[q]} # RowKinds
  BY DEF Found
<1>3. q \in Staged
  BY <1>2, LoadRunAssumption
<1>4. <<i, "staged">> \in graph[q]
  BY <1>3 DEF RowsInv
<1>5. {r[2] : r \in graph[q]} \subseteq RowKinds
  BY <1>1 DEF TypeOK
<1>6. <<i, "written">> \notin graph[q]
  <2> SUFFICES ASSUME <<i, "written">> \in graph[q] PROVE FALSE
    OBVIOUS
  <2>1. "written" \in {r[2] : r \in graph[q]} /\ "staged" \in {r[2] : r \in graph[q]}
    BY <1>4
  <2>2. QED
    BY <2>1, <1>2, <1>5 DEF RowKinds
<1>7. i \in Leavers(q)
  BY <1>2, <1>6 DEF RowsInv, Leavers
<1>8. QED
  BY <1>1, <1>7 DEF RowsInv

\* A step of another op leaves this one's place and its query's rows alone.
LEMMA RowsStep ==
  ASSUME TypeOK, CursorInv, GateInv, RowsInv, [Next]_vars
  PROVE  RowsInv'
<1> USE Constants, LoadRunAssumption DEF TypeOK, RowsInv, IsBracketed, Leavers,
        loop, env, store
<1>1. CASE Dispatcher
  <2>1. CASE OpenArrive
    BY <2>1 DEF OpenArrive, Launch
  <2>2. CASE Drop
    BY <2>2 DEF Drop
  <2>3. CASE Admit
    BY <2>3 DEF Admit, Launch
  <2>4. CASE StopDispatch \/ Consider \/ EndOfSchedule \/ Return
    BY <2>4 DEF StopDispatch, Consider, EndOfSchedule, Return
  <2>5. QED
    BY <1>1, <2>1, <2>2, <2>3, <2>4 DEF Dispatcher
<1>2. ASSUME NEW i \in Ops, Worker(i) PROVE RowsInv'
  <2>1. CASE Acquire(i)
    BY <2>1 DEF Acquire
  <2>2. CASE Bare(i)
    BY <2>2 DEF Bare
  <2>3. CASE Lock(i)
    BY <2>3 DEF Lock
  <2>4. CASE Unlock(i)
    BY <2>4 DEF Unlock, GateInv, InBracket
  <2>5. CASE Leave(i)
    BY <2>5 DEF Leave
  <2>6. CASE SetupOk(i)
    BY <2>6 DEF SetupOk, GateInv, InBracket
  <2>7. CASE SetupFails(i)
    BY <2>7 DEF SetupFails, GateInv, InBracket
  <2>8. CASE ExecOk(i) \/ ExecFails(i) \/ StreamFails(i)
    <3>1. abandoned' = abandoned /\ gate' = gate
      BY <2>8 DEF ExecOk, ExecFails, StreamFails
    <3>2. OneWrite(i) \/ NoWrite(i)
      BY <2>8 DEF ExecOk, ExecFails, StreamFails
    <3>3. pc[i] = "exec" /\ pc' = [pc EXCEPT ![i] = AfterExec(i)]
      BY <2>8 DEF ExecOk, ExecFails, StreamFails
    <3>4. CASE OneWrite(i)
      BY <3>1, <3>3, <3>4 DEF OneWrite, AfterExec, GateInv, InBracket
    <3>5. CASE NoWrite(i)
      BY <3>1, <3>3, <3>5 DEF NoWrite, AfterExec, GateInv, InBracket
    <3>6. QED
      BY <3>2, <3>4, <3>5
  <2>9. CASE TeardownOk(i)
    BY <2>9, TeardownLeaves DEF TeardownOk, GateInv, InBracket
  <2>10. CASE TeardownFails(i)
    BY <2>10 DEF TeardownFails, GateInv, InBracket
  <2>11. QED
    BY <1>2, <2>1, <2>2, <2>3, <2>4, <2>5, <2>6, <2>7, <2>8, <2>9, <2>10 DEF Worker
<1>3. CASE Environment
  BY <1>3 DEF Environment, Expire, SpendBudget, Cancel
<1>4. CASE UNCHANGED vars
  BY <1>4 DEF vars
<1>5. QED
  BY <1>1, <1>2, <1>3, <1>4 DEF Next

LEMMA RowsInvariant == Spec => []RowsInv
<1>1. PoolInv /\ GateInv /\ RowsInv /\ [Next]_vars => RowsInv'
  BY RowsStep DEF PoolInv
<1>2. QED
  BY <1>1, RowsInit, PoolInvariant, GateInvariant, PTL DEF Spec

\* A repetition executes over its own staged rows and over no row of another
\* repetition, unless that one's own Setup or Teardown had failed or, for a query
\* whose Teardown joins staged and written rows, its write had failed with no
\* effect. A failed write of any other query leaves nothing to the next one.
THEOREM RepetitionsMeetOnlyResidue == Spec => []OwnRowsOnly
<1>1. GateInv /\ RowsInv => OwnRowsOnly
  BY LoadRunAssumption DEF GateInv, RowsInv, OwnRowsOnly, IsBracketed, InBracket
<1>2. QED
  BY <1>1, GateInvariant, RowsInvariant, PTL

-----------------------------------------------------------------------------
(* What the summary is made of.                                            *)

SampleInv ==
  /\ \A i \in measured : ~Warm(i) /\ pc[i] \notin {"idle", "dropped"}
  /\ \A i \in measured :
       pc[i] \in {"recorded", "unlocking", "leaving", "done"} => sample[i] # "none"
  /\ dpc = "returned" => \A i \in Ops : pc[i] \in {"idle", "dropped", "done"}

LEMMA SampleInit == Init => SampleInv
  BY DEF Init, SampleInv

LEMMA SampleStep ==
  ASSUME TypeOK, CursorInv, SampleInv, [Next]_vars
  PROVE  SampleInv'
<1> USE Constants DEF TypeOK, SampleInv, Warm, loop, env, store
<1>1. CASE Dispatcher
  <2>1. CASE OpenArrive
    BY <2>1 DEF OpenArrive, Launch, CursorInv
  <2>2. CASE Drop
    BY <2>2 DEF Drop, CursorInv
  <2>3. CASE Admit
    BY <2>3 DEF Admit, Launch, CursorInv
  <2>4. CASE StopDispatch \/ Consider \/ EndOfSchedule \/ Return
    BY <2>4 DEF StopDispatch, Consider, EndOfSchedule, Return
  <2>5. QED
    BY <1>1, <2>1, <2>2, <2>3, <2>4 DEF Dispatcher
<1>2. ASSUME NEW i \in Ops, Worker(i) PROVE SampleInv'
  <2>1. CASE Acquire(i) \/ Lock(i) \/ Bare(i)
    BY <2>1 DEF Acquire, Lock, Bare
  <2>2. CASE SetupOk(i)
    BY <2>2 DEF SetupOk
  <2>3. CASE SetupFails(i)
    BY <2>3 DEF SetupFails, Record
  <2>4. CASE ExecOk(i) \/ ExecFails(i) \/ StreamFails(i)
    <3>1. PICK outcome \in {"ok", "err"} : Record(i, outcome)
      BY <2>4 DEF ExecOk, ExecFails, StreamFails
    <3>2. pc[i] = "exec" /\ pc' = [pc EXCEPT ![i] = AfterExec(i)]
          /\ UNCHANGED <<dpc, measured>>
      BY <2>4 DEF ExecOk, ExecFails, StreamFails
    <3>3. QED
      BY <3>1, <3>2 DEF Record, AfterExec
  <2>5. CASE TeardownOk(i) \/ TeardownFails(i)
    BY <2>5 DEF TeardownOk, TeardownFails
  <2>6. CASE Unlock(i) \/ Leave(i)
    BY <2>6 DEF Unlock, Leave
  <2>7. QED
    BY <1>2, <2>1, <2>2, <2>3, <2>4, <2>5, <2>6 DEF Worker
<1>3. CASE Environment
  BY <1>3 DEF Environment, Expire, SpendBudget, Cancel
<1>4. CASE UNCHANGED vars
  BY <1>4 DEF vars
<1>5. QED
  BY <1>1, <1>2, <1>3, <1>4 DEF Next

\* Run summarises only when every op it marked measured has written its sample
\* and no goroutine still holds a slot.
THEOREM SummaryComplete == Spec => []SummaryIsComplete
<1>1. TypeOK /\ SampleInv => SummaryIsComplete
  BY DEF TypeOK, SampleInv, SummaryIsComplete, Holders, Holding
<1>2. PoolInv /\ SampleInv /\ [Next]_vars => SampleInv'
  BY SampleStep DEF PoolInv
<1>3. QED
  BY <1>1, <1>2, SampleInit, PoolInvariant, PTL DEF Spec, PoolInv

-----------------------------------------------------------------------------
(* The budget.                                                             *)

\* In count mode with no warmup, every op behind the cursor is of a query with
\* a measured repetition, and a query's clock only starts with one of those.
BudgetInv ==
  (~OpenModel /\ WarmupOps = 0) =>
    /\ \A i \in Ops : i < next => \E j \in measured : QueryOf[j] = QueryOf[i]
    /\ \A q \in began :
         \/ \E j \in measured : QueryOf[j] = q
         \/ dpc = "admit" /\ QueryOf[next] = q
    /\ dpc \in {"drain", "returned"} => next > NumOps

LEMMA BudgetInit == Init => BudgetInv
  BY DEF Init, BudgetInv, Ops

LEMMA BudgetStep ==
  ASSUME TypeOK, CursorInv, BudgetInv, [Next]_vars
  PROVE  BudgetInv'
<1> SUFFICES ASSUME ~OpenModel, WarmupOps = 0 PROVE BudgetInv'
  BY DEF BudgetInv
<1> USE Constants, LoadRunAssumption DEF TypeOK, BudgetInv, Warm, loop, env, store
<1>1. CASE Dispatcher
  <2>1. CASE OpenArrive \/ StopDispatch
    BY <2>1 DEF OpenArrive, StopDispatch
  <2>2. CASE Drop
    BY <2>2 DEF Drop, OverBudget, Ops
  <2>3. CASE Admit
    <3>1. next \in Ops
      BY <2>3 DEF Admit, CursorInv
    <3>2. measured' = measured \cup {next} /\ next' = next + 1 /\ dpc' = "arrive"
          /\ began' = began
      BY <2>3, <3>1 DEF Admit, Launch, Ops
    <3>3. \A i \in Ops : i < next + 1 => i < next \/ i = next
      BY <3>1 DEF Ops
    <3>4. QED
      BY <2>3, <3>1, <3>2, <3>3 DEF Admit
  <2>4. CASE Consider
    BY <2>4 DEF Consider
  <2>5. CASE EndOfSchedule \/ Return
    BY <2>5 DEF EndOfSchedule, Return
  <2>6. QED
    BY <1>1, <2>1, <2>2, <2>3, <2>4, <2>5 DEF Dispatcher
<1>2. ASSUME NEW i \in Ops, Worker(i) PROVE BudgetInv'
  <2>1. UNCHANGED <<next, dpc, began, measured>>
    BY <1>2 DEF Worker, Acquire, Lock, Bare, SetupOk, SetupFails, ExecOk, ExecFails,
                StreamFails, TeardownOk, TeardownFails, Unlock, Leave
  <2>2. QED
    BY <2>1
<1>3. CASE Environment
  BY <1>3 DEF Environment, Expire, SpendBudget, Cancel
<1>4. CASE UNCHANGED vars
  BY <1>4 DEF vars
<1>5. QED
  BY <1>1, <1>2, <1>3, <1>4 DEF Next

\* However soon the budgets run out, a count-mode run reports at least one
\* repetition of every query in its schedule.
THEOREM BudgetSparesOne == Spec => []EveryQueryMeasured
<1>1. TypeOK /\ BudgetInv => EveryQueryMeasured
  BY LoadRunAssumption DEF TypeOK, BudgetInv, EveryQueryMeasured, Ops
<1>2. PoolInv /\ BudgetInv /\ [Next]_vars => BudgetInv'
  BY BudgetStep DEF PoolInv
<1>3. QED
  BY <1>1, <1>2, BudgetInit, PoolInvariant, PTL DEF Spec, PoolInv

-----------------------------------------------------------------------------
(* The runner implements Admission.                                        *)

\* Admission's own instance of FiniteSets counts the same way.
LEMMA SameCardinality == \A S : Promise!Cardinality(S) = Cardinality(S)
  BY DEF Promise!Cardinality, Cardinality

LEMMA AdmissionInit == Init => Promise!Init
  BY DEF Init, Promise!Init, Holders, Holding

\* Each step of the runner is a step of Admission or changes nothing it sees.
LEMMA AdmissionStep ==
  ASSUME PoolInv, GateInv, [Next]_vars
  PROVE  [Promise!Next]_(Promise!vars)
<1> DEFINE gone == {i \in Ops : pc[i] = "done"}
<1> USE Constants DEF PoolInv, TypeOK, loop, env, store
<1>1. free > 0 => Cardinality(Holders) < Slots
  <2>1. Cardinality(Holders) \in Nat
    BY FS_Subset, FS_CardinalityType DEF Holders
  <2>2. QED
    BY <2>1 DEF PoolConserved
<1>2. ASSUME NEW i \in Ops, pc[i] \notin Holding \cup {"done"}, free > 0,
             pc' = [pc EXCEPT ![i] = "admitted"], gate' = gate
      PROVE  Promise!Next
  <2>1. i \notin Holders \cup gone /\ Holders' = Holders \cup {i} /\ gone' = gone
    BY <1>2 DEF Holders, Holding
  <2>2. Cardinality(Holders) < Slots
    BY <1>1, <1>2
  <2>3. Promise!Enter(i)
    BY <2>1, <2>2, <1>2, SameCardinality DEF Promise!Enter
  <2>4. QED
    BY <2>3 DEF Promise!Next
<1>3. ASSUME Holders' = Holders, gone' = gone, gate' = gate
      PROVE  UNCHANGED Promise!vars
  BY <1>3 DEF Promise!vars
<1>4. CASE Dispatcher
  <2>1. CASE OpenArrive
    <3>1. Holders' = Holders /\ gone' = gone
      BY <2>1 DEF OpenArrive, Launch, CursorInv, Holders, Holding
    <3>2. QED
      BY <2>1, <3>1, <1>3 DEF OpenArrive
  <2>2. CASE Drop
    <3>1. Holders' = Holders /\ gone' = gone
      BY <2>2 DEF Drop, CursorInv, Holders, Holding
    <3>2. QED
      BY <2>2, <3>1, <1>3 DEF Drop
  <2>3. CASE Admit
    <3>1. next \in Ops /\ pc[next] \notin Holding \cup {"done"}
      BY <2>3 DEF Admit, CursorInv, Holding
    <3>2. pc' = [pc EXCEPT ![next] = "admitted"] /\ gate' = gate /\ free > 0
      BY <2>3 DEF Admit, Launch
    <3>3. QED
      BY <3>1, <3>2, <1>2
  <2>4. CASE StopDispatch \/ Consider \/ EndOfSchedule \/ Return
    BY <2>4, <1>3 DEF StopDispatch, Consider, EndOfSchedule, Return, Holders
  <2>5. QED
    BY <1>4, <2>1, <2>2, <2>3, <2>4 DEF Dispatcher
<1>5. ASSUME NEW i \in Ops, Worker(i) PROVE [Promise!Next]_(Promise!vars)
  <2>1. CASE Acquire(i)
    BY <2>1, <1>2 DEF Acquire, Holding
  <2>2. CASE Lock(i)
    <3>1. Holders' = Holders /\ gone' = gone /\ i \in Holders
      BY <2>2 DEF Lock, Holders, Holding
    <3>2. Promise!Begin(i)
      BY <2>2, <3>1 DEF Lock, Promise!Begin, IsBracketed
    <3>3. QED
      BY <3>2 DEF Promise!Next
  <2>3. CASE Unlock(i)
    <3>1. Holders' = Holders /\ gone' = gone /\ i \in Holders
      BY <2>3 DEF Unlock, Holders, Holding
    <3>2. QueryOf[i] \in Bracketed /\ gate[QueryOf[i]] = i
      BY <2>3 DEF Unlock, GateInv, IsBracketed, InBracket
    <3>3. Promise!End(i)
      BY <2>3, <3>1, <3>2 DEF Unlock, Promise!End
    <3>4. QED
      BY <3>3 DEF Promise!Next
  <2>4. CASE Leave(i)
    <3>1. i \in Holders /\ Holders' = Holders \ {i} /\ gone' = gone \cup {i}
      BY <2>4 DEF Leave, Holders, Holding
    <3>2. \A q \in Bracketed : gate[q] # i
      BY <2>4 DEF Leave, GateInv, IsBracketed, InBracket
    <3>3. Promise!Leave(i)
      BY <2>4, <3>1, <3>2 DEF Leave, Promise!Leave
    <3>4. QED
      BY <3>3 DEF Promise!Next
  <2>5. CASE Bare(i) \/ SetupOk(i) \/ SetupFails(i) \/ ExecOk(i) \/ ExecFails(i)
             \/ StreamFails(i) \/ TeardownOk(i) \/ TeardownFails(i)
    <3>1. gate' = gate
      BY <2>5 DEF Bare, SetupOk, SetupFails, ExecOk, ExecFails, StreamFails,
                  TeardownOk, TeardownFails
    <3>2. \E to \in Holding : pc' = [pc EXCEPT ![i] = to]
      BY <2>5 DEF Bare, SetupOk, SetupFails, ExecOk, ExecFails, StreamFails,
                  TeardownOk, TeardownFails, AfterExec, Holding
    <3>3. pc[i] \in Holding
      BY <2>5 DEF Bare, SetupOk, SetupFails, ExecOk, ExecFails, StreamFails,
                  TeardownOk, TeardownFails, Holding
    <3>4. Holders' = Holders /\ gone' = gone
      BY <3>2, <3>3 DEF Holders, Holding
    <3>5. QED
      BY <3>1, <3>4, <1>3
  <2>6. QED
    BY <1>5, <2>1, <2>2, <2>3, <2>4, <2>5 DEF Worker
<1>6. CASE Environment
  BY <1>6, <1>3 DEF Environment, Expire, SpendBudget, Cancel, Holders
<1>7. CASE UNCHANGED vars
  BY <1>7, <1>3 DEF vars, Holders
<1>8. QED
  BY <1>4, <1>5, <1>6, <1>7 DEF Next

\* Dispatcher, channel and mutexes together keep the promise of Admission, for
\* every schedule and every number of clients.
THEOREM RunnerImplementsAdmission == Spec => ImplementsAdmission
<1>1. PoolInv /\ GateInv /\ [Next]_vars => [Promise!Next]_(Promise!vars)
  BY AdmissionStep
<1>2. QED
  BY <1>1, AdmissionInit, PoolInvariant, GateInvariant, PTL
     DEF Spec, ImplementsAdmission, Promise!Spec
=============================================================================
