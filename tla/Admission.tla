------------------------------ MODULE Admission ------------------------------
(***************************************************************************)
(* What measure.Run promises about concurrency, with no dispatcher, pool,  *)
(* goroutine or mutex in sight:                                            *)
(*                                                                         *)
(*   - at most Slots operations are inside the engine's client pool, which *)
(*     is what Options.Concurrency sells ("sizes the worker pool");        *)
(*   - the repetitions of one bracketed query take turns, so no Setup or   *)
(*     Teardown of one runs inside another's bracket (the Bracket comment  *)
(*     of measure/run.go);                                                 *)
(*   - an operation is admitted at most once and leaves with its turn      *)
(*     given back.                                                         *)
(*                                                                         *)
(* LoadRun, the detailed model of the runner, is shown to implement this   *)
(* specification.                                                          *)
(***************************************************************************)
EXTENDS Integers, FiniteSets

CONSTANTS
  Ops,        \* the scheduled operations
  Slots,      \* the number of clients
  Bracketed,  \* the queries whose repetitions take turns
  QueryOf,    \* the query each operation repeats
  NoOp        \* the turn of nobody

VARIABLES
  inside,     \* operations admitted and not yet gone
  turn,       \* per bracketed query, the repetition whose bracket is open
  gone        \* operations that were admitted and have left

vars == <<inside, turn, gone>>

Init ==
  /\ inside = {}
  /\ turn = [q \in Bracketed |-> NoOp]
  /\ gone = {}

Enter(i) ==
  /\ i \notin inside \cup gone
  /\ Cardinality(inside) < Slots
  /\ inside' = inside \cup {i}
  /\ UNCHANGED <<turn, gone>>

Begin(i) ==
  /\ i \in inside
  /\ QueryOf[i] \in Bracketed
  /\ turn[QueryOf[i]] = NoOp
  /\ turn' = [turn EXCEPT ![QueryOf[i]] = i]
  /\ UNCHANGED <<inside, gone>>

End(i) ==
  /\ i \in inside
  /\ QueryOf[i] \in Bracketed
  /\ turn[QueryOf[i]] = i
  /\ turn' = [turn EXCEPT ![QueryOf[i]] = NoOp]
  /\ UNCHANGED <<inside, gone>>

Leave(i) ==
  /\ i \in inside
  /\ \A q \in Bracketed : turn[q] # i
  /\ inside' = inside \ {i}
  /\ gone' = gone \cup {i}
  /\ UNCHANGED turn

Next == \E i \in Ops : Enter(i) \/ Begin(i) \/ End(i) \/ Leave(i)

Spec == Init /\ [][Next]_vars
=============================================================================
