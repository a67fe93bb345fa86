----------------------------- MODULE LadybugSession -----------------------------
(***************************************************************************)
(* The session of the ladybug adapter (engine/ladybug/ladybug.go): one     *)
(* connection behind a mutex, a cache of compiled statements, and for each *)
(* Exec a goroutine that interrupts the connection when its context ends.  *)
(*                                                                         *)
(* A call is one Exec, or one statement of Load or of a transaction, which *)
(* takes the mutex in the same way but has no deadline, no watcher and no  *)
(* look at closed. The watcher is not under the mutex: it may be scheduled *)
(* at any time, after its call has returned among others. The callers keep *)
(* the lifecycle of engine.Session: Close comes when no call is under way. *)
(***************************************************************************)
CONSTANTS
  Calls,  \* the calls on the session, each made once
  Texts   \* the texts that come with parameters and so are compiled

Free == "free"

VARIABLES
  holder,    \* who holds mu
  live,      \* the connection and the database exist
  pc,        \* where each call is
  text,      \* the text of an Exec, Direct for one without parameters
  watcher,   \* the goroutine of watchCancel
  stopped,   \* calls whose stop channel is closed
  over,      \* calls whose context is done
  limit,     \* the Exec whose deadline is the timeout of the connection
  cache,     \* texts with a compiled statement in prep
  stmts,     \* compiled statements that have not been destroyed
  cutBy      \* history: the watchers whose interrupt met a call in the engine

conn == <<live, limit, cache, stmts>>
vars == <<holder, live, pc, text, watcher, stopped, over, limit, cache, stmts, cutBy>>

Direct == "direct"

Init ==
  /\ holder = Free
  /\ live = TRUE
  /\ pc = [k \in Calls |-> "out"]
  /\ text = [k \in Calls |-> Direct]
  /\ watcher = [k \in Calls |-> "none"]
  /\ stopped = {} /\ over = {}
  /\ limit = Free
  /\ cache = {} /\ stmts = {}
  /\ cutBy = [k \in Calls |-> {}]

-----------------------------------------------------------------------------
(* A call.                                                                 *)

\* Mutated form: the timeout is set only when the connection has none.
FirstDeadline(k) == limit' = IF limit = Free THEN k ELSE limit

\* Every Exec sets the timeout of the connection, to zero if it has no deadline.
ApplyDeadline(k) == limit' = k

\* Exec with the mutex: the deadline is set, the watcher starts.
Exec(k) ==
  /\ pc[k] = "out" /\ holder = Free /\ live
  /\ holder' = k
  /\ ApplyDeadline(k)
  /\ watcher' = [watcher EXCEPT ![k] = "waiting"]
  /\ \E t \in Texts \cup {Direct} :
       /\ text' = [text EXCEPT ![k] = t]
       /\ pc' = [pc EXCEPT ![k] = IF t \in Texts \ cache THEN "compiling" ELSE "querying"]
  /\ UNCHANGED <<live, stopped, over, cache, stmts, cutBy>>

\* A session that is closed refuses.
Refuse(k) ==
  /\ pc[k] = "out" /\ holder = Free /\ ~live
  /\ pc' = [pc EXCEPT ![k] = "done"]
  /\ UNCHANGED conn /\ UNCHANGED <<holder, text, watcher, stopped, over, cutBy>>

\* execDiscard: BEGIN, COMMIT and ROLLBACK, DDL, COPY.
Statement(k) ==
  /\ pc[k] = "out" /\ holder = Free /\ live
  /\ holder' = k
  /\ pc' = [pc EXCEPT ![k] = "querying"]
  /\ UNCHANGED conn /\ UNCHANGED <<text, watcher, stopped, over, cutBy>>

\* The deferred stop and unlock, in this order, of every way out.
Leave(k) ==
  /\ stopped' = stopped \cup {k}
  /\ holder' = Free
  /\ pc' = [pc EXCEPT ![k] = "done"]

CompileOk(k) ==
  /\ pc[k] = "compiling"
  /\ cache' = cache \cup {text[k]}
  /\ stmts' = stmts \cup {<<text[k], k>>}
  /\ pc' = [pc EXCEPT ![k] = "querying"]
  /\ UNCHANGED <<holder, live, text, watcher, stopped, over, limit, cutBy>>

\* The handle exists even when the text does not compile, and is destroyed.
CompileFails(k) ==
  /\ pc[k] = "compiling"
  /\ Leave(k)
  /\ UNCHANGED <<live, text, watcher, over, limit, cache, stmts, cutBy>>

\* The engine answers, or fails, with or without an interrupt.
Return(k) ==
  /\ pc[k] = "querying"
  /\ Leave(k)
  /\ UNCHANGED conn /\ UNCHANGED <<text, watcher, over, cutBy>>

\* The deadline passes, the run is cancelled, or the runner's deferred cancel
\* follows the call.
ContextEnds(k) ==
  /\ watcher[k] # "none" /\ k \notin over
  /\ over' = over \cup {k}
  /\ UNCHANGED conn /\ UNCHANGED <<holder, pc, text, watcher, stopped, cutBy>>

-----------------------------------------------------------------------------
(* The watcher. With both channels ready, select takes either.             *)

Wake(k) ==
  /\ watcher[k] = "waiting" /\ k \in over
  /\ watcher' = [watcher EXCEPT ![k] = "firing"]
  /\ UNCHANGED conn /\ UNCHANGED <<holder, pc, text, stopped, over, cutBy>>

StandDown(k) ==
  /\ watcher[k] = "waiting" /\ k \in stopped
  /\ watcher' = [watcher EXCEPT ![k] = "gone"]
  /\ UNCHANGED conn /\ UNCHANGED <<holder, pc, text, stopped, over, cutBy>>

InEngine == {k \in Calls : holder = k /\ pc[k] = "querying"}

\* The interrupt meets whatever the connection is doing now.
Interrupt(k) ==
  /\ watcher[k] = "firing"
  /\ watcher' = [watcher EXCEPT ![k] = "gone"]
  /\ cutBy' = [j \in Calls |-> IF j \in InEngine THEN cutBy[j] \cup {k} ELSE cutBy[j]]
  /\ UNCHANGED conn /\ UNCHANGED <<holder, pc, text, stopped, over>>

-----------------------------------------------------------------------------
Close ==
  /\ live /\ holder = Free
  /\ live' = FALSE
  /\ cache' = {} /\ stmts' = {}
  /\ UNCHANGED <<holder, pc, text, watcher, stopped, over, limit, cutBy>>

Goroutine(k) == CompileOk(k) \/ CompileFails(k) \/ Return(k)
Watch(k) == Wake(k) \/ StandDown(k) \/ Interrupt(k)

Next ==
  \/ \E k \in Calls : Exec(k) \/ Refuse(k) \/ Statement(k) \/ ContextEnds(k)
  \/ \E k \in Calls : Goroutine(k) \/ Watch(k)
  \/ Close

\* As long as some goroutine can run one does, and a query ends. Nothing says
\* that anyone calls, or that a context ends.
Fairness == WF_vars(\E k \in Calls : Goroutine(k)) /\ WF_vars(\E k \in Calls : Watch(k))

Spec == Init /\ [][Next]_vars /\ Fairness

-----------------------------------------------------------------------------
(* Properties.                                                             *)

\* The variables stay in their types.
TypeOK ==
  /\ holder \in Calls \cup {Free}
  /\ live \in BOOLEAN
  /\ pc \in [Calls -> {"out", "compiling", "querying", "done"}]
  /\ text \in [Calls -> Texts \cup {Direct}]
  /\ watcher \in [Calls -> {"none", "waiting", "firing", "gone"}]
  /\ stopped \subseteq Calls /\ over \subseteq Calls
  /\ limit \in Calls \cup {Free}
  /\ cache \subseteq Texts
  /\ stmts \subseteq Texts \X Calls
  /\ cutBy \in [Calls -> SUBSET Calls]

\* The connection keeps its timeout from call to call: an Exec in the engine is
\* there under its own deadline, never under what an earlier one left.
DeadlineIsItsOwn ==
  \A k \in InEngine : watcher[k] # "none" => limit = k

\* Every compiled statement is the one of its text in the cache, so Close, which
\* walks the cache, destroys them all and each once.
StatementsAreCached ==
  /\ \A s \in stmts : s[1] \in cache
  /\ \A s, r \in stmts : s[1] = r[1] => s = r
  /\ \A t \in cache : \E s \in stmts : s[1] = t

\* No watcher outlives its call for good, whether or not its context ever ends.
WatchersEnd == \A k \in Calls : watcher[k] = "waiting" ~> watcher[k] = "gone"

\* "A context deadline is applied as the connection query timeout, and
\* cancellation interrupts the running query" (ladybug.go, Exec): what interrupts
\* a call is the end of its own context.
InterruptsItsOwn == \A k \in Calls : cutBy[k] \subseteq {k}
=============================================================================
