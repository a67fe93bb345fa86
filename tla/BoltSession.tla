------------------------------- MODULE BoltSession -------------------------------
(***************************************************************************)
(* One operation at a time of each caller over the Bolt plane              *)
(* (engine/bolt/bolt.go): Run opens a driver session, a write runs in a    *)
(* transaction that commits when its result is closed, Begin opens a       *)
(* transaction the caller ends.                                            *)
(*                                                                         *)
(* The driver, external, gives out a bounded number of connections; it     *)
(* does not commit a transaction one of whose statements failed; closing a *)
(* session ends a transaction left on it without effect; and a COMMIT that *)
(* fails may have taken effect on the server.                              *)
(***************************************************************************)
CONSTANTS Callers

VARIABLES
  pc,        \* where each caller is
  session,   \* callers with a driver session open
  tx,        \* callers with a transaction open on the server
  broken,    \* callers one of whose statements failed in it
  applied,   \* callers whose last write took effect
  answer     \* what the caller was told of its last operation

vars == <<pc, session, tx, broken, applied, answer>>

Init ==
  /\ pc = [c \in Callers |-> "out"]
  /\ session = {} /\ tx = {} /\ broken = {} /\ applied = {}
  /\ answer = [c \in Callers |-> "none"]

At(c, to) == pc' = [pc EXCEPT ![c] = to]
Tell(c, what) == answer' = [answer EXCEPT ![c] = what]

CloseSession(c) ==
  /\ session' = session \ {c}
  /\ tx' = tx \ {c}
  /\ broken' = broken \ {c}

-----------------------------------------------------------------------------
(* Run.                                                                    *)

\* NewSession opens no connection; a read runs in it without a transaction.
Open(c) ==
  /\ pc[c] = "out"
  /\ \E next \in {"read", "begin", "own"} : At(c, next)
  /\ session' = session \cup {c}
  /\ applied' = applied \ {c}
  /\ Tell(c, "none")
  /\ UNCHANGED <<tx, broken>>

Begin(c) ==
  /\ pc[c] \in {"begin", "own"}
  /\ tx' = tx \cup {c}
  /\ At(c, IF pc[c] = "begin" THEN "write" ELSE "idle")
  /\ UNCHANGED <<session, broken, applied, answer>>

\* Mutated form: the session of a BEGIN that failed is not closed.
BeginFailsOpen(c) ==
  /\ pc[c] \in {"begin", "own"}
  /\ At(c, "out") /\ Tell(c, "error")
  /\ UNCHANGED <<session, tx, broken, applied>>

BeginFails(c) ==
  /\ pc[c] \in {"begin", "own"}
  /\ CloseSession(c)
  /\ At(c, "out") /\ Tell(c, "error")
  /\ UNCHANGED applied

RunOk(c) ==
  /\ pc[c] \in {"read", "write"}
  /\ At(c, IF pc[c] = "read" THEN "reading" ELSE "writing")
  /\ UNCHANGED <<session, tx, broken, applied, answer>>

\* The transaction is rolled back, as far as that works, and the session closed.
RunFails(c) ==
  /\ pc[c] \in {"read", "write"}
  /\ CloseSession(c)
  /\ At(c, "out") /\ Tell(c, "error")
  /\ UNCHANGED applied

\* A row, or the summary, carries an error; the caller sees it in Err.
StreamFails(c) ==
  /\ pc[c] \in {"reading", "writing"}
  /\ broken' = broken \cup {c}
  /\ Tell(c, "error")
  /\ UNCHANGED <<pc, session, tx, applied>>

CloseRead(c) ==
  /\ pc[c] = "reading"
  /\ CloseSession(c)
  /\ Tell(c, IF answer[c] = "error" THEN "error" ELSE "ok")
  /\ At(c, "out")
  /\ UNCHANGED applied

\* Mutated form: the result is closed without looking at its transaction.
CloseWriteOnly(c) ==
  /\ pc[c] = "writing" /\ c \notin broken
  /\ CloseSession(c)
  /\ Tell(c, "committed")
  /\ At(c, "out")
  /\ UNCHANGED applied

\* Close commits whether or not the stream failed, and then closes the session.
CloseWrite(c) ==
  /\ pc[c] = "writing" /\ c \notin broken
  /\ applied' = applied \cup {c}
  /\ CloseSession(c)
  /\ Tell(c, "committed")
  /\ At(c, "out")

\* A broken transaction does not commit; a sound one may fail to, or be committed
\* with the answer lost. The error of COMMIT is what Close returns.
CloseWriteFails(c) ==
  /\ pc[c] = "writing"
  /\ applied' \in IF c \in broken THEN {applied} ELSE {applied, applied \cup {c}}
  /\ CloseSession(c)
  /\ Tell(c, "error")
  /\ At(c, "out")

-----------------------------------------------------------------------------
(* A transaction of the caller's. Its results do not commit when closed.   *)

Exec(c) ==
  /\ pc[c] = "idle"
  /\ broken' \in {broken, broken \cup {c}}
  /\ UNCHANGED <<pc, session, tx, applied, answer>>

Commit(c) ==
  /\ pc[c] = "idle" /\ c \notin broken
  /\ applied' = applied \cup {c}
  /\ CloseSession(c)
  /\ Tell(c, "committed")
  /\ At(c, "out")

CommitFails(c) ==
  /\ pc[c] = "idle"
  /\ applied' \in IF c \in broken THEN {applied} ELSE {applied, applied \cup {c}}
  /\ CloseSession(c)
  /\ Tell(c, "error")
  /\ At(c, "out")

\* The session is closed whatever ROLLBACK answers, and the transaction with it.
Rollback(c) ==
  /\ pc[c] = "idle"
  /\ CloseSession(c)
  /\ Tell(c, "rolled back")
  /\ At(c, "out")
  /\ UNCHANGED applied

Next == \E c \in Callers :
  \/ Open(c) \/ Begin(c) \/ BeginFails(c) \/ RunOk(c) \/ RunFails(c) \/ StreamFails(c)
  \/ CloseRead(c) \/ CloseWrite(c) \/ CloseWriteFails(c)
  \/ Exec(c) \/ Commit(c) \/ CommitFails(c) \/ Rollback(c)

Spec == Init /\ [][Next]_vars

-----------------------------------------------------------------------------
(* Properties.                                                             *)

\* The driver's connections are bounded: no way out of an operation keeps its
\* session, or leaves a transaction on the server.
NothingLeftOpen ==
  /\ session = {c \in Callers : pc[c] # "out"}
  /\ tx \subseteq session

\* A write of which Run, the rows and Close all spoke well has taken effect: the
\* commit is part of Close and its error is Close's.
ToldCommitted == \A c \in Callers : answer[c] = "committed" => c \in applied
=============================================================================
