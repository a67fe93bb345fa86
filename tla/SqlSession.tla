------------------------------- MODULE SqlSession -------------------------------
(***************************************************************************)
(* The session the SQLite, DuckDB and PostgreSQL adapters share            *)
(* (engine/sqlbase/sqlbase.go, result.go): Exec prepares a text once for   *)
(* everyone, without a lock, and streams the rows of a statement others    *)
(* may be running too; Close closes the statements, the database and what  *)
(* the adapter left to clean up.                                           *)
(*                                                                         *)
(* A statement is named by its text and by the caller that prepared it:    *)
(* once a text is in the cache it stays, so nobody prepares it twice.      *)
(***************************************************************************)
CONSTANTS
  Callers,  \* the goroutines that share the session
  Texts     \* statement texts, after Rewrite

Nothing == <<>>

VARIABLES
  stmts,   \* per text, the statement in the cache
  open,    \* statements prepared and not closed
  pc,      \* where each caller is
  text,    \* the text it runs
  mine,    \* the statement it works with
  rows,    \* callers whose rows are open
  db       \* "open", "closed" or "cleaned"

vars == <<stmts, open, pc, text, mine, rows, db>>

Init ==
  /\ stmts = [t \in Texts |-> Nothing]
  /\ open = {}
  /\ pc = [c \in Callers |-> "out"]
  /\ text = [c \in Callers |-> Nothing]
  /\ mine = [c \in Callers |-> Nothing]
  /\ rows = {}
  /\ db = "open"

At(c, to) == pc' = [pc EXCEPT ![c] = to]
Use(c, s) == mine' = [mine EXCEPT ![c] = s]

CloseStmt(s) == open' = open \ {s}

-----------------------------------------------------------------------------
(* prepared.                                                               *)

\* The dialect is SQL, every parameter is bound: the text is looked up.
LookHit(c) ==
  /\ pc[c] = "out" /\ db = "open"
  /\ \E t \in Texts :
       /\ stmts[t] # Nothing
       /\ text' = [text EXCEPT ![c] = t]
       /\ Use(c, stmts[t])
  /\ At(c, "running")
  /\ UNCHANGED <<stmts, open, rows, db>>

\* Not there, so it is prepared; if that fails the call does.
LookMiss(c) ==
  /\ pc[c] = "out" /\ db = "open"
  /\ \E t \in Texts :
       /\ stmts[t] = Nothing
       /\ text' = [text EXCEPT ![c] = t]
       /\ Use(c, <<t, c>>)
       /\ open' = open \cup {<<t, c>>}
  /\ At(c, "storing")
  /\ UNCHANGED <<stmts, rows, db>>

\* LoadOrStore: the first to come keeps its statement in the cache.
StoreFirst(c) ==
  /\ pc[c] = "storing" /\ stmts[text[c]] = Nothing
  /\ stmts' = [stmts EXCEPT ![text[c]] = mine[c]]
  /\ At(c, "running")
  /\ UNCHANGED <<open, text, mine, rows, db>>

\* Mutated form: what the loser closes is what it found in the cache.
LoserClosesFound(c) ==
  /\ pc[c] = "storing" /\ stmts[text[c]] # Nothing
  /\ CloseStmt(stmts[text[c]])
  /\ At(c, "running")
  /\ UNCHANGED <<stmts, text, mine, rows, db>>

\* Mutated form: the loser runs the cached one and forgets its own.
LoserForgets(c) ==
  /\ pc[c] = "storing" /\ stmts[text[c]] # Nothing
  /\ Use(c, stmts[text[c]])
  /\ At(c, "running")
  /\ UNCHANGED <<stmts, open, text, rows, db>>

\* The loser closes its copy and runs the cached one.
StoreSecond(c) ==
  /\ pc[c] = "storing" /\ stmts[text[c]] # Nothing
  /\ CloseStmt(mine[c])
  /\ Use(c, stmts[text[c]])
  /\ At(c, "running")
  /\ UNCHANGED <<stmts, text, rows, db>>

-----------------------------------------------------------------------------
(* The statement and its rows.                                             *)

Query(c) ==
  /\ pc[c] = "running"
  /\ rows' = rows \cup {c}
  /\ At(c, "describing")
  /\ UNCHANGED <<stmts, open, text, mine, db>>

QueryFails(c) ==
  /\ pc[c] = "running"
  /\ At(c, "out") /\ Use(c, Nothing)
  /\ UNCHANGED <<stmts, open, text, rows, db>>

\* newResult has the columns: the caller reads.
Describe(c) ==
  /\ pc[c] = "describing"
  /\ At(c, "reading")
  /\ UNCHANGED <<stmts, open, text, mine, rows, db>>

\* The caller gets an error and no result to close, so newResult closes the rows.
DescribeFails(c) ==
  /\ pc[c] = "describing"
  /\ rows' = rows \ {c}
  /\ At(c, "out") /\ Use(c, Nothing)
  /\ UNCHANGED <<stmts, open, text, db>>

\* The rows are read, or one of them does not scan; the caller closes the result.
CloseRows(c) ==
  /\ pc[c] = "reading"
  /\ rows' = rows \ {c}
  /\ At(c, "out") /\ Use(c, Nothing)
  /\ UNCHANGED <<stmts, open, text, db>>

-----------------------------------------------------------------------------
(* Close, after the last call.                                             *)

Quiet == \A c \in Callers : pc[c] = "out"

CloseStatements ==
  /\ db = "open" /\ Quiet
  /\ open' = open \ {stmts[t] : t \in Texts}
  /\ stmts' = [t \in Texts |-> Nothing]
  /\ db' = "closed"
  /\ UNCHANGED <<pc, text, mine, rows>>

\* The temp directory goes after the database in it; a second Close finds nil and nil.
Cleanup ==
  /\ db = "closed"
  /\ db' = "cleaned"
  /\ UNCHANGED <<stmts, open, pc, text, mine, rows>>

Next ==
  \/ \E c \in Callers :
       \/ LookHit(c) \/ LookMiss(c) \/ StoreFirst(c) \/ StoreSecond(c)
       \/ Query(c) \/ QueryFails(c) \/ Describe(c) \/ DescribeFails(c) \/ CloseRows(c)
  \/ CloseStatements \/ Cleanup

Spec == Init /\ [][Next]_vars

-----------------------------------------------------------------------------
(* Properties.                                                             *)

\* "Two callers racing on a new text both prepare and one closes its copy"
\* (sqlbase.go, prepared): never a statement that another caller is running.
NoneClosedInUse ==
  \A c \in Callers : pc[c] = "running" \/ c \in rows => mine[c] \in open

\* A statement that is open is in the cache, where Close finds it, or with the
\* caller that is about to offer it; one text has one cached statement.
StatementsAccounted ==
  open = ({stmts[t] : t \in Texts} \ {Nothing})
           \cup {mine[c] : c \in {d \in Callers : pc[d] = "storing"}}

\* Rows keep a connection of the pool out, and are open only while somebody is
\* there to close them.
RowsHaveReader == rows = {c \in Callers : pc[c] \in {"describing", "reading"}}
=============================================================================
