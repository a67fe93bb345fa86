--------------------------------- MODULE CopyIn ---------------------------------
(***************************************************************************)
(* The bulk loader of the PostgreSQL adapter (engine/postgres/native.go,   *)
(* copyIn): a producer goroutine reads the CSV and sends rows into a       *)
(* bounded channel, the COPY of the driver takes them out, and each may    *)
(* fail while the other waits for it.                                      *)
(*                                                                         *)
(* COPY is one statement: its rows are in the table if and when it         *)
(* completes. To COPY a channel that was closed early looks like a file    *)
(* that ended.                                                             *)
(***************************************************************************)
EXTENDS Integers

CONSTANTS
  NumRows,   \* rows of the file
  Capacity   \* rows the channel holds

VARIABLES
  sent,      \* rows the producer has sent
  taken,     \* rows COPY has received
  producer,  \* "reading", "sending", "reporting" or "gone"
  produced,  \* what is in the channel produced: "empty", "nil", "error"
  more,      \* the channel rows is not closed
  copy,      \* where copyIn is
  parent,    \* the context of Load is alive
  child,     \* the context copyIn derived from it is alive
  failing,   \* the error copyIn has seen
  table      \* rows in the table

vars == <<sent, taken, producer, produced, more, copy, parent, child, failing, table>>
channel == <<sent, producer, produced, more>>

Init ==
  /\ sent = 0 /\ taken = 0
  /\ producer = "reading" /\ produced = "empty" /\ more = TRUE
  /\ copy = "connecting"
  /\ parent = TRUE /\ child = TRUE
  /\ failing = FALSE
  /\ table = 0

Cancelled == ~parent \/ ~child

-----------------------------------------------------------------------------
(* The producer.                                                           *)

Turn(to) ==
  /\ producer' = to
  /\ UNCHANGED <<produced, more, taken, copy, parent, child, failing, table>>

\* The next row is read and parsed; only then does the producer wait to send it.
ReadRow == producer = "reading" /\ sent < NumRows /\ Turn("sending") /\ UNCHANGED sent

SendRow ==
  /\ producer = "sending"
  /\ sent - taken < Capacity
  /\ sent' = sent + 1
  /\ Turn("reading")

Report(what) ==
  /\ producer' = "reporting"
  /\ produced' = what
  /\ UNCHANGED <<sent, more, taken, copy, parent, child, failing, table>>

EndOfFile == producer = "reading" /\ sent = NumRows /\ Report("nil")

\* A row that does not parse, a file that does not open.
BadRow == producer = "reading" /\ sent < NumRows /\ Report("error")

\* Mutated form: the send has no way out but a receiver.
NoticeNever == FALSE

\* The send's other branch: the context is done. With both ready select takes either.
NoticeCancel == producer = "sending" /\ Cancelled /\ Report("error")

\* The channel is closed after the result is in produced, which holds one.
CloseRows ==
  /\ producer = "reporting"
  /\ producer' = "gone"
  /\ more' = FALSE
  /\ UNCHANGED <<sent, produced, taken, copy, parent, child, failing, table>>

-----------------------------------------------------------------------------
(* copyIn.                                                                 *)

Connect ==
  /\ copy = "connecting"
  /\ copy' = "copying"
  /\ UNCHANGED channel /\ UNCHANGED <<taken, parent, child, failing, table>>

\* No connection: copyIn returns at once, and its deferred cancel frees the producer.
NoConnection ==
  /\ copy = "connecting"
  /\ copy' = "failed" /\ failing' = TRUE /\ child' = FALSE
  /\ UNCHANGED channel /\ UNCHANGED <<taken, parent, table>>

TakeRow ==
  /\ copy = "copying" /\ taken < sent
  /\ taken' = taken + 1
  /\ UNCHANGED channel /\ UNCHANGED <<copy, parent, child, failing, table>>

\* The channel is closed and empty: COPY completes with what it has.
CopyEnds ==
  /\ copy = "copying" /\ ~more /\ taken = sent
  /\ table' = taken
  /\ copy' = "judging"
  /\ UNCHANGED channel /\ UNCHANGED <<taken, parent, child, failing>>

\* The server refuses a row, the connection breaks, the context ends: nothing is
\* stored. cancel comes before the wait for the producer.
CopyFails ==
  /\ copy = "copying"
  /\ copy' = "waiting" /\ failing' = TRUE /\ child' = FALSE
  /\ UNCHANGED channel /\ UNCHANGED <<taken, parent, table>>

ProducerIn ==
  /\ copy = "waiting" /\ produced # "empty"
  /\ copy' = "failed" /\ produced' = "empty"
  /\ UNCHANGED <<sent, producer, more, taken, parent, child, failing, table>>

\* Mutated form: a COPY that completed is taken at its word.
TrustCopy ==
  /\ copy = "judging" /\ produced # "empty"
  /\ copy' = "ok" /\ child' = FALSE /\ produced' = "empty"
  /\ UNCHANGED <<sent, producer, more, taken, parent, failing, table>>

\* The producer's error is read back even though COPY saw none.
Judge ==
  /\ copy = "judging" /\ produced # "empty"
  /\ failing' = (produced = "error")
  /\ copy' = IF produced = "error" THEN "failed" ELSE "ok"
  /\ child' = FALSE /\ produced' = "empty"
  /\ UNCHANGED <<sent, producer, more, taken, parent, table>>

ParentEnds ==
  /\ parent /\ parent' = FALSE
  /\ UNCHANGED channel /\ UNCHANGED <<taken, copy, child, failing, table>>

Produce == ReadRow \/ SendRow \/ EndOfFile \/ BadRow \/ NoticeCancel \/ CloseRows
Consume == Connect \/ NoConnection \/ TakeRow \/ CopyEnds \/ CopyFails \/ ProducerIn \/ Judge

Next == Produce \/ Consume \/ ParentEnds

\* Both goroutines run when they can. Nothing makes the context end.
Fairness == WF_vars(Produce) /\ WF_vars(Consume)

Spec == Init /\ [][Next]_vars /\ Fairness

-----------------------------------------------------------------------------
(* Properties.                                                             *)

\* "a copy that stopped early looks exactly like a copy that finished"
\* (native.go, copyIn): so a load that reports success has the whole file in the
\* table, whatever the reader met.
SuccessIsWhole == copy = "ok" => table = NumRows

\* "a producer parked on a send into a channel nobody drains would sit there for
\* the life of the process" (native.go, copyIn): copyIn returns and so does the
\* producer, in every order of failures.
BothEnd == <>[](copy \in {"ok", "failed"} /\ producer = "gone")
=============================================================================
