------------------------------ MODULE MCLoadRun ------------------------------
(***************************************************************************)
(* Schedules for checking LoadRun: a staged write whose Teardown joins the *)
(* staged and the written rows (snb-iu6), an insert (Teardown only) and a  *)
(* read, in orders that make repetitions of one write meet.                *)
(***************************************************************************)
EXTENDS LoadRun

Reads == {"read"}
Writes == {"post", "insert"}
AllQueries == Reads \cup Writes
StagedWrites == {"post"}
JoinedWrites == {"post"}

\* Count mode concatenates the repetitions of each query.
CountSchedule == <<"post", "post", "insert", "insert">>

\* An open-model schedule cycles through the queries.
OpenSchedule == <<"post", "read", "post", "read">>

\* Two repetitions of one write, then a read.
ShortSchedule == <<"post", "post", "read">>
=============================================================================
