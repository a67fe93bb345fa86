----------------------------- MODULE MCEngineRun -----------------------------
(***************************************************************************)
(* Two queries for checking EngineRun: a staged write with a telling       *)
(* post-condition and a read over one draw.                                *)
(***************************************************************************)
EXTENDS EngineRun

TheWrite == {1}
OneDraw == [q \in 1..NumQueries |-> 1]
EngineOffers == {"dialect-text", "transactions"}
QueryNeeds == [q \in 1..NumQueries |-> {"dialect-text"}]
NoQuery == {}

PlainEmbedded == [plane |-> "embedded", shape |-> "plain", cold |-> TRUE, persistent |-> TRUE]
ColdRuns == {PlainEmbedded}
=============================================================================
