----------------------------- MODULE MCTollGate ------------------------------
(***************************************************************************)
(* A workload for checking TollGate: a staged write with a post-condition, *)
(* a read over two draws, a write compared with an oracle, a property      *)
(* self-assignment with nothing to tear down, and a read the engine cannot *)
(* be asked.                                                               *)
(***************************************************************************)
EXTENDS TollGate

AllWrites == {1, 3, 4}
Bracketed == {1, 3}
Staged == {1}
PostConditions == {1, 4}
TellingChecks == {1}
Oracled == {3}
TwoDraws == [q \in Query |-> 2]
EngineOffers == {"dialect-text", "transactions"}
QueryNeeds ==
  [q \in Query |-> IF q = 5 THEN {"dialect-text", "shortest-paths"} ELSE {"dialect-text"}]
=============================================================================
