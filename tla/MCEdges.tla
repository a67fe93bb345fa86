-------------------------------- MODULE MCEdges --------------------------------
(***************************************************************************)
(* The values Edges.cfg, RecipeHeals.cfg and FetchReaders.cfg give to the  *)
(* constants of Edges.                                                     *)
(***************************************************************************)
EXTENDS Edges

\* Two datasets that share a node, so that one's rows could pass for the other's.
TwoDatasets ==
  { [nodes |-> {1, 2}, edges |-> {<<1, 2>>}],
    [nodes |-> {2, 3}, edges |-> {<<2, 3>>, <<3, 2>>}] }

\* A late watcher of one call meets the other; so two processes do.
TwoCallers == CHOOSE P \in SUBSET Callers : Cardinality(P) = 2

\* Compiled while another call waits for the mutex, and then found compiled.
OneText == {CHOOSE t \in Texts : TRUE}

\* One before the file a process is killed in, and one after.
ThreeFiles == <<"manifest.json", "nodes", "rels">>

TwoEngines == <<"zu", "neo4j">>
================================================================================
