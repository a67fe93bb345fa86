-------------------------------- MODULE BulkLoad --------------------------------
(***************************************************************************)
(* Session.Load of the adapters whose store can outlive the session: the   *)
(* servers (engine/neo4j, memgraph, mongo, postgres) and the embedded      *)
(* stores at a configured path (sqlite, duckdb).                           *)
(*                                                                         *)
(* A load may stop at any step, with an error or with the harness itself,  *)
(* and leaves what it has written; a workload leaves rows of its own; the  *)
(* next load, of the same or of another dataset, starts from there. A      *)
(* statement is atomic; which rows it carries is the batch, the file or    *)
(* the table, according to the engine. The dataset is of files, with one   *)
(* label and one type; the setup statements of a micro workload, which the *)
(* graph engines run after the same wipe, are left out.                    *)
(***************************************************************************)
EXTENDS FiniteSets, Integers

CONSTANTS
  Engines,   \* the engines at hand
  Datasets,  \* records of the nodes and the edges, pairs of nodes, of a dataset
  MaxLoads   \* bound of the model: how often something is loaded

VARIABLES
  engine,    \* fixed
  ds,        \* the dataset being loaded
  nodes, edges,  \* the rows in the store
  foreign,   \* the store also holds what a workload wrote
  made,      \* the tables exist
  indexed,   \* the index the endpoints are found by
  step,      \* where Load is
  count,     \* the nodes and edges Load will report
  last,      \* how the last Load ended
  loads

store == <<nodes, edges, foreign, made, indexed>>
vars == <<engine, ds, nodes, edges, foreign, made, indexed, step, count, last, loads>>

\* An edge is made between the endpoints a MATCH finds.
Graph == {"neo4j", "memgraph"}
\* CREATE TABLE without a DROP: an embedded file starts empty.
Embedded == {"sqlite", "duckdb"}
\* The rows of a table are one transaction.
Whole == {"sqlite", "postgres"}

Nothing == [nodes |-> {}, edges |-> {}]

Init ==
  /\ engine \in Engines
  /\ ds = Nothing
  /\ nodes = {} /\ edges = {} /\ foreign = FALSE
  /\ made = FALSE /\ indexed = FALSE
  /\ step = "out"
  /\ count = [nodes |-> 0, edges |-> 0]
  /\ last = "none" /\ loads = 0

Go(to) == step' = to

-----------------------------------------------------------------------------
Begin ==
  /\ step = "out" /\ loads < MaxLoads
  /\ ds' \in Datasets
  /\ loads' = loads + 1
  /\ last' = "loading"
  /\ count' = [nodes |-> 0, edges |-> 0]
  /\ Go("clear")
  /\ UNCHANGED store /\ UNCHANGED engine

\* DETACH DELETE of every node, which keeps the indexes; DROP of the tables or
\* the collections, which does not.
Clear ==
  /\ step = "clear"
  /\ engine \notin Embedded
  /\ nodes' = {} /\ edges' = {} /\ foreign' = FALSE
  /\ made' = TRUE /\ indexed' = (engine \in Graph /\ indexed)
  /\ Go("nodes")
  /\ UNCHANGED <<engine, ds, count, last, loads>>

\* Nothing to clear, or CREATE TABLE fails.
Create ==
  /\ step = "clear"
  /\ engine \in Embedded /\ ~made
  /\ made' = TRUE
  /\ Go("nodes")
  /\ UNCHANGED <<engine, ds, nodes, edges, foreign, indexed, count, last, loads>>

\* What the next statement carries of the rows that are left.
Batch(left) == IF engine \in Whole THEN {left} ELSE SUBSET left \ {{}}

LoadNodes ==
  /\ step = "nodes" /\ ds.nodes \ nodes # {}
  /\ \E b \in Batch(ds.nodes \ nodes) :
       /\ nodes' = nodes \cup b
       /\ count' = [count EXCEPT !.nodes = @ + Cardinality(b)]
  /\ UNCHANGED <<engine, ds, edges, foreign, made, indexed, step, last, loads>>

\* Mutated form: a label whose rows did not all arrive is left behind.
NodesDoneEarly ==
  /\ step = "nodes"
  /\ indexed' = (indexed \/ engine \in Graph)
  /\ Go("edges")
  /\ UNCHANGED <<engine, ds, nodes, edges, foreign, made, count, last, loads>>

\* The graph engines index the ids before an edge has to find its endpoints. An
\* index a warm server already has is fine.
NodesDone ==
  /\ step = "nodes" /\ ds.nodes \subseteq nodes
  /\ indexed' = (indexed \/ engine \in Graph)
  /\ Go("edges")
  /\ UNCHANGED <<engine, ds, nodes, edges, foreign, made, count, last, loads>>

\* The rows of a batch that become edges; all of them are counted.
Made(b) == IF engine \in Graph THEN {e \in b : {e[1], e[2]} \subseteq nodes} ELSE b

LoadEdges ==
  /\ step = "edges" /\ count.edges < Cardinality(ds.edges)
  /\ \E b \in Batch(ds.edges \ edges) :
       /\ edges' = edges \cup Made(b)
       /\ count' = [count EXCEPT !.edges = @ + Cardinality(b)]
  /\ UNCHANGED <<engine, ds, nodes, foreign, made, indexed, step, last, loads>>

\* The others build their indexes over the finished tables, and analyze.
EdgesDone ==
  /\ step = "edges" /\ count.edges = Cardinality(ds.edges)
  /\ indexed' = TRUE
  /\ last' = "ok"
  /\ Go("out")
  /\ UNCHANGED <<engine, ds, nodes, edges, foreign, made, count, loads>>

\* neo4j-admin replaces the store while the server is stopped.
AdminImport ==
  /\ step = "clear" /\ engine = "neo4j"
  /\ nodes' = ds.nodes /\ edges' = ds.edges /\ foreign' = FALSE
  /\ count' = [nodes |-> Cardinality(ds.nodes), edges |-> Cardinality(ds.edges)]
  /\ indexed' = FALSE /\ made' = TRUE
  /\ last' = "imported"
  /\ Go("out")
  /\ UNCHANGED <<engine, ds, loads>>

\* A step fails and Load returns its error, or the harness is killed.
Stop ==
  /\ step # "out"
  /\ last' = "error"
  /\ Go("out")
  /\ UNCHANGED store /\ UNCHANGED <<engine, ds, count, loads>>

\* A workload leaves rows behind: a query without a Teardown, or one that failed.
Write ==
  /\ step = "out" /\ last \in {"ok", "imported"}
  /\ foreign' = TRUE /\ last' = "used"
  /\ UNCHANGED <<engine, ds, nodes, edges, made, indexed, step, count, loads>>

Next ==
  \/ Begin \/ Clear \/ Create \/ LoadNodes \/ NodesDone \/ LoadEdges \/ EdgesDone
  \/ AdminImport \/ Stop \/ Write

Spec == Init /\ [][Next]_vars

-----------------------------------------------------------------------------
(* Properties.                                                             *)

\* "a session that inherited the last one's rows would report a load that never
\* happened" (postgres/native.go, Schema): after a load that worked the store
\* holds the dataset, all of it and nothing else, however often loads of this or
\* another dataset stopped half way before.
LoadedIsDataset ==
  last \in {"ok", "imported"} => nodes = ds.nodes /\ edges = ds.edges /\ ~foreign

\* The counts a load reports are taken from the rows it sent, never read back from
\* a graph engine, which makes no edge where a MATCH finds no endpoint: they are
\* right because the nodes are all there before the first edge.
ClaimedIsStored ==
  last \in {"ok", "imported"} =>
    count = [nodes |-> Cardinality(nodes), edges |-> Cardinality(edges)]

\* "without the index every endpoint MATCH in the edge load is a full scan"
\* (neo4j.go, memgraph.go, Load): a graph engine has the index before the first edge.
EndpointsIndexed == engine \in Graph /\ step = "edges" => indexed
=============================================================================
