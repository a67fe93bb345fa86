# A formal model of graph-bench

graph-bench runs the same queries on several graph engines and publishes what
it measured. Its own correctness is a matter of harness logic: that a query is
checked before it is timed and against the right answer, that what is timed is
what was meant, that concurrent clients and failing statements do not change it,
that every way out of a run gives back what the run took, that the figures say
what the samples say, and that files several processes share survive them. This
directory models that logic in TLA+, checks it with TLC, and proves the central parts
with TLAPS for every value of the constants.

    tlc -workers 2 -config LoadRunCount.cfg MCLoadRun     one run
    tlapm LoadRunProofs.tla                               one module's proofs

`PROJECT.json` lists the components, the runs, the theorems, for each definition
the source lines it stands for, and for each property of a passing run a mutated
form of some definition under which TLC finds the property violated. The mutated
forms are in the modules, each just before the definition it mutates.

Contents: 1 inventory, 2 modules, 3 runs, 4 proofs, 5 where code and comments
disagree, 6 what is not modelled, 7 plan.

## 1. Inventory

What one command does:

    run verb  --per engine-->  executeRun
                                 dataset, container, session start, bulk load
                                 bindParams        workload's parameter cursors
                                 verify.Run        toll gate
                                 measurePlan       measure.Run / Sweep / analytics, ColdRun
                                 session.Close, sizes, document
              --after all-->   report.Write, index, exit status
    gate verb  reads documents and judges them against older ones and noise

There is little shared state, and it is where the difficulty is: the graph in
the engine's store (changed by every write, read by every query), the parameter
cursors (shared by phases and by engines), the context (one interruption ends
anything, at any moment), and the slots, mutexes and connection pools.

| component | state it keeps | operations | what is hard | what makes it correct |
|---|---|---|---|---|
| load generator, `measure/run.go` | slots, a mutex per bracketed query, samples, budgets | `Run`, the op goroutine, `Setup`/`Teardown` bracket | goroutines, deadlines inside a bracket, early returns, cancellation | no slot lost; repetitions of a write take turns and meet no rows but their own; every query measured; the summary is complete; it returns |
| toll gate, `verify/verify.go` | reports, approvals, poison | `Run`, `verifyRead`, `verifyWrite` | a write fails in one of six places and leaves rows; interruption | no query approved that was answered wrongly; rows left are reported; nothing after poison |
| run pipeline, `cmd/graph-bench/exec.go` | sessions, sampler, container, directory, `closed` | `executeRun`, `measurePlan`, deferred calls | every step fails; two sessions and one flag; order of unwinding | everything released, in an order that never pulls the ground from under a session; only a clean graph is measured |
| run verb, `run_cmd.go` | documents, failures | the loop over engines | one engine's failure must not hide in another's success | exit tells of every engine |
| parameter sources, `workload/params.go` | a cursor per query | `Next`, the family binder | the cursor outlives an engine's run | engines are timed on the same draws; verification compares distinct ones |
| zu session, `engine/zu/inproc.go` | `all`, `idle`, `closed` | `Exec`, `Begin`, `finish`, `Load`, `Close` | callers share libzu connections that are not safe to share; failed commits; a file replaced under them | one holder; none lost; none opened without need; none free with a transaction open |
| zu2 session, `engine/zu2/inproc.go` | the same, and a durability per session | `Load` lowers durability and restores it | partial failure of Load | a lent session has the configured durability; what a load wrote is on the device |
| ladybug session | one connection behind a lock, its timeout, prepared statements, a watcher per call | `Exec`, `watchCancel` | the watcher runs when it likes; the timeout outlives its call | an interrupt reaches only its own call; a query has its own deadline; watchers end |
| relational adapters, `engine/sqlbase` | statement cache, load transaction, the COPY of postgres | `Exec`, `Load` | two callers prepare one text; COPY and its producer wait on each other | one statement per text, none leaked or closed in use; a load is whole or fails |
| Bolt adapters, `engine/neo4j`, `memgraph`, `bolt` | a Result that owns its transaction | `Exec`, `Result.Close` | commit happens in Close | committed, rolled back or returned, on each way out |
| mongo adapter | none | `Load`; one driver call per op | a server that outlives a load | the dataset and nothing else |
| engine contract, `engine/engine.go` | none | the interfaces | late failures of a stream | what the other models assume of an engine |
| memory sampler, `measure/sample.go` | one goroutine, last reading | `Start`, tick, `Stop` | a tick after the engine has gone | the last reading is the engine's |
| warmup, mixed schedule, sweep, `measure/mixed.go`, `warmup.go`, `sweep.go` | a window of latencies; remainders | `WarmupDetector`, `BuildMixedSchedule`, `BuildSchedule`, `Sweep` | rounding, a detector that never settles | shares add up and are the nearest; warm only on earned evidence |
| latency statistics, `measure/measure.go`, `drift.go`, `teps.go` | none | percentiles, summaries, drift, traversal rates | failures among samples, ranks at n = 1 | nearest rank of what completed; failures counted, never timed |
| regression gate, `gate/` | none | verdicts from documents, noise, pairs, a rival | thresholds, missing cells, several findings at once | a regression is never passed, noise never fails, one exit code tells all |
| managed containers, `setup/` | one container | `Start`, `Stop` | a start that is interrupted | no container left behind |
| answer comparison, `workload/compare.go` | none | ordered, multiset, tolerant | ties, duplicates, numbers rounded in a sort key | equal answers compare equal, whatever their order; unequal ones do not |
| reference oracles, `workload/*oracle.go`, `lsqb`, `finbench`, `linkbench` | the loaded dataset | one routine per query or kernel | parallel edges, loops, ties, walks that meet a node twice | the answer the text of the query asks for |
| parameter curation, `workload/curate.go`, `finbench/pools.go` | none | bands of pairs, pools of windows | too few candidates, a size not a multiple of the bands | each pool asks what its query is for |
| synthetic generators, `dataset/gen` | one stream of draws | a function of the configuration and seed | order of draws, rejection, rounding | the promised shape for every seed; a pinned recipe never changes |
| dataset layout, `dataset/`, `recipes.go` | directories named by checksum, an index | materialize, generate, find | two processes; a kill at any step | a final name only over complete files; never replaced |
| LDBC fetch and repack, `dataset/ldbc` | archive, temporary tree, cache | fetch, verify, extract, repack, install | interruption between steps, a retry, two processes | the cache holds the pin's bytes; half a copy heals |
| result documents, `report/` | append-only files and an index; params.json beside a dataset | `Write`, `UpdateIndex`, `WriteParamsPool`, render | two writers; a crash in the middle | a document is never overwritten; a cell is never a number that was not measured |
| workload definitions | none | queries and their texts | - | data |

`PROJECT.json` has the same list by source file with each part's status, and the
hazards at the lines where they bite.

## 2. Modules

| module | models | abstract specification | proofs |
|---|---|---|---|
| `LoadRun` | `measure.Run` | `Admission` | `LoadRunProofs` |
| `TollGate` | `verify.Run` | - | `TollGateProofs` |
| `EngineRun` | `executeRun`, `measurePlan`, sampler, container; composes `TollGate` | - | `EngineRunProofs` |
| `RunVerb` | the run verb and the parameter cursors | - | `RunVerbProofs` |
| `ZuPool` | the zu adapter's connection pool | `Lending` | `ZuPoolProofs` |
| `Zu2Pool` | the zu2 adapter's session pool and its Load | `Lending` | `EdgesProofs` |
| `LadybugSession` | the ladybug adapter's connection, watchers, statements | - | `EdgesProofs` |
| `SqlSession` | `sqlbase.Session`: statement cache, rows, Close | - | `EdgesProofs` |
| `CopyIn` | the COPY of the postgres adapter | - | `EdgesProofs` |
| `BulkLoad` | `Session.Load` of the servers and of sqlite and duckdb | - | `EdgesProofs` |
| `BoltSession` | `bolt.Pool.Run`, `Begin`, results, transactions | - | `EdgesProofs` |
| `Recipes` | the directory of generated datasets and its processes | - | `EdgesProofs` |
| `PinFetch` | `ldbc.Fetch` | - | `EdgesProofs` |
| `Lineage` | result documents, their index, params.json | - | `EdgesProofs` |
| `Edges` | the seven adapters and the four kinds of shared files side by side | - | `EdgesProofs` |
| `Statistics` | summaries, drift, traversal rates | second definitions | `ReportProofs` |
| `Schedule` | mixes, arrivals, warmup slice | what was asked for | `FiguresProofs` |
| `Warmup` | the warmup detector | second definitions | `FiguresProofs` |
| `Gate`, `Comparisons` | the gate; noise, pairs and the rival | what a fair verdict is | `FiguresProofs` |
| `Figures` | questions asked of the algorithms, beside the detector | - | `FiguresProofs`, `ReportProofs` |
| `Oracles`, `FinOracle` | the references; the pools of finbench; linkbench's lists | second definitions, the query texts | - |
| `Answers` | `workload.Compare` | matching of rows | - |
| `Prng`, `Generators`, `TableData` | the stream of draws, the writer, every generator | the promised shapes | - |
| `Curation` | `workload.Curate` | the bands | - |
| `Repack` | the repack of an LDBC tree | - | - |
| `Matrix` | what a reader is shown | what may be shown | `ReportProofs` |

Each `MC...` module holds only the small instances for TLC and the questions asked
of them. Parts that never touch one another share a run: a fixed variable, `part`,
says which one moves, so their state spaces add up instead of multiplying.
`Edges` is such a composition for any values of its constants, under `EdgesAssumption`
(a session's loader is none of its callers, a dataset is finite and its edges join its
nodes, a pin and a run are not empty, a sentinel names nothing real); it is what the
proofs are about. `Figures` does the same for the verdicts, the schedules, the statistics
and the tables of the report, for any questions of the right shape (`FiguresAssumption`:
documents, runs, readings and lineages as the harness writes them); `MCData` adds the
references and the data.

**LoadRun.** One dispatcher (`dpc`, `next`) and one goroutine per operation
(`pc[i]`). The dispatcher's actions are the loop body of `Run`: an arrival, the
budget test, the wait for a slot, the launch, and at the end the wait for all.
The goroutine's are `Lock`, `Setup`, the execution with the sample it records,
the deferred `Teardown`, unlock, release. Slots are `free`, mutexes `gate`, rows
in the store `graph[q]`: whose they are, and whether Setup staged them or the write
left them, because the Teardown of a `Joined` query (snb-iu6) matches both together
and deletes nothing when one is missing. Time is not a
number: a deadline, the budget of a query and the run's context are flags that
the environment may raise in any state, so a property that holds, holds for all
timings. In count mode the dispatcher takes a slot before it launches; in the
open model it launches and the goroutine queues, as in the code. `abandoned`, `lost` and
`broken` are history variables the properties speak of: a Setup or Teardown that
failed, a joined write that failed without an effect, a stream that broke.

**Admission** is what the clients see: at most Concurrency inside, one
repetition of each bracketed query at a time, everyone who came in leaves.

**TollGate.** `query` and `at` walk the loop of `Run`: the static filter
(`Judge`), the draws of a read, then for a write setup, execute, the check or
the comparison of its own rows, teardown. `graph` holds the writes whose scratch
rows are in the store. An answer is right or wrong; a read over a graph that
holds rows may be wrong with the engine blameless, which is why the order of
teardown and later reads matters. Every statement may fail by a fault of the
engine or by the cancelled context, and the two are told apart in `wrong`.

**EngineRun.** `pc` walks `executeRun` and then its deferred calls, each a step
of its own in reverse order of registration. TollGate runs inside it on the same
variables (`Gate == INSTANCE TollGate`), so verification's every interleaving
with the interruption is there. The warm measurement is one step: `LoadRun` is
about its inside, and what EngineRun takes from it is that it may leave rows and
reports no error. The cold session, the `closed` flag and the sampler's ticks are
as in the code. The container may become ready, be late or never be.

**RunVerb.** `cursor[q]` is `PoolSource.next` and `size[q]` the pool under it. Only a
family binder puts them back, and when it fails, which the code prints as a warning, it
has renewed some queries and left the rest as the engine before left them; `rebound`
says for which engines it worked. Verification, schedule, warmup and cold pass of each
engine move the cursor. `timed` is what comes to run: a plain schedule up to where its
budget cuts it, a mixed one round and round the 64 draws as often as the query's share
asks, an analytics operation repeated; and how much of its beginning is warmup. What
`EngineRun` says of one engine is here a few steps: what it draws and how it may
end.

**ZuPool.** `all`, `idle` and `closed` are the session's fields, every change to
them one step because the code makes each under the mutex; `hand[c]` is what the
caller holds between two such steps. A connection is the number of its opening.
`Exec` in a transaction touches none of this and is not an action. The contract of
`engine.Session` (`Load`, then `Exec`s, then `Close`) is assumed of the callers:
no call is under way in `Load` or `Close`, although a transaction may be left open.
**Lending** is what any such pool promises: a connection is in one hand and open,
and a closed session lends none. It is stated apart because zu2's pool implements
it too.

**Zu2Pool.** The same pool with two differences: the database opens when it is first
needed, sized for the dataset if that is a Load, and Load itself takes a session. It
holds the mutex from end to end, but is taken apart into the steps of the code,
because any may fail and what is deferred (the restore of the durability, then the
release) still runs. `async` is the set of sessions not at the durability asked for.

**LadybugSession.** A call takes the mutex, sets the timeout of the connection, starts
its watcher, compiles its text if it is new, runs, and on every way out closes the
stop channel and unlocks. The watcher is another process: with its context done and
its stop channel closed it may take either branch, as Go's select may. The calls that
set no timeout and start no watcher (of Load and of transactions) are `Statement`.

**SqlSession.** `prepared` between `Load` and `LoadOrStore` of the sync.Map, where two
callers may both be; the rows that stay open while the caller reads; Close.

**CopyIn.** Two goroutines, a bounded channel, the one-place channel `produced`, and
two contexts. COPY is one statement of the server: all its rows or none.

**BulkLoad.** Clear or create, nodes, index, edges, indexes, with a stop possible after
any statement, rows of a workload in between, and another load after it. An edge of a
graph engine is made only if its endpoints are found, and is counted all the same.

**BoltSession.** For each caller where its operation is, whether the driver's session
and the server's transaction are open, whether the write took effect, and what the
caller was told. The driver is external; what is assumed of it is in the header.

**Recipes.** Processes resolve a recipe, generate one by its configuration, or look a
custom dataset up, step by step: read the index, open the cached copy, generate into
a hidden stage, write the manifest, Stat, Rename, open, write the index. `dirs` is
what stands under the final names. A kill may come between any two steps, a file may
rot, and the index is written in place. The name of a seeded recipe stands for its
bytes, so two processes that make one recipe make the same directory.

**PinFetch.** The steps of `Fetch`: open the cache, two servers, the checksum of the
archive, extraction and repack, the checksum of the content, the rename, and when
that fails the copy file by file, each emptied before it is filled. Servers may send
anything. `company` remembers that a call was not alone, for the property that holds
only alone.

**Lineage.** A run writes one document per engine (created, then encoded) and with
`--publish` lists all documents; `curate` merges its pools into params.json. Names
have one-second resolution, so two runs may want the same. `disturbed` is a history
variable: another process wrote the file since this one read it.

**Statistics, Schedule, Gate, Comparisons, Oracles, FinOracle,
Answers, Prng, Generators, TableData, Curation, Repack, Matrix** are functions.
Each algorithm of the code is an operator of the same structure (the same passes in
the same order, the same early returns and rounding), and next to it stands what it is
held to, written in another way: a percentile as the smallest sample with enough
samples at or below it, a count of a join as the set of matches of the pattern in the
query's text, a verdict as what each of its documents shows. In Statistics and Schedule
a sort with an index into it is the n-th least, found by counting, and a sum is the number
of units its terms have together, so that both can be proved about. Floating point is exact
fractions, and where the code rounds, the rounding is modelled; a name, a payload or
a digest is a number or a model value. A word of the generators has `Bits` bits in
place of 64, multiplication by halves and rejection included.
**Warmup** is a state machine that moves sample by sample, because what it says depends
on all it has been fed.

## 3. Runs

Each run finishes within three minutes on two cores (`Figures`; the others within
one). Every action fires in some passing run.

| run | question | instance |
|---|---|---|
| `LoadRunCount` | do repetitions of a write meet no rows but what a failure explains, and is every query measured, when any statement may fail? | 2 ops of a staged write whose Teardown joins, 2 of an insert, 2 clients, budget, faults in Setup, write and Teardown |
| `LoadRunOpen` | are slots conserved, is the summary complete, does Run return, when deadlines pass and the run is cancelled? | 2 ops of a staged write and 2 reads, 2 clients, one warmup op |
| `TollGate` | is a cleared query one the engine answered, is the graph clean or the failure reported? | 5 queries, one of each kind, all faults, interruption |
| `EngineRun` | is everything given back, in a safe order, on every way out; does it return? | all 36 kinds of run, 2 queries, every step may fail |
| `RunVerb` | are the engines run on the same draws where the binder worked, is what is measured spread over the pool, does the exit tell of every engine? | 2 engines, 3 queries, every kind of command, a binder that fails half way |
| `Edges` | what the harness shares with engines and with other processes, with any step failing and any process killed | the seven adapters; the recipes, the pin, the lineage and the pools, each with 2 processes |
| `Figures` | are the numbers, verdicts, references, pools, datasets and tables what they say they are? | some 200,000 enumerated inputs to the algorithms |
| `LoadRunStream`, `TollGateBlame`, `LadybugInterrupt`, `RecipeHeals`, `FetchReaders` | section 5 | the smallest instance that shows it |

What the properties of `Edges` and `Figures` join:

- `NothingLost`, `TxKeepsItsConn`, `LendsSafely` (zu), `SessionsAsPromised` (zu2,
  ladybug), `NothingLeftOpen`, `LoadsAreWhole`, `ToldCommitted`, `GoroutinesEnd`: what
  an adapter owes the harness.
- `CacheIsSound`, `NeverReplaced`: a directory under a final name was whole when it got
  there, no index names one that is not there, and none is replaced or removed.
- `CacheIsThePin`: no byte that is not the pin's, whatever the servers send, and a fetch
  that had no company ends with the dataset, whatever a killed one left.
- `SharedFilesSurvive`: documents do not change, the index names documents only and all
  of them if nobody else wrote, a curation alone with its file loses no pool.
- `SummaryOfCompleted`: counts, percentiles, drift and rates over samples of which any
  may have failed.
- `VerdictsAreFair`: each finding is one a reader of the documents would make, the exit
  code tells the worst, slower never helps, swapping the sides of a pair swaps the
  verdict, noise alone decides nothing.
- `ScheduleIsExact`: shares off by less than one slot and adding up, a heavier query never
  fired less, the draws of a query used evenly whatever the shuffle; an open run records
  what it was asked to, within the window of its throughput, but for one op and what
  cutting the interval to a whole tick moves into the warmup; the full warmup reaches every
  query.
- `StableIsEarned`: warm only after the floors and after enough agreeing buckets in a row.
- `OraclesAgree`, `TextsAgree`: two ways of computing each reference, and the reference
  against the pattern or trail its query's text asks for.
- `ComparisonIsFair`: a reordered or renamed form of an answer is accepted, and one whose
  numbers differ within tolerance if they round to the same twelve digits; an answer that
  cannot be paired off with the reference within tolerance is refused. What can be paired
  off and is refused all the same has rows that rounding and the tolerance tell apart
  differently, and nothing else (section 5).
- `DataAsPromised`: draws favour nobody, each generator keeps its shape for every seed,
  the tables' ids do not collide, weights do not move edges, the repack loses and invents
  no row, a pool holds what its query is for.
- `MatrixTellsAll`: a row is compared in one unit, an absent, failed or partial number is
  marked and explained, no engine's column takes another's numbers.

**Bounds, and why they are enough.**

- LoadRun. `NumOps` 4: the hazards are between two repetitions of one write
  (two ops), with another query contending for the slot, whose last repetition a budget
  may drop. The write is the joined one in `LoadRunCount`, where statements fail by
  themselves, and one that deletes what it finds in `LoadRunOpen`, where they fail by
  their context. Two clients: one inside and one waiting, for slots and for
  mutexes. The theorems drop all these bounds.
- TollGate. Five queries, because the kinds of query are five: what remains of
  one write is seen by the read after it, and a skipped query must change nothing.
  Two draws: the first right, the second wrong.
- EngineRun. Two queries, a write that can leave rows and a read that can be
  wrong. The number of queries is TollGate's concern; the pipeline's is the order
  of its phases, and these are all there.
- RunVerb. Two engines are one before and one after. `FamilySize` 3, 2, 1 and
  `GenericSize` 2, 3, 1 against samples of 2 give a pool larger than the sample, one of
  its size, a write and a query without a pool, and a binder that fails changes the pool
  under one query and not under another. `Count` 4, 3, 1 runs past the end of the pools.
  `MixDraws` is 3 where the code has 64: a pool that goes into it and one that does not.
  `Dispatched` is a whole schedule and one cut short: with a share of 4 a mixed run goes
  round its draws, with a warmup of 2 it begins in the middle of a pass. `Reps` 2.
- Edges, the adapters. Three callers of a pool: two in each other's way and a third that
  takes what they give back; of a statement cache: the first to store, the loser, and
  one that runs the cached one meanwhile. Two of ladybug: a call and the late watcher of
  another. One load of zu comes before, between or after the calls; two of zu2, so
  that one follows a load that failed. Three loads of a store: one that stops half
  way, one of the other dataset, one after it. The file of 4 rows is longer than its
  channel of 2. Connections are not bounded.
- Edges, the files. Two processes are in each other's way; three calls give one that
  comes after both, and finds what they left. One kill or rotted file, as no property
  survives by counting them. Two recipes and a custom name share one directory and index.
  Three files of a pin: one before, the one it is killed in, one after. Two engines make
  a run that writes twice, two seconds give names that collide and names that do not.
- Figures. The inputs of an algorithm are those of a small shape: groups of up to three
  samples any of which may fail, and longer ones at the sizes where a percentile's rank
  jumps (9 to 11, 19 to 21, 99 to 102); graphs on three and four nodes, with
  loops and parallel edges; answers of up to two rows of each kind of value; documents
  with a latency on either side of each threshold; the configurations at which a
  generator refuses, rejects or saturates, each for thirteen seeds, one negative. `Bits`
  is 6, an even number as the product by halves needs, with shifts and multipliers of
  that width. A shape is large enough when each branch of its algorithm is taken and
  each of its ties occurs. `PairTries` is 4 where the code has 64: near-complete graphs
  use it up either way, and 6 bits of state soon repeat their draws. `Thousand` is 100 where a
  unit is 1000 of the next, so that small latencies have every unit; the theorem takes any
  number from 10. What 64 bits do that 6 do not, a count so large that it
  overflows, is not checked.

`CHECK_DEADLOCK FALSE` is said in every run because the modelled program ends:
`Run`, the command and the session all stop. That they do end is checked as
`RunReturns` where something could keep them from it.

**Fairness.** LoadRun: weak fairness of the dispatcher and of each goroutine,
because the Go scheduler runs what can run, an engine call returns (it does under
its context), and a mutex or channel with a waiter is served. Weak is enough, as a
goroutine waiting on a mutex is ready until it gets it in any state the finite
schedule ends in. Nothing is assumed of deadlines, budgets, cancellation.
EngineRun: weak fairness of the harness, one goroutine whose calls return, and of
the container's start window, which is wall-clock time. Nothing makes a server
answer and nothing makes the ticker fire. LadybugSession and CopyIn: weak fairness of
their goroutines, because each runs when it can and a query ends; in LadybugSession
only one of the calls and one of the watchers at a time is asked to move, as the calls
are finitely many. Nothing makes anyone call, or a context end. TollGate, RunVerb, the
other adapters and the files are checked for safety only: they have no wait in them but
that of a call.

## 4. Proofs

All are for arbitrary constants under the named assumption of each module, which
TLC evaluates in the runs.

**LoadRunProofs** (any schedule, pool size, mode, faults). A slot can be lost only
if some path through the goroutine misses a release; so `PoolInv` joins type
correctness, `free = Slots - |Holders|` and the dispatcher's cursor, and one
lemma shows every action takes a slot, gives one back or moves none. `GateInv`
(who is between Setup and Teardown holds the gate of its query) gives mutual
exclusion. `RowsInv` adds what is in the store in terms of who holds the gate:
everything goes away before the gate does, but for residue of a Setup or Teardown that
failed and, of a joined query, of a write that failed without an effect (`Leavers`);
hence `OwnRowsOnly`. That a joined Teardown that works after a write that worked leaves
nothing is because both kinds of rows are then there. `SampleInv` follows the sample
from the place of the goroutine; with the wait for all, `SummaryIsComplete`.
`BudgetInv` says every query the dispatcher has passed has a measured op, because its
budget cannot run out before its first one: hence `EveryQueryMeasured`. Last, each step
is an Admission step or a stutter: `RunnerImplementsAdmission`.

**TollGateProofs** (any workload, any engine). `PlaceInv` relates the step a query
is at to what its class has; `EarnInv` says a query on its way to approval is
not marked wrong or lost and no later query is marked at all, because only the
query under verification is ever marked; `ResidueInv` says rows in the store are
those of the query at hand or of one reported FAIL; `PoisonInv` says poison
leaves only the way out. `LoopInv` says every query behind the one under verification
has its report; with `ResidueInv`, a plan that is not poisoned and has no FAIL has a
verdict for each query and leaves nothing in the graph: `CleanPlanVouches`.

**EngineRunProofs** (any workload, all kinds of run). What executeRun holds follows from
where it is. `HeldInv` says so part by part: `SessionInv` where a session may be open,
`ContainerInv` from when to when a server is up, `DirectoryInv`, `SamplerInv`. The parts
need one another (a server is up while a session is open only because the deferred calls
run in reverse order, and the directory goes last), and four lemmas show each step keeps
them: setup with its failures, verification, measurement, unwinding. Hence
`EverythingReleased`, `GroundKept` and `SizedWhenShut`. For `MeasuredOnCleanGraph`, each
step of verification is shown to be one of TollGate's (`VerifyIsToll`), so the invariant
proved there holds of the plan until it is judged, and a plan that passes judgement is
a clean one. It rests on `EngineRunAssumption` and `WorkloadAssumption`, the latter
TollGate's own.

**RunVerbProofs**. `BinderGivesSameDraws`: where the binder worked every cursor stands at
the number of draws the engine has made and every pool is the family's, so an approved
read begins its schedule at `Samples(q)` for each of these engines, and place k of what
it runs is the same entry, wherever either stopped. `DrawInv` is that statement at each
step of a run. It needs no assumption on what the engines before did, and says nothing of
an engine whose binder failed. `ApprovalIsBroad`: the entries
compared so far are the window of the pool before the cursor, and as it is never wider
than the pool, each draw is a new one; the arithmetic is in `RemaindersDiffer`, from the
division lemmas above it. `TimingIsEven`: within a pass over the draws the places of an
entry are matched with places of any other, all but the last, one to one; so a pass adds
a difference of one at most, and if the pool goes evenly into the draws the passes join
to one stretch of the pool repeated and the difference stays one. `ExitHidesNone`:
`CountInv`, documents and failures together are the engines gone through.

**ZuPoolProofs** (any set of callers, any number of loads). `OneHolder` is not
inductive: a connection that opens is new only because all are known
(`NothingLost`), and one given back is not already free only because of `OneHolder`.
`PoolInv` has both, with two facts about the place of a caller: it holds a
connection except when out, and a closed session has none of its calls under way. The
lemma `AcquireTakes` states once what both ways of getting a connection do.
`PoolLends` then shows every step is one of `Lending` or invisible to it.
`TxInv` says who is in a transaction and that its connection is the one it began
on; only the owner's own steps touch either, and Close takes nobody's: hence
`TxConnIsItsOwn`. `NeedInv` says the open connections are finite in number and at
most the most ever out at once: one is opened only when none is free, and then all
the open ones are out. Hence `NoneOpenedWithoutNeed`.

**EdgesProofs, the adapters** (any callers, texts, rows, datasets and loads;
`EdgesAssumption`). The theorems are about `EdgesSpec`, the specification the run `Edges` checks; `AdapterSteps`
says once that a step of it is a step of each adapter or nothing to it, and each adapter
then has its own inductive invariant.
- *Bolt*: `BoltInv` is the place of a caller and what it was told, together with the two
  properties, which need each other: the session is open until the way out, and the
  COMMIT is on the way out. `ToldCommittedAlways`.
- *SQL*: that no statement is closed under a caller that runs it is not inductive. It
  rests on `Cached` (what is cached for a text is of that text), `Prepared` (what a caller
  has prepared and not yet stored is its own and not in the cache, so the loser of a
  `LoadOrStore` closes its own) and `Running` (what a caller runs is the cached one).
- *ladybug*: who is at work has the mutex, so the timeout on the connection is its own,
  and a text that is being compiled is not in the cache. With SQL, Bolt and
  `CloseFreesAll` of zu: `NothingStaysOpen`.
- *Loads*: `CopyInv` counts the rows sent, in the channel and taken. `LoadInv` says of
  each step of a load what of the dataset is in the store by then, and that the number it
  counts is the number it has made, because the nodes and their index come before the
  edges. `Z2Inv` has one place for each session, the list of idle ones without repetition, that
  no caller holds one while Load is under way (`LoadAlone`), and the durability
  (`Durable`, `OnDevice`). Together they are `LoadsAreWholeAlways`.
- *Refinement*: `Z2StepLends` takes the steps of zu2 one by one to a step of `Lending`, or
  to none. `SessionsKeepPromises` joins it to the deadline of ladybug.
- `ZuIsThePool` carries what ZuPoolProofs shows of the zu pool into the composition.

**EdgesProofs, the files** (any number of processes, recipes, files, engines, keys, calls
and kills; `EdgesAssumption`), in three parts that share no file.
- *Recipes*. What lies under a final name is sound only if what a rename brings there is,
  so `RecipesInv` joins to `CacheIsSound` and the types two facts about a process on its
  way to the rename: its stage is whole (`Staged`), and it resolves a name of the kind it
  was asked for (`Asked`). The index names what is there because a process writes it only
  after it opened the directory, and directories do not go away: `InstalledStays`, from
  the same invariant.
- *PinFetch*. `OnlyPinnedBytes` rests on `Checked`: whoever is past the second checksum
  holds the pin's bytes, and nobody else writes to the cache. For `TornCacheHeals`,
  `Alone` says a fetch that has had no company is the only one, so that `Copied` can say
  the files it is past are right and the one it fills has been emptied by nobody else.
  Together they are `CacheStaysThePin`.
- *Lineage*. `LineageIsAppendOnly`: a document being encoded is in a file no other
  process is at (`OwnFile`, which is what O_EXCL is for), so no step changes one that was
  read; what is listed is a document, and while nobody else writes, what is not listed yet
  is still to be read (`Listing`). `NoPoolIsLost`: an undisturbed curation has every pool
  of the file in hand, and finds the file as it emptied it (`MergeInv`). Together they are
  `SharedFilesKept`.

**FiguresProofs** (any documents, runs, readings and questions, any stream of samples;
`FiguresAssumption`, `WarmupAssumption`), in five parts.
- *Ranks*. A percentile is a CHOOSE: the value that has fewer than n below it and n at or
  below it. That there is one is what the first lemmas show: any finite set with a total
  ranking has, for each k up to its size, a member of that rank (`RankExists`), and its
  least and its greatest (`HasLeast`, `HasMost`). Indices of a list, latencies and factors
  compared as fractions are such sets.
- *The detector*. `WarmInv` says that each p99 kept is the one of the samples of its
  window, that the windows follow one another without a gap and hold every sample fed, and
  that a stable detector has passed its floors and its streak. With `P99IsP99` (what the
  nearest rank of a hundred gives) it is `WarmupIsEarned`.
- *The gate*. An answer once given belongs to its question (`AskedInv`), so that each
  property is a lemma about the algorithm. A slower query only adds findings: each check
  is monotone in the latency (`SlowerFailsToo`), an exit code grows with the failures, and
  the findings it loses are of those not ruled on. Every finding is traced back to the
  entries of both documents (`RulesOnEvidence`), and the newest document of a workload is
  picked whatever the order they were read in. `GateIsFair`.
- *Comparisons*. Ratios are fractions, and what is said of them is proved from products
  (`LeqPasses` and its neighbours). `RepeatedRunsAreFair`: the worst of the spreads is at
  least each ratio of two runs, ranks of growing percentiles grow; a pair of builds has
  one row for each query both sides measured, inverted when the sides are swapped, so that
  best and worst change places; a further run of the new build, with any readings, keeps
  every row and makes none slower (`FurtherRowsAreLower`), though it may add rows for
  queries that had none. For a rival,
  `RivalVerdictIsFair`: one volume means one probe of the disk, whichever side drew the
  dearer, and the band is all that is left undecided. Together: `EveryVerdictIsFair`.
- *Schedules*. A sum over a mix is counted: the number of units its queries have together
  (`Units`), so that sums add and scale by bijections and need no induction (`SumsAdd`,
  `SumsScale`). The slots the whole parts leave over are what was cut off, counted in
  slots, and fewer than the queries (`LeftOver`); the order of the remainders gives
  everyone a place of their own (`PlacesAre`), so exactly the first so many get one more
  (`ServedAre`), and none that was not cut (`ServedWereCut`). The ops of a query are ranked
  the same way, and of the first c numbers about as many leave one remainder as another
  (`RemaindersAreEven`). The ops an open run skips are the first so many (`SkippedAre`),
  compared with those the count was raised by (`LostIs`). `SchedulesAreExact`.

**ReportProofs** (any runs and readings, any lineage of documents of either schema;
`FiguresAssumption`), on top of FiguresProofs, in two parts.
- *Summaries*. The n-th latency is again a rank (`NthIs`), and the rank the code rounds up
  to is the least that reaches the percentage (`RankRoundsUp`, `NearestIs`). A sum is the
  units of its terms, so the mean lies between the extremes (`TotalBounds`, `AverageIs`)
  and the deviation within what separates them (`DeviationIs`). Each sample has a place in
  one class, one to one, so the counts add up to the samples (`PartsCover`). The maximum a
  whole window is counted to, and the first of the worst windows, exist (`WindowsAre`,
  `WorstExists`); the median of halves of one length is monotone in them
  (`MediansCompare`); the time of the timed repetitions is bounded by the fastest and the
  slowest (`RateAggregates`). `SummariesDescribe`.
- *The matrix*. `MatrixIsTold`. An order of a finite set is a list because places are
  counted and not built: the k-th is the one with k - 1 before it, each has one place and
  each place is taken (`InOrderIs`, from the ranks). So the columns are the documents, each at
  the place its plane gives it (`OrderedIs`), and the rows are the labels known to somebody,
  each once (`MatrixIs`, `SectionShown`). A file read by either schema is a document of
  the current one (`OldIsDoc`, `NewIsDoc`). A cell is one of four kinds, and which one says
  what is known of its label (`CellIs`, `CellsEarned`); rounding to the digit of a row is
  monotone, so that numbers compare as latencies do (`FormatsCompare`). The lines of the
  csv are those of the known labels (`LinesAre`, `CsvTells`). The fastest of an overhead
  exists because a finite set has a least (`CostsCompare`), and the newest document of an
  engine because one has a highest (`NewestTold`). What the layout must be for this is
  assumed in `FiguresAssumption`: labels and metrics in order, each once, and the sampled
  metrics among the rows.

**Only model-checked.** `RunReturns` of LoadRun and EngineRun, `GoroutinesEnd` of the
adapters: liveness is out of the prover's reach. `OraclesAgree`,
`TextsAgree`, `ComparisonIsFair` and `DataAsPromised` rest on recursive
definitions: what those compute for every input needs induction over data. Stated and not
run: `StationaryRepetitions` of LoadRun, `ColdPassStages` of EngineRun, `SameDraws` of
RunVerb and `ReadSloIsForReads` of Figures, each of which the code does not satisfy
(section 5).

## 5. Where code and comments disagree

Each of these is a run that TLC must find violated, and a finding with the quoted line.

- `LoadRunStream`. A stream that breaks, or a commit in `Close` that fails, after
  `Exec` returned is a sample without an error; percentiles are said to describe
  completed queries.
- `TollGateBlame`. An interruption during a teardown yields a plan with a FAIL,
  which is then published, for an engine that did nothing wrong.
- `LadybugInterrupt`. The stop of a watcher does not wait for it. One that has not run
  when its call returns finds its context done too (the runner cancels it) and may
  interrupt the call that has the connection by then, whose own context is alive.
- `RecipeHeals`. A corrupt cached copy is said to be regenerated. The new copy is thrown
  away because the directory exists, and the old one fails to open, every time.
- `FetchReaders`. Two processes fetch one pin. The rename of the second fails, and it
  empties and rewrites the files the first one verified and is loading.

Met while modelling, without a run of their own. Where a line of the repository says
otherwise it is named.

The run of a benchmark:

- The Teardown runs under the op's deadline (`measure/run.go:322`). If the write ran into
  it, the Teardown is dead on arrival, its error is dropped, and the next repetition meets
  the rows, which the bracket's comment promises it does not ("repetition n and
  repetition 1 see the same graph"). `StationaryRepetitions` of LoadRun is that promise.
- The Teardown of snb-iu6 (`workload/snb/update.go:217`) is one MATCH of the staged and the
  written nodes. After a write that failed it matches nothing, succeeds and deletes
  nothing: what Setup staged stays for the next repetition though no Setup and no Teardown
  failed. `StationaryRepetitions` is false of this too. `OwnRowsOnly` excepts the rows of
  both kinds of failure by name (`Leavers`), and nothing else.
- The cold pass runs writes outside their bracket; the comment at `measure/run.go:122`
  has every repetition in one. `ColdPassStages` of EngineRun.
- Without a family binder a later engine draws on where the one before stopped, and is
  timed on other bindings than the comment at `workload/workload.go:66` promises. So is
  one whose family binder fails: `exec.go:644` prints a warning, and its queries keep the
  source, the pool and the cursor of the engine before. `SameDraws` of RunVerb.
- A mixed run draws 64 bindings of each query and its schedule goes round those
  (`mixed.go:98`). A pool that does not go into 64 has some bindings once more than others
  in every round, so over a long run the difference grows with the rounds, and of a pool
  of more than 64 the rest is never used. `EvenTiming` has that bound and not a better one.
- The session is closed before the memory sampler stops, so the reading called
  "what the engine settled at" (`measure/resource.go`) may be of a process the engine
  has left. EngineRun has the tick. A sampler that read nothing records 0 by
  `resource.go` and -1 by `report/schema.go`.
- A cold pass some of whose queries fail has percentiles and no error line.
- In count mode a cancelled run goes on dispatching the whole schedule (every op
  then fails at once): only an op that waits for an arrival looks at the context.
- In the open model a write takes its slot before it waits for its query's gate, so
  reads queue behind waiting writes. They do get their turn.
- A warm measurement that is interrupted reports no error; its document is written.
- After poison the plan has no report for the queries not reached.
- A container whose start is interrupted is stopped under the cancelled context,
  that is, not stopped. `AllReleased` names this exception.
- A failed write of a document or of the index is printed and the command succeeds.
- The warmup detector is fed by nothing but its tests; the pipeline warms up by a fixed
  share. On the fast profile that share may not reach every query.
- `mixed.go:34` says whether a rare query is measured is "a fact about the count and the
  weight rather than about the seed"; the shuffle may put its one slot into the warmup,
  which is not recorded.
- `run.go:59` says the offered load of an open run is exactly its rate. The interval is cut
  to a whole nanosecond, so it is a little more, and more ops fall in the warmup than the
  count was raised by: the run records fewer than it was asked to. `ScheduleIsExact` has
  the bound.

Adapters:

- The COMMIT, ROLLBACK and load statements of ladybug run under the timeout the last
  Exec left on the connection.
- `sqlbase.go` says at `uncancellable` that Ladybug runs a query to completion
  whatever the context says; `ladybug.go` interrupts it.
- The name of sqlite's memory database has the address of the Engine, one per process,
  where its comment says it is per session.
- A result over Bolt commits in Close even when its stream failed; that it does not
  take effect is left to the driver.
- A failed COMMIT in zu gives its connection back with the transaction possibly
  still open, which the comment at `finish` says is deliberate. `TxKeepsItsConn`
  names this exception.

Verdicts and tables:

- `docToResult` rebuilds a document's class stats without their class, so the write of
  fb-write is held to the SLO of reads. `ReadSloIsForReads` of Figures.
- No gate or report looks at the latency model (service time or response time) that
  `measure.go:27` says figures are told apart by.
- The gate never counts errors; a baseline that cannot be read is no baseline, and torn
  documents are skipped.
- `costOf` of `paired.go` drops a store that shrank.
- The peak concurrency the gate's comment speaks of is the one asked for in `exec.go`,
  not one that was reached. The drift factor is said to bound the worst window
  (`gate.go:101`); the gate compares the trend.
- `latestPerEngine` picks the latest document of an engine whatever its workload and
  plane, so the overhead table, which needs one engine on two planes, is empty unless
  `--latest=false`.
- A document of schema 1 is shown with "0 B" where nothing was measured, a store that
  shrank by one byte as not available, a PASS without a stat as zeros in the CSV, and
  `RenderMarkdown` never prints the errors.

References, comparison, data:

- `compare.go:58` says "the sort cannot separate two rows the comparison would call
  equal", `compare.go:327` that such rows "sort adjacent", and `compare.go:354` that the sort
  key "cannot disagree with the comparison about which rows are equal". The key has
  twelve digits and the tolerance is 1e-9, so it does. Of the rows (1.0, "a"), (1.0, "b")
  against (0.9999999999, "b"), (1.0, "a") either side is sorted as it stands, "a" meets
  "b": refused, though the rows pair off within tolerance. And integers that
  agree in twelve digits have one key and stay in the order they came in: two rows of
  them in another order are refused, although the comment at `rowKey` (`compare.go:341`)
  calls such ties fine; so are an integer and a float of one key without `CoerceNum`.
  `RoundedKeysMixUp` in `MCData`, which TLC evaluates, has an example of each;
  `ComparisonIsFair` says that there is no other kind.
- `floatEqual` "compares exactly for integers" up to 2^53. The tolerance is relative to the
  larger magnitude always: what `withinTol` does "near zero" is done where both are zero.
- `finbench.go:192` says of an unreachable pair of tcr3 that it is "a case the parameter pool
  does draw". It is not: `tcr3Pool` draws pairs it has found a path for. The pools of tcr4
  and tcr11, when no account has an answer, fall back on entries with an empty one, and
  linkbench's curated link lookups end with one of a type nobody has, on purpose. `TextsAgree`
  says which entry may be without an answer, and that no other is.
- `ValidateBFSTree` accepts a parent that is not itself in the tree.
- The counts of lsqb rest on facts about the generated data (nobody knows himself, one
  creator a post) that its loader does not look at; `DataAsPromised` has them.
- finbench's pools only know the sixteen and twelve busiest accounts; `recentOut` breaks
  ties by the text of an id. The deletes of snb are not part of verification.
- With two to four persons, which `social.go` accepts, the loop that looks for up to
  five distinct persons may never end, and does not look at its context.
- The comment of `er.go` promises "identical edge set as the naive method for the same
  seed"; the two draw differently.
- `curateKHop` with a size not divisible by four cuts the band of hubs. `curate` without
  keys writes placeholders that the binders then prefer; "the run says so" in
  `curate_cmd.go:109` has nothing that prints it.

Files:

- A cached dataset is not compared with the pin's checksum, only with its own manifest's.
  The mirror is not tried when the first server sent the wrong bytes. A file that is in
  the cache and not in the dataset makes it fail for good.
- The index of recipes loses an update when two processes write it. An empty params.json
  has no pools for the writer and is an error to its readers.
- The checksum of a dataset covers neither the manifest's schema nor params.json, and some
  parameters of a generator (the share of hubs of fin) are not in its manifest.

## 6. What is not modelled

- In the modelled parts: texts of queries, condition stamps, progress output; `zu`'s
  statement cache; the decoding of results and the texts of load statements; the setup
  statements a graph engine loads; widths, padding and units in the tables; hashing (equal
  checksums are equal contents); names and payloads of generated rows; cancellation
  between batches of a generator; the pools of the social workload; `Sweep`, which a mixed
  run's profile may ask for: the same schedule once more at each of three concurrencies,
  every one of them a run as `LoadRun` has it.
- As numbers: floating point is exact, so what rounding in its last bit does to a
  percentile, a threshold or a score is not checked; words are 6 bits.
- Left out for good: flag parsing, `/proc`, `getrusage` and the fsync probe, docker's
  output, the bulk load of zu (one call of an external tool), mongo's Exec (one driver
  call per operation), the query texts of the workloads (data).
- Hazards without a property: a container started under a cancelled context, which the
  code does leak, and the endless loop of the social generator on four persons.

## 7. Plan

Done: the harness (LoadRun, TollGate, EngineRun, RunVerb), the adapters, the files, the
algorithms. The proofs cover the harness, the adapters, the files, the detector, the
verdicts, the schedules, the summaries and the tables of the report. What remains is proof:
the parts of the references and of the data that need no recursion (the bands of
`Curation`, what the repack keeps), each as a theorem about its own algorithm.
