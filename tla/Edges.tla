--------------------------------- MODULE Edges ---------------------------------
(***************************************************************************)
(* What the harness shares with the world: the engine adapters side by     *)
(* side, and the files that processes share without a lock. One part moves *)
(* at a time: part, fixed, says which, the others stay at their initial    *)
(* states. The callers of one session are the callers of all.              *)
(***************************************************************************)
EXTENDS ZuPool

CONSTANTS
  Calls,     \* the calls on a ladybug session
  LbTexts,   \* the texts they compile
  Texts,     \* statement texts of a SQL session
  NumRows, Capacity,  \* the file of a COPY, the channel before it
  Stores,    \* the engines whose store can outlive a session
  Datasets,  \* what is loaded into them
  MaxBulk,   \* bound of the model: how often
  Processes, \* the processes that share files
  Recipes, Custom,    \* names of generated datasets, and of others
  Files,     \* the files of a pinned dataset, in order
  Engines,   \* the engines of a run, in order
  Keys,      \* the pools beside a dataset
  None, Torn,  \* no file, and half a file
  MaxCalls, MaxFaults, MaxFetches, MaxCrashes, MaxRuns, MaxKills  \* bounds of the model

\* Load is no caller of its own session; a dataset is finite, and its edges join its nodes; a
\* pinned dataset and a run are not empty; half a file is not no file; and the sentinels
\* name nothing real.
ASSUME EdgesAssumption ==
  /\ "loader" \notin Callers /\ "free" \notin Calls /\ "direct" \notin LbTexts
  /\ NumRows \in Nat /\ Capacity \in Nat \ {0}
  /\ \A d \in Datasets :
       IsFiniteSet(d.nodes) /\ IsFiniteSet(d.edges) /\ d.edges \subseteq d.nodes \X d.nodes
  /\ Len(Files) \in Nat \ {0} /\ DOMAIN Files = 1..Len(Files)
  /\ Len(Engines) \in Nat \ {0} /\ DOMAIN Engines = 1..Len(Engines)
  /\ Torn # "absent"

VARIABLES
  part,
  holder, live, lbPc, lbText, watcher, stopped, over, limit, cache, lbStmts, cutBy,
  z2Db, z2All, z2Idle, z2Opened, z2Hand, async, z2Rows, step, err, z2Loads, last, failed,
  stmts, open, sqlPc, text, mine, rows, db,
  sent, taken, producer, produced, more, copy, parent, child, failing, table,
  engine, ds, nodes, edges, foreign, made, indexed, blStep, count, blLast, blLoads,
  boltPc, session, tx, broken, applied, answer

Lb == INSTANCE LadybugSession WITH
        Texts <- LbTexts, pc <- lbPc, text <- lbText, stmts <- lbStmts

Zu2 == INSTANCE Zu2Pool WITH
         db <- z2Db, all <- z2All, idle <- z2Idle, opened <- z2Opened, hand <- z2Hand,
         rows <- z2Rows, loads <- z2Loads,
         MaxLoads <- MaxLoads + 1

Sql == INSTANCE SqlSession WITH pc <- sqlPc

Copy == INSTANCE CopyIn

Bulk == INSTANCE BulkLoad WITH
          Engines <- Stores, MaxLoads <- MaxBulk,
          step <- blStep, last <- blLast, loads <- blLoads

Bolt == INSTANCE BoltSession WITH pc <- boltPc

lbVars ==
  <<holder, live, lbPc, lbText, watcher, stopped, over, limit, cache, lbStmts, cutBy>>
z2Vars ==
  <<z2Db, z2All, z2Idle, z2Opened, z2Hand, async, z2Rows, step, err, z2Loads, last, failed>>
sqlVars == <<stmts, open, sqlPc, text, mine, rows, db>>
copyVars == <<sent, taken, producer, produced, more, copy, parent, child, failing, table>>
blVars ==
  <<engine, ds, nodes, edges, foreign, made, indexed, blStep, count, blLast, blLoads>>
boltVars == <<boltPc, session, tx, broken, applied, answer>>

Parts == {"zu", "ladybug", "zu2", "sql", "copy", "load", "bolt"}

AdaptersInit ==
  /\ Init /\ Lb!Init /\ Zu2!Init /\ Sql!Init /\ Copy!Init /\ Bulk!Init /\ Bolt!Init
  /\ part = "load" \/ engine = CHOOSE s \in Stores : TRUE

AdaptersNext ==
  /\ UNCHANGED part
  /\ \/ part = "zu" /\ Next
     \/ part # "zu" /\ UNCHANGED vars
  /\ \/ part = "ladybug" /\ Lb!Next
     \/ part # "ladybug" /\ UNCHANGED lbVars
  /\ \/ part = "zu2" /\ Zu2!Next
     \/ part # "zu2" /\ UNCHANGED z2Vars
  /\ \/ part = "sql" /\ Sql!Next
     \/ part # "sql" /\ UNCHANGED sqlVars
  /\ \/ part = "copy" /\ Copy!Next
     \/ part # "copy" /\ UNCHANGED copyVars
  /\ \/ part = "load" /\ Bulk!Next
     \/ part # "load" /\ UNCHANGED blVars
  /\ \/ part = "bolt" /\ Bolt!Next
     \/ part # "bolt" /\ UNCHANGED boltVars

AdaptersVars ==
  <<part, vars, lbVars, z2Vars, sqlVars, copyVars, blVars, boltVars>>

\* The fairness of a part is asked of it when it is the one that moves.
AdaptersFairness ==
  /\ part = "ladybug" => Lb!Fairness
  /\ part = "copy" => Copy!Fairness

-----------------------------------------------------------------------------
(* What an adapter owes the harness. NothingLost, TxKeepsItsConn and         *)
(* LendsSafely are ZuPool's; the names behind a ! are stated, with the       *)
(* code's own words, in the module of the part.                              *)

\* No way out, and no order of two callers, keeps or closes what another needs: a Bolt
\* session, the rows of a SQL statement, a compiled statement; every statement is where
\* Close finds it, and a closed zu session has freed every connection.
NothingLeftOpen ==
  /\ Bolt!NothingLeftOpen /\ CloseFreesAll
  /\ Sql!RowsHaveReader /\ Sql!NoneClosedInUse
  /\ Sql!StatementsAccounted /\ Lb!StatementsAreCached

\* A load that reports success has stored its dataset, the whole of it and nothing
\* else, and on the device: through COPY, through statements, through libzu2. Nodes and
\* their index are there before the edges that need them, so what a load counts is what
\* it made.
LoadsAreWhole ==
  /\ Copy!SuccessIsWhole /\ Zu2!LoadedIsOnDevice
  /\ Bulk!LoadedIsDataset /\ Bulk!ClaimedIsStored /\ Bulk!EndpointsIndexed

\* A write over Bolt that was told committed has taken effect.
ToldCommitted == Bolt!ToldCommitted

\* Load and callers of zu2 have sessions that are open and their own, never at a lower
\* durability than the run asked for unless a Load has failed and said so; and a ladybug
\* query runs under its own deadline, not under one the connection kept.
SessionsAsPromised ==
  /\ Zu2!LendsSafely
  /\ [](Zu2!LentAsConfigured /\ Lb!DeadlineIsItsOwn)

\* The watchers of ladybug, and COPY and its producer, end in every order of
\* failures, whether or not their context does.
GoroutinesEnd ==
  /\ part = "ladybug" => Lb!WatchersEnd
  /\ part = "copy" => Copy!BothEnd

-----------------------------------------------------------------------------
(* The files that processes share.                                           *)

VARIABLES
  rcPc, kind, name, stage, seen, got, failedOpen, dirs, index, litter, calls, faults,
  fpc, result, archive, url, temp, next, company, pinCache, cutter, fetches, crashes,
  wpc, second, turn, found, listed, tree, INDEX, merged, params, disturbed, runs, kills

Made == INSTANCE Recipes WITH
          Callers <- Processes, pc <- rcPc

Pinned == INSTANCE PinFetch WITH
            Fetchers <- Processes, cache <- pinCache

Kept == INSTANCE Lineage WITH
          Writers <- Processes, Missing <- None

recipeVars == <<rcPc, kind, name, stage, seen, got, failedOpen, dirs, index, litter, calls, faults>>
fetchVars == <<fpc, result, archive, url, temp, next, company, pinCache, cutter, fetches, crashes>>
lineageVars == <<wpc, second, turn, found, listed, tree, INDEX, merged, params, disturbed, runs, kills>>

FileParts == {"recipes", "pin", "publish", "curate"}

FilesInit == AdaptersInit /\ Made!Init /\ Pinned!FetchInit /\ Kept!LineageInit

FilesNext ==
  /\ \/ part = "recipes" /\ Made!Next
     \/ part # "recipes" /\ UNCHANGED recipeVars
  /\ \/ part = "pin" /\ Pinned!FetchNext
     \/ part # "pin" /\ UNCHANGED fetchVars
  /\ \/ part = "publish" /\ Kept!PublishNext
     \/ part = "curate" /\ Kept!CurateNext
     \/ part \notin {"publish", "curate"} /\ UNCHANGED lineageVars

EdgesNext == AdaptersNext /\ FilesNext
EdgesVars == <<AdaptersVars, recipeVars, fetchVars, lineageVars>>

Steps == [][EdgesNext]_EdgesVars

EdgesInit == part \in Parts \cup FileParts /\ FilesInit
EdgesSpec == EdgesInit /\ Steps /\ AdaptersFairness

RecipesInit == part = "recipes" /\ FilesInit
RecipesAlone == RecipesInit /\ Steps
PinInit == part = "pin" /\ FilesInit
PinAlone == PinInit /\ Steps

-----------------------------------------------------------------------------
\* A directory under a final name was whole when it got there, and no index names one that is
\* not there (materializeRecipe).
CacheIsSound == Made!CacheIsSound

\* A directory once installed is never replaced or removed by a process (materializeRecipe,
\* runGenerate).
NeverReplaced == Made!NeverReplaced

\* Whatever the servers serve and wherever a fetch is killed, the cache never holds a byte
\* that is not the pin's, and a fetch with verified content and no company ends with the
\* dataset, whatever a killed one or a failing disk left there (ldbc.Fetch checks the archive
\* and the content before it installs; ldbc.copyDir writes every file over).
CacheIsThePin == [][Pinned!NeverOtherBytes']_fetchVars /\ Pinned!TornHeals

\* No document changes once it is one; the lineage index names documents only, and all of
\* them when nobody else wrote; a curation that found a whole file and had it to itself loses
\* no pool (report.Write, UpdateIndex, WriteParamsPool).
SharedFilesSurvive == Kept!LineageIsKept /\ Kept!PoolsSurvive

\* A call that found the cached copy corrupt, and generated the dataset, ends with it
\* (materializeRecipe: "Stale or corrupt: fall through and regenerate").
RecipeHeals == Made!RecipeHeals

\* A process that loads from the cache finds what it verified ("a dataset.Set wrapping the
\* verified directory", ldbc.Fetch).
ReadersKeepTheirs == Pinned!ReadersKeepTheirs
================================================================================
