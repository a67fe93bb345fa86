-------------------------------- MODULE Lineage --------------------------------
(***************************************************************************)
(* The result documents under the lineage tree and the files beside a      *)
(* dataset that processes share without a lock: a run writes one document  *)
(* per engine under a name of its own, and with --publish lists every      *)
(* document in INDEX.md; graph-bench curate merges its pools into a        *)
(* dataset's params.json.                                                  *)
(*                                                                         *)
(* A name is made of the second, the engine, the plane and the dataset, so *)
(* two runs of a second share one. A document is known by who wrote it.    *)
(***************************************************************************)
EXTENDS FiniteSets, Naturals, Sequences

CONSTANTS
  Writers,   \* processes
  Engines,   \* the engines of a run, in order
  Keys,      \* pool keys
  Torn,      \* a file that does not parse
  Missing,   \* no file
  MaxRuns,   \* bound: runs and curations begun
  MaxKills   \* bound: processes killed

VARIABLES
  wpc, second, \* a process' step, and the second its run started in
  turn,        \* the engine a run is at
  found,       \* the paths a glob returned, still to be read
  listed,      \* the rows of the index being built
  tree,        \* what is at each path: absent, torn, or a document
  INDEX,       \* the paths the index lists, or Torn
  merged,      \* the pools a curation will write
  params,      \* the keys in params.json with who curated them, Missing or Torn
  disturbed,   \* the file a process means to rewrite was written during its call, or torn
  runs, kills

pools == <<merged, params>>
lineageVars == <<wpc, second, turn, found, listed, tree, INDEX, merged, params, disturbed, runs, kills>>

Paths == {1, 2} \X {Engines[i] : i \in DOMAIN Engines}

LineageInit ==
  /\ wpc = [w \in Writers |-> "idle"]
  /\ second = [w \in Writers |-> 1]
  /\ turn = [w \in Writers |-> 1]
  /\ found = [w \in Writers |-> {}]
  /\ listed = [w \in Writers |-> {}]
  /\ tree = [p \in Paths |-> "absent"]
  /\ INDEX = {}
  /\ merged = [w \in Writers |-> <<>>]
  /\ params = Missing
  /\ disturbed = [w \in Writers |-> FALSE]
  /\ runs = 0 /\ kills = 0

On(w, step) == wpc[w] = step
To(w, step) == wpc' = [wpc EXCEPT ![w] = step]
Readable(p) == tree[p] \notin {"absent", Torn}
\* What a process does to a file disturbs the others that are about to rewrite it.
Disturb(w) == disturbed' = [v \in Writers |-> disturbed[v] \/ v # w]

\* A file emptied by this process and, since, perhaps by others is written from its start:
\* the text is there, or the tail of a longer one spoils it.
Written(old, new) == IF old = Torn THEN {new} ELSE {new, Torn}

\* A run's first document is due. A second has room for two runs.
Begin(w) ==
  /\ On(w, "idle") /\ runs < MaxRuns
  /\ runs' = runs + 1
  /\ \E s \in {1, 2} : second' = [second EXCEPT ![w] = s]
  /\ turn' = [turn EXCEPT ![w] = 1]
  /\ disturbed' = [disturbed EXCEPT ![w] = FALSE]
  /\ To(w, "create")
  /\ UNCHANGED <<found, listed, tree, INDEX, pools, kills>>

\* The document of the next engine, or the index after the last one: a run goes on when an
\* engine's document was refused. Without --publish there is no index.
Onward(w) ==
  IF turn[w] < Len(Engines) THEN turn' = [turn EXCEPT ![w] = @ + 1] /\ To(w, "create")
  ELSE UNCHANGED turn /\ \E step \in {"glob", "idle"} : To(w, step)

\* Mutated forms of Create and Merge: the document replaces the one of that name; the file is
\* written with the new pools alone.
CreateOver(w) ==
  /\ On(w, "create")
  /\ tree' = [tree EXCEPT ![<<second[w], Engines[turn[w]]>>] = Torn]
  /\ To(w, "encode")
  /\ UNCHANGED <<second, turn, found, listed, INDEX, pools, disturbed, runs, kills>>
MergeNothing(w) ==
  /\ On(w, "idle") /\ runs < MaxRuns
  /\ runs' = runs + 1
  /\ \E X \in SUBSET Keys \ {{}} : merged' = [merged EXCEPT ![w] = [k \in X |-> w]]
  /\ disturbed' = [disturbed EXCEPT ![w] = params = Torn]
  /\ To(w, "cut")
  /\ UNCHANGED <<second, turn, found, listed, tree, INDEX, params, kills>>

\* O_EXCL: the file is new, and empty, or the document is refused.
Create(w) ==
  /\ On(w, "create")
  /\ LET p == <<second[w], Engines[turn[w]]>>
     IN \/ /\ tree[p] = "absent"
           /\ tree' = [tree EXCEPT ![p] = Torn]
           /\ To(w, "encode") /\ UNCHANGED turn
        \/ tree[p] # "absent" /\ UNCHANGED tree /\ Onward(w)
  /\ UNCHANGED <<second, found, listed, INDEX, pools, disturbed, runs, kills>>

\* The document is encoded, or the disk is full and what is there stays.
Encode(w) ==
  /\ On(w, "encode")
  /\ \/ tree' = [tree EXCEPT ![<<second[w], Engines[turn[w]]>>] = w]
     \/ UNCHANGED tree
  /\ Onward(w)
  /\ Disturb(w)
  /\ UNCHANGED <<second, found, listed, INDEX, pools, runs, kills>>

\* UpdateIndex: every path there is,
Glob(w) ==
  /\ On(w, "glob")
  /\ found' = [found EXCEPT ![w] = {p \in Paths : tree[p] # "absent"}]
  /\ listed' = [listed EXCEPT ![w] = {}]
  /\ disturbed' = [disturbed EXCEPT ![w] = FALSE]
  /\ To(w, "read")
  /\ UNCHANGED <<second, turn, tree, INDEX, pools, runs, kills>>

\* read one after another, those that do not parse left out,
ReadNext(w) ==
  /\ On(w, "read")
  /\ \/ /\ found[w] = {} /\ To(w, "empty") /\ UNCHANGED <<found, listed>>
     \/ /\ found[w] # {} /\ UNCHANGED wpc
        /\ LET p == CHOOSE p \in found[w] : TRUE
           IN /\ found' = [found EXCEPT ![w] = @ \ {p}]
              /\ listed' = [listed EXCEPT ![w] = @ \cup {q \in {p} : Readable(q)}]
  /\ UNCHANGED <<second, turn, tree, INDEX, pools, disturbed, runs, kills>>

\* and the index is emptied and written over.
EmptyIndex(w) ==
  /\ On(w, "empty")
  /\ INDEX' = Torn /\ To(w, "list")
  /\ Disturb(w)
  /\ UNCHANGED <<second, turn, found, listed, tree, pools, runs, kills>>

WriteIndex(w) ==
  /\ On(w, "list")
  /\ INDEX' \in Written(INDEX, listed[w])
  /\ Disturb(w)
  /\ To(w, "idle")
  /\ UNCHANGED <<second, turn, found, listed, tree, pools, runs, kills>>

\* WriteParamsPool: the pools of the file are kept but for the keys curated now. A file that
\* is missing, or empty, has none; half a file is an error.
Empty == {Missing, Torn}
Merge(w) ==
  /\ On(w, "idle") /\ runs < MaxRuns
  /\ runs' = runs + 1
  /\ \E X \in SUBSET Keys \ {{}} :
       LET kept == IF params \in Empty THEN [k \in {} |-> w] ELSE params
       IN merged' = [merged EXCEPT ![w] = [k \in DOMAIN kept \cup X |-> IF k \in X THEN w ELSE kept[k]]]
  /\ disturbed' = [disturbed EXCEPT ![w] = params = Torn]
  /\ To(w, "cut")
  /\ UNCHANGED <<second, turn, found, listed, tree, INDEX, params, kills>>

EmptyParams(w) ==
  /\ On(w, "cut")
  /\ params' = Torn /\ To(w, "save")
  /\ Disturb(w)
  /\ UNCHANGED <<second, turn, found, listed, tree, INDEX, merged, runs, kills>>

WriteParams(w) ==
  /\ On(w, "save")
  /\ params' \in Written(params, merged[w])
  /\ Disturb(w)
  /\ To(w, "idle")
  /\ UNCHANGED <<second, turn, found, listed, tree, INDEX, merged, runs, kills>>

Kill(w) ==
  /\ ~On(w, "idle") /\ kills < MaxKills
  /\ kills' = kills + 1
  /\ To(w, "idle")
  /\ UNCHANGED <<second, turn, found, listed, tree, INDEX, pools, disturbed, runs>>

Publish(w) == Begin(w) \/ Create(w) \/ Encode(w) \/ Glob(w) \/ ReadNext(w) \/ EmptyIndex(w) \/ WriteIndex(w)
Curate(w) == Merge(w) \/ EmptyParams(w) \/ WriteParams(w)

PublishNext == \E w \in Writers : Publish(w) \/ Kill(w)
CurateNext == \E w \in Writers : Curate(w) \/ Kill(w)

-----------------------------------------------------------------------------
\* Type correctness.
LineageTypeOK ==
  /\ wpc \in [Writers -> {"idle", "create", "encode", "glob", "read", "empty", "list", "cut", "save"}]
  /\ second \in [Writers -> {1, 2}] /\ turn \in [Writers -> DOMAIN Engines]
  /\ found \in [Writers -> SUBSET Paths] /\ listed \in [Writers -> SUBSET Paths]
  /\ \A p \in Paths : tree[p] \in {"absent", Torn} \cup Writers
  /\ INDEX = Torn \/ INDEX \in SUBSET Paths
  /\ params \in {Missing, Torn} \/ (DOMAIN params \in SUBSET Keys /\ \A k \in DOMAIN params : params[k] \in Writers)
  /\ disturbed \in [Writers -> BOOLEAN] /\ runs \in Nat /\ kills \in Nat

\* A document that was read once reads the same for ever, the index never names a file that
\* is not a document, and one written while nobody else wrote names every document: a re-run
\* of the same second is refused, a torn document is skipped, and no run touches another's
\* record.
LineageIsKept ==
  [][/\ \A p \in Paths : Readable(p) => tree'[p] = tree[p]
     /\ INDEX' # Torn => \A p \in INDEX' : Readable(p)'
     /\ \A w \in Writers :
          (On(w, "list") /\ ~On(w, "list")' /\ ~disturbed[w] /\ INDEX' # INDEX) => INDEX' = {p \in Paths : Readable(p)}]_lineageVars

\* A curation keeps the pools it was not asked for, as WriteParamsPool says, and saves what it
\* merged: so long as it found a whole file, and nobody wrote the file between its read and
\* its write.
PoolsSurvive ==
  [][\A w \in Writers : ~disturbed[w] =>
       /\ (On(w, "cut") /\ params \notin Empty) =>
            \A k \in DOMAIN params : k \in DOMAIN merged[w] /\ merged[w][k] \in {params[k], w}
       /\ (On(w, "save") /\ ~On(w, "save")' /\ params' # params) => params' = merged[w]]_lineageVars
================================================================================
