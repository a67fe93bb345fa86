-------------------------------- MODULE Recipes --------------------------------
(***************************************************************************)
(* The directory generated datasets live in, and the processes that        *)
(* resolve a recipe, run generate --kind or look a custom dataset up in    *)
(* it. A dataset is generated into a hidden stage, finalised there and     *)
(* renamed to a name made of its checksum; a small index says which        *)
(* directory a recipe landed in. Nothing is locked.                        *)
(*                                                                         *)
(* A recipe is seeded, so its name stands for its bytes and for its        *)
(* directory. Whole bytes are those the manifest's checksum was taken of.  *)
(***************************************************************************)
EXTENDS FiniteSets, Naturals

CONSTANTS
  Callers,  \* processes
  Recipes,  \* recipe names
  Custom,   \* dataset names that are no recipe
  None,
  Torn,     \* an index that does not parse
  MaxCalls, \* bound: calls made
  MaxFaults \* bound: crashes, and files that rot

VARIABLES
  pc, kind, name, \* a caller's step, verb and dataset
  stage,  \* a caller's staging directory: absent, files, manifest, whole
  seen,   \* the index a caller read when it started
  got,    \* what its call ended with
  failedOpen, \* the copy the index named did not verify
  dirs,   \* the directories under a final name
  index,  \* the recipes the index file names, or Torn
  litter, \* stages nobody will remove
  calls, faults

own == <<pc, kind, name, stage, seen, got, failedOpen>>
vars == <<own, dirs, index, litter, calls, faults>>

Names == Recipes \cup Custom
Kinds == {"recipe", "config", "custom"}

\* readRecipeIndex: an index that does not parse reads as an empty one.
ReadRecipeIndex == IF index = Torn THEN {} ELSE index

\* dataset.Open: a manifest whose checksum is that of the bytes beside it.
Verifies(d) == dirs[d] = "whole"

\* What is left when old was written from the start of the file after new was: a longer
\* text keeps its tail, and two texts of which neither holds the other may be any length.
Overwritten(old, new) ==
  CASE old = Torn -> {new}
    [] old # Torn /\ old \subseteq new -> {new}
    [] old # Torn /\ ~(old \subseteq new) -> {Torn} \cup (IF new \subseteq old THEN {} ELSE {new})

Init ==
  /\ pc = [c \in Callers |-> "idle"]
  /\ kind \in [Callers -> {"recipe"}]
  /\ name = [c \in Callers |-> None]
  /\ stage = [c \in Callers |-> "absent"]
  /\ seen = [c \in Callers |-> {}]
  /\ got = [c \in Callers |-> "nothing"]
  /\ failedOpen = [c \in Callers |-> FALSE]
  /\ dirs = [n \in Names |-> IF n \in Custom THEN "whole" ELSE "absent"]
  /\ index = {}
  /\ litter = 0
  /\ calls = 0 /\ faults = 0

At(c, step) == pc[c] = step
Goto(c, step) == pc' = [pc EXCEPT ![c] = step]
End(c, outcome) == Goto(c, "idle") /\ got' = [got EXCEPT ![c] = outcome]
\* The deferred RemoveAll of a stage that was not kept.
DropStage(c) == stage' = [stage EXCEPT ![c] = "absent"]

\* resolveDataset and the generate verb: what is asked for, and where it is looked up first.
Call(c) ==
  /\ At(c, "idle") /\ calls < MaxCalls
  /\ calls' = calls + 1
  /\ \E k \in Kinds, n \in Names :
       /\ (n \in Custom) <=> (k = "custom")
       /\ kind' = [kind EXCEPT ![c] = k]
       /\ name' = [name EXCEPT ![c] = n]
       /\ seen' = [seen EXCEPT ![c] = IF k = "recipe" THEN ReadRecipeIndex ELSE {}]
       /\ Goto(c, CASE k = "custom" -> "find"
                    [] k = "recipe" /\ n \in ReadRecipeIndex -> "cached"
                    [] OTHER -> "stage")
  /\ got' = [got EXCEPT ![c] = "nothing"]
  /\ failedOpen' = [failedOpen EXCEPT ![c] = FALSE]
  /\ UNCHANGED <<stage, dirs, index, litter, faults>>

\* findDataset: any directory that verifies and whose manifest has the name, the hidden
\* stages passed over.
FindDataset(c) ==
  /\ At(c, "find")
  /\ End(c, IF Verifies(name[c]) THEN "set" ELSE "error")
  /\ UNCHANGED <<kind, name, stage, seen, failedOpen, dirs, index, litter, calls, faults>>

\* The copy the index names, or on to generating it again.
OpenCached(c) ==
  /\ At(c, "cached")
  /\ failedOpen' = [failedOpen EXCEPT ![c] = ~Verifies(name[c])]
  /\ IF Verifies(name[c]) THEN End(c, "set") ELSE Goto(c, "stage") /\ UNCHANGED got
  /\ UNCHANGED <<kind, name, stage, seen, dirs, index, litter, calls, faults>>

\* Mutated forms of Generate and Rename: the stage is installed before it is finalised; the
\* rename replaces what is there.
GenerateUnfinished(c) ==
  /\ At(c, "stage")
  /\ stage' = [stage EXCEPT ![c] = "files"] /\ Goto(c, "stat")
  /\ UNCHANGED <<kind, name, seen, got, failedOpen, dirs, index, litter, calls, faults>>
RenameOver(c) ==
  /\ At(c, "rename")
  /\ DropStage(c)
  /\ dirs' = [dirs EXCEPT ![name[c]] = stage[c]]
  /\ IF kind[c] = "config" THEN End(c, "generated") ELSE Goto(c, "open") /\ UNCHANGED got
  /\ UNCHANGED <<kind, name, seen, failedOpen, index, litter, calls, faults>>

\* MkdirTemp and the files a generator writes; it may fail and leave nothing.
Generate(c) ==
  /\ At(c, "stage")
  /\ \/ stage' = [stage EXCEPT ![c] = "files"] /\ Goto(c, "finalize") /\ UNCHANGED got
     \/ End(c, "error") /\ UNCHANGED stage
  /\ UNCHANGED <<kind, name, seen, failedOpen, dirs, index, litter, calls, faults>>

\* Writer.Finalize: the manifest is there before its checksum is.
Finalize(c) ==
  /\ At(c, "finalize")
  /\ \/ stage[c] = "files" /\ stage' = [stage EXCEPT ![c] = "manifest"] /\ UNCHANGED <<pc, got>>
     \/ stage[c] = "manifest" /\ stage' = [stage EXCEPT ![c] = "whole"] /\ Goto(c, "stat") /\ UNCHANGED got
     \/ DropStage(c) /\ End(c, "error")
  /\ UNCHANGED <<kind, name, seen, failedOpen, dirs, index, litter, calls, faults>>

\* os.Stat of the final name: the rename is for the first.
Stat(c) ==
  /\ At(c, "stat")
  /\ IF dirs[name[c]] = "absent" THEN Goto(c, "rename") /\ UNCHANGED <<stage, got>>
     ELSE IF kind[c] = "config" THEN DropStage(c) /\ End(c, "cached")
     ELSE Goto(c, "open") /\ UNCHANGED <<stage, got>>
  /\ UNCHANGED <<kind, name, seen, failedOpen, dirs, index, litter, calls, faults>>

\* Renaming onto a directory is an error, and the stage is removed with it.
Rename(c) ==
  /\ At(c, "rename")
  /\ DropStage(c)
  /\ IF dirs[name[c]] # "absent" THEN End(c, "error") /\ UNCHANGED dirs
     ELSE /\ dirs' = [dirs EXCEPT ![name[c]] = stage[c]]
          /\ IF kind[c] = "config" THEN End(c, "generated") ELSE Goto(c, "open") /\ UNCHANGED got
  /\ UNCHANGED <<kind, name, seen, failedOpen, index, litter, calls, faults>>

\* The final directory, opened and verified; a stage that was not needed goes on return.
OpenFinal(c) ==
  /\ At(c, "open")
  /\ IF Verifies(name[c]) THEN Goto(c, "truncate") /\ UNCHANGED <<stage, got>>
     ELSE End(c, "error") /\ DropStage(c)
  /\ UNCHANGED <<kind, name, seen, failedOpen, dirs, index, litter, calls, faults>>

\* os.WriteFile empties the index,
Truncate(c) ==
  /\ At(c, "truncate")
  /\ index' = Torn
  /\ Goto(c, "write")
  /\ UNCHANGED <<kind, name, stage, seen, got, failedOpen, dirs, litter, calls, faults>>

\* and writes what was read at the start with the one entry more. Its error is dropped.
WriteRecipeIndex(c) ==
  /\ At(c, "write")
  /\ index' \in Overwritten(index, seen[c] \cup {name[c]})
  /\ End(c, "set") /\ DropStage(c)
  /\ UNCHANGED <<kind, name, seen, failedOpen, dirs, litter, calls, faults>>

\* The process is killed: its stage stays, and what it was writing is cut short.
Crash(c) ==
  /\ ~At(c, "idle") /\ faults < MaxFaults
  /\ faults' = faults + 1
  /\ litter' = litter + (IF stage[c] = "absent" THEN 0 ELSE 1)
  /\ DropStage(c)
  /\ End(c, "killed")
  /\ UNCHANGED <<kind, name, seen, failedOpen, dirs, index, calls>>

\* A file of an installed dataset is edited, truncated or lost.
Rot ==
  /\ faults < MaxFaults
  /\ faults' = faults + 1
  /\ \E n \in Names : dirs[n] = "whole" /\ dirs' = [dirs EXCEPT ![n] = "rotten"]
  /\ UNCHANGED <<own, index, litter, calls>>

Step(c) ==
  \/ FindDataset(c) \/ OpenCached(c) \/ Generate(c) \/ Finalize(c) \/ Stat(c) \/ Rename(c)
  \/ OpenFinal(c) \/ Truncate(c) \/ WriteRecipeIndex(c)

Next == Rot \/ \E c \in Callers : Call(c) \/ Step(c) \/ Crash(c)

Spec == Init /\ [][Next]_vars

-----------------------------------------------------------------------------
\* Type correctness.
TypeOK ==
  /\ pc \in [Callers -> {"idle", "find", "cached", "stage", "finalize", "stat", "rename",
                         "open", "truncate", "write"}]
  /\ kind \in [Callers -> Kinds] /\ name \in [Callers -> Names \cup {None}]
  /\ stage \in [Callers -> {"absent", "files", "manifest", "whole"}]
  /\ seen \in [Callers -> SUBSET Recipes]
  /\ got \in [Callers -> {"nothing", "set", "cached", "generated", "error", "killed"}]
  /\ failedOpen \in [Callers -> BOOLEAN]
  /\ dirs \in [Names -> {"absent", "whole", "rotten"}]
  /\ index = Torn \/ index \in SUBSET Recipes
  /\ litter \in Nat /\ calls \in Nat /\ faults \in Nat

Indexed(X) == \A n \in X : dirs[n] # "absent"

\* However two processes and a crash interleave, a directory under a final name was whole
\* when it got there (a directory is a dataset or it is hidden), and an index, the file's or
\* the copy a process will write back, names no directory that is not there: materializeRecipe
\* publishes a dataset in one step and names it after.
CacheIsSound ==
  /\ \A n \in Names : dirs[n] \in {"absent", "whole", "rotten"}
  /\ index # Torn => Indexed(index)
  /\ \A c \in Callers : Indexed(seen[c]) /\ (At(c, "write") => Indexed({name[c]}))

\* A directory once installed is never replaced or removed by any process: whoever opened it
\* may still be loading from it. Only rot changes it.
NeverReplaced ==
  [][\A n \in Names : dirs[n] # "absent" => dirs'[n] = dirs[n] \/ (dirs'[n] = "rotten" /\ faults' > faults)]_vars

\* recipes.go says of a cached copy that fails its checksum that it is generated again. A
\* call that found such a copy, and generated the dataset, ends with the dataset.
RecipeHeals ==
  [][\A c \in Callers :
       (failedOpen[c] /\ At(c, "open") /\ ~At(c, "open")' /\ got'[c] # "killed") => got'[c] # "error"]_vars
================================================================================
