------------------------------- MODULE PinFetch -------------------------------
(***************************************************************************)
(* ldbc.Fetch: a pinned archive downloaded from one of two servers,        *)
(* checked, extracted and repacked into a temporary directory, checked     *)
(* again and put where every process looks for it. The rename installs it  *)
(* in one step; when the directory exists it fails, and the files are      *)
(* copied over the ones that are there, one by one.                        *)
(*                                                                         *)
(* Bytes are right, when they are the pin's, or other. The files of a      *)
(* dataset are copied in the order WalkDir visits them.                    *)
(***************************************************************************)
EXTENDS FiniteSets, Naturals, Sequences

CONSTANTS
  Fetchers,  \* processes
  Files,     \* the dataset's files, in order
  MaxFetches, \* bound: calls made
  MaxCrashes  \* bound: processes killed, and files that rot

VARIABLES
  fpc, result,
  archive, \* what a fetcher downloaded
  url,     \* the servers it has left to try
  temp,    \* what its temporary directory holds
  next,    \* the file its copy is at
  company, \* another process was fetching during its call
  cache,   \* the files of the cache directory: absent, cut, right or other
  cutter,  \* who emptied a file last
  fetches, crashes

mine == <<fpc, result, archive, url, temp, next>>
fetchVars == <<mine, company, cache, cutter, fetches, crashes>>

Names == {Files[i] : i \in DOMAIN Files}
Servers == <<"url", "mirror">>
Nobody == "nobody"

FetchInit ==
  /\ fpc = [f \in Fetchers |-> "idle"]
  /\ result = [f \in Fetchers |-> "nothing"]
  /\ archive = [f \in Fetchers |-> "absent"]
  /\ url = [f \in Fetchers |-> 1]
  /\ temp = [f \in Fetchers |-> "absent"]
  /\ next = [f \in Fetchers |-> 1]
  /\ company = [f \in Fetchers |-> FALSE]
  /\ cache = [x \in Names |-> "absent"]
  /\ cutter = [x \in Names |-> Nobody]
  /\ fetches = 0 /\ crashes = 0

Where(f, step) == fpc[f] = step
Go(f, step) == fpc' = [fpc EXCEPT ![f] = step]
Busy(f) == fpc[f] \notin {"idle", "using"}
\* The cache directory is there as soon as one of its files is.
Installed == \E x \in Names : cache[x] # "absent"
\* dataset.Open: the manifest's checksum is that of the files. The files of another dataset
\* would verify too, against their own manifest.
Opens == (\A x \in Names : cache[x] = "right") \/ (\A x \in Names : cache[x] = "other")

\* Return: the archive and the temporary directory are removed.
Finish(f, outcome) ==
  /\ Go(f, IF outcome = "set" THEN "using" ELSE "idle")
  /\ result' = [result EXCEPT ![f] = outcome]
  /\ archive' = [archive EXCEPT ![f] = "absent"]
  /\ temp' = [temp EXCEPT ![f] = "absent"]
  /\ UNCHANGED <<url, next>>

\* The cache is opened; the download begins when it does not verify.
Fetch(f) ==
  /\ Where(f, "idle") /\ fetches < MaxFetches
  /\ fetches' = fetches + 1
  /\ IF Opens THEN Finish(f, "set")
     ELSE /\ Go(f, "download")
          /\ url' = [url EXCEPT ![f] = 1] /\ next' = [next EXCEPT ![f] = 1]
          /\ result' = [result EXCEPT ![f] = "nothing"]
          /\ UNCHANGED <<archive, temp>>
  /\ company' = [g \in Fetchers |-> IF g = f THEN \E h \in Fetchers \ {f} : Busy(h) ELSE company[g] \/ Busy(g)]
  /\ UNCHANGED <<cache, cutter, crashes>>

\* downloadArchive: the mirror is for a download that failed, not for one that brought the
\* wrong bytes, and starts the file over.
Download(f) ==
  /\ Where(f, "download")
  /\ \/ /\ archive' \in {[archive EXCEPT ![f] = a] : a \in {"right", "other"}}
        /\ Go(f, "archive") /\ UNCHANGED <<url, result, temp>>
     \/ /\ url[f] < Len(Servers)
        /\ url' = [url EXCEPT ![f] = @ + 1] /\ UNCHANGED <<fpc, result, archive, temp>>
     \/ /\ url[f] = Len(Servers) /\ Go(f, "idle")
        /\ result' = [result EXCEPT ![f] = "error"]
        /\ UNCHANGED <<archive, url, temp>>
  /\ UNCHANGED <<next, company, cache, cutter, fetches, crashes>>

\* verifyFileChecksum, before anything is extracted.
VerifyArchive(f) ==
  /\ Where(f, "archive")
  /\ IF archive[f] = "right" THEN Go(f, "extract") /\ UNCHANGED <<result, archive, url, temp, next>>
     ELSE Finish(f, "error")
  /\ UNCHANGED <<company, cache, cutter, fetches, crashes>>

\* tar, zstd and repackUpstream: the pin's bytes, those of another repack, or an error.
Extract(f) ==
  /\ Where(f, "extract")
  /\ \/ \E t \in {"right", "other"} :
          temp' = [temp EXCEPT ![f] = t] /\ Go(f, "content") /\ UNCHANGED <<result, archive, url, next>>
     \/ Finish(f, "error")
  /\ UNCHANGED <<company, cache, cutter, fetches, crashes>>

\* Mutated forms of VerifyContent and Empty: the archive's checksum is enough; a file that is
\* there is not copied again.
TrustArchive(f) ==
  /\ Where(f, "content")
  /\ Go(f, "install") /\ UNCHANGED <<result, archive, url, temp, next>>
  /\ UNCHANGED <<company, cache, cutter, fetches, crashes>>
EmptyNew(f) ==
  /\ Where(f, "empty")
  /\ LET x == Files[next[f]]
     IN IF cache[x] = "absent"
        THEN /\ cache' = [cache EXCEPT ![x] = "cut"] /\ cutter' = [cutter EXCEPT ![x] = f]
             /\ Go(f, "fill") /\ UNCHANGED next
        ELSE /\ UNCHANGED <<cache, cutter>>
             /\ IF next[f] = Len(Files) THEN Go(f, "open") /\ UNCHANGED next
                ELSE next' = [next EXCEPT ![f] = @ + 1] /\ UNCHANGED fpc
  /\ UNCHANGED <<result, archive, url, temp, company, fetches, crashes>>

\* The checksum of the content against the pin's.
VerifyContent(f) ==
  /\ Where(f, "content")
  /\ IF temp[f] = "right" THEN Go(f, "install") /\ UNCHANGED <<result, archive, url, temp, next>>
     ELSE Finish(f, "error")
  /\ UNCHANGED <<company, cache, cutter, fetches, crashes>>

\* The rename, which does not replace a directory.
Install(f) ==
  /\ Where(f, "install")
  /\ IF Installed THEN Go(f, "empty") /\ UNCHANGED cache
     ELSE cache' = [x \in Names |-> temp[f]] /\ Go(f, "open")
  /\ UNCHANGED <<result, archive, url, temp, next, company, cutter, fetches, crashes>>

\* copyFile: os.Create empties the file,
Empty(f) ==
  /\ Where(f, "empty")
  /\ cache' = [cache EXCEPT ![Files[next[f]]] = "cut"]
  /\ cutter' = [cutter EXCEPT ![Files[next[f]]] = f]
  /\ Go(f, "fill")
  /\ UNCHANGED <<result, archive, url, temp, next, company, fetches, crashes>>

\* and io.Copy fills it. What another process emptied meanwhile may be left with a hole.
Fill(f) ==
  /\ Where(f, "fill")
  /\ LET x == Files[next[f]]
     IN \/ cache' = [cache EXCEPT ![x] = temp[f]]
        \/ cutter[x] # f /\ UNCHANGED cache
  /\ IF next[f] = Len(Files) THEN Go(f, "open") /\ UNCHANGED next
     ELSE next' = [next EXCEPT ![f] = @ + 1] /\ Go(f, "empty")
  /\ UNCHANGED <<result, archive, url, temp, company, cutter, fetches, crashes>>

\* dataset.Open of what is installed, and return.
OpenInstalled(f) ==
  /\ Where(f, "open")
  /\ Finish(f, IF Opens THEN "set" ELSE "error")
  /\ UNCHANGED <<company, cache, cutter, fetches, crashes>>

\* The run that asked for the dataset is done loading from it.
Loaded(f) ==
  /\ Where(f, "using")
  /\ Go(f, "idle")
  /\ UNCHANGED <<result, archive, url, temp, next, company, cache, cutter, fetches, crashes>>

\* Killed at any point, whatever it was writing cut short.
Killed(f) ==
  /\ Busy(f) /\ crashes < MaxCrashes
  /\ crashes' = crashes + 1
  /\ Finish(f, "killed")
  /\ UNCHANGED <<company, cache, cutter, fetches>>

\* Between two fetches a file of the cache is cut short or removed.
Decay ==
  /\ crashes < MaxCrashes /\ \A f \in Fetchers : Where(f, "idle")
  /\ crashes' = crashes + 1
  /\ \E x \in Names : cache[x] = "right" /\ cache' \in {[cache EXCEPT ![x] = v] : v \in {"cut", "absent"}}
  /\ UNCHANGED <<mine, company, cutter, fetches>>

FetchStep(f) ==
  \/ Download(f) \/ VerifyArchive(f) \/ Extract(f) \/ VerifyContent(f) \/ Install(f)
  \/ Empty(f) \/ Fill(f) \/ OpenInstalled(f) \/ Loaded(f)

FetchNext == Decay \/ \E f \in Fetchers : Fetch(f) \/ FetchStep(f) \/ Killed(f)

-----------------------------------------------------------------------------
\* Type correctness.
FetchTypeOK ==
  /\ fpc \in [Fetchers -> {"idle", "download", "archive", "extract", "content", "install", "empty",
                           "fill", "open", "using"}]
  /\ result \in [Fetchers -> {"nothing", "set", "error", "killed"}]
  /\ archive \in [Fetchers -> {"absent", "right", "other"}]
  /\ url \in [Fetchers -> DOMAIN Servers] /\ temp \in [Fetchers -> {"absent", "right", "other"}]
  /\ next \in [Fetchers -> DOMAIN Files] /\ company \in [Fetchers -> BOOLEAN]
  /\ cache \in [Names -> {"absent", "cut", "right", "other"}]
  /\ cutter \in [Names -> Fetchers \cup {Nobody}]
  /\ fetches \in Nat /\ crashes \in Nat

\* Whatever the servers serve, wherever a fetch is killed and whoever copies beside it, the
\* cache never comes to hold a byte that is not the pin's, so what it hands out is the pinned
\* dataset: the two checks of Fetch stand before the only two writes.
NeverOtherBytes == \A x \in Names : cache[x] # "other"

\* A cache a killed fetch left half copied is mended by the next fetch that gets the archive,
\* when nobody disturbs it: a fetch whose content was verified, and that had no company, ends
\* with the dataset.
TornHeals ==
  [][\A f \in Fetchers :
       (Where(f, "open") /\ ~Where(f, "open")' /\ ~company[f]) => result'[f] \in {"set", "killed"}]_fetchVars

\* A process that loads from the cache finds in it what it verified: Fetch returns "a
\* dataset.Set wrapping the verified directory".
ReadersKeepTheirs == \A f \in Fetchers : Where(f, "using") => \A x \in Names : cache[x] = "right"
================================================================================
