-------------------------------- MODULE Zu2Pool --------------------------------
(***************************************************************************)
(* The session of the zu2 adapter (engine/zu2/inproc.go): a pool of libzu2 *)
(* sessions on one database, which opens when it is first needed, and a    *)
(* Load that runs one of the sessions without durability and syncs once.   *)
(*                                                                         *)
(* Taking and giving back are one step each, being under the mutex. Load   *)
(* holds the mutex from end to end; it is taken apart because any of its   *)
(* steps may fail and what is deferred still runs. The callers keep the    *)
(* lifecycle of engine.Session: nothing is under way during Load or Close. *)
(***************************************************************************)
EXTENDS Integers, Sequences

CONSTANTS
  Callers,   \* the goroutines that share the session
  MaxLoads   \* bound of the model: how often the session is loaded

NoConn == 0
Loader == "loader"

VARIABLES
  db,      \* "unopened", "sized" by a manifest, "default", or "closed"
  all,     \* every libzu2 session opened and not freed
  idle,    \* the ones not checked out, the last given back at the end
  opened,  \* how many were ever opened
  hand,    \* what each caller, and Load, holds
  async,   \* sessions whose durability is ASYNC though the run asked for durable
  rows,    \* where the loaded records are: "none", "memory", "device"
  step,    \* where Load is
  err,     \* the error Load is about to return
  loads,   \* how often Load was called
  last,    \* what the last Load returned
  failed   \* history: a Load returned an error

vars == <<db, all, idle, opened, hand, async, rows, step, err, loads, last, failed>>
load == <<rows, step, err, loads, last, failed>>

Holders == Callers \cup {Loader}
Idle == {idle[i] : i \in 1..Len(idle)}

Init ==
  /\ db = "unopened"
  /\ all = {} /\ idle = <<>> /\ opened = 0
  /\ hand = [h \in Holders |-> NoConn]
  /\ async = {}
  /\ rows = "none" /\ step = "out" /\ err = FALSE
  /\ loads = 0 /\ last = "none" /\ failed = FALSE

-----------------------------------------------------------------------------
(* Taking and giving back.                                                 *)

PopIdle(h) ==
  /\ idle # <<>>
  /\ hand' = [hand EXCEPT ![h] = idle[Len(idle)]]
  /\ idle' = SubSeq(idle, 1, Len(idle) - 1)
  /\ UNCHANGED <<all, opened>>

\* A session on which the durability could not be set is closed and not pooled.
OpenSession(h) ==
  /\ idle = <<>>
  /\ opened' = opened + 1
  /\ hand' = [hand EXCEPT ![h] = opened + 1]
  /\ all' = all \cup {opened + 1}
  /\ UNCHANGED idle

Take(h) == PopIdle(h) \/ OpenSession(h)

\* Mutated form: the session is free again and stays in the hand.
Share(h) ==
  /\ idle' = IF db = "closed" THEN idle ELSE Append(idle, hand[h])
  /\ hand' = hand

GiveBack(h) ==
  /\ idle' = IF db = "closed" THEN idle ELSE Append(idle, hand[h])
  /\ hand' = [hand EXCEPT ![h] = NoConn]

\* openLocked: the first to need the database opens it, and the second time is a no-op.
OpenAs(size) == db' = IF db = "unopened" THEN size ELSE db

\* Exec: the text is parsed, a session is taken. A query before any load opens
\* the database as the engine ships.
Acquire(c) ==
  /\ db # "closed" /\ step = "out" /\ hand[c] = NoConn
  /\ OpenAs("default")
  /\ Take(c)
  /\ UNCHANGED <<async, load>>

\* No session came of it, but the database may be open now.
AcquireFails(c) ==
  /\ db # "closed" /\ step = "out" /\ hand[c] = NoConn /\ idle = <<>>
  /\ OpenAs("default")
  /\ UNCHANGED <<all, idle, opened, hand, async, load>>

\* The directive has run and its answer is copied out, or it has failed.
Release(c) ==
  /\ step = "out" /\ hand[c] # NoConn
  /\ GiveBack(c)
  /\ UNCHANGED <<db, all, opened, async, load>>

-----------------------------------------------------------------------------
(* Load.                                                                   *)

Quiet == step = "out" /\ \A c \in Callers : hand[c] = NoConn

Fail == err' = TRUE
Go(to) == step' = to

\* The dataset has one label, one type and files; the database opens for its size.
LoadBegin ==
  /\ db # "closed" /\ Quiet /\ loads < MaxLoads
  /\ loads' = loads + 1
  /\ err' = FALSE
  /\ \E size \in {"sized", "default"} : OpenAs(size)
  /\ Take(Loader)
  /\ Go("relax")
  /\ UNCHANGED <<async, rows, last, failed>>

\* It is refused, or nothing opens.
LoadRefused ==
  /\ db # "closed" /\ Quiet /\ loads < MaxLoads
  /\ loads' = loads + 1
  /\ last' = "error" /\ failed' = TRUE
  /\ UNCHANGED <<db, all, idle, opened, hand, async, rows, step, err>>

RelaxFails ==
  /\ step = "relax"
  /\ Fail /\ Go("give")
  /\ UNCHANGED <<db, all, idle, opened, hand, async, rows, loads, last, failed>>

\* From here on the restore is deferred.
Relax ==
  /\ step = "relax"
  /\ async' = async \cup {hand[Loader]}
  /\ Go("append")
  /\ UNCHANGED <<db, all, idle, opened, hand, rows, err, loads, last, failed>>

Insert ==
  /\ step = "append"
  /\ rows' = "memory"
  /\ Go("sync")
  /\ UNCHANGED <<db, all, idle, opened, hand, async, err, loads, last, failed>>

\* A row that does not parse, an endpoint that is no node, a full disk, or the
\* context, which is looked at every 4096 rows.
InsertFails ==
  /\ step = "append"
  /\ rows' \in {rows, "memory"}
  /\ Fail /\ Go("restore")
  /\ UNCHANGED <<db, all, idle, opened, hand, async, loads, last, failed>>

Sync ==
  /\ step = "sync"
  /\ rows' = "device"
  /\ Go("restore")
  /\ UNCHANGED <<db, all, idle, opened, hand, async, err, loads, last, failed>>

SyncFails ==
  /\ step = "sync"
  /\ Fail /\ Go("restore")
  /\ UNCHANGED <<db, all, idle, opened, hand, async, rows, loads, last, failed>>

Restore ==
  /\ step = "restore"
  /\ async' = async \ {hand[Loader]}
  /\ Go("give")
  /\ UNCHANGED <<db, all, idle, opened, hand, rows, err, loads, last, failed>>

\* Mutated form: what the deferred restore answers is dropped.
RestoreFailsQuietly ==
  /\ step = "restore"
  /\ Go("give")
  /\ UNCHANGED <<db, all, idle, opened, hand, async, rows, err, loads, last, failed>>

\* Load fails for it, unless it fails already; the session goes back either way.
RestoreFails ==
  /\ step = "restore"
  /\ Fail /\ Go("give")
  /\ UNCHANGED <<db, all, idle, opened, hand, async, rows, loads, last, failed>>

LoadEnd ==
  /\ step = "give"
  /\ GiveBack(Loader)
  /\ last' = IF err THEN "error" ELSE "ok"
  /\ failed' = (failed \/ err)
  /\ Go("out")
  /\ UNCHANGED <<db, all, opened, async, rows, err, loads>>

Close ==
  /\ db # "closed" /\ Quiet
  /\ db' = "closed"
  /\ all' = {} /\ idle' = <<>> /\ async' = {}
  /\ UNCHANGED <<opened, hand, load>>

Loading ==
  \/ LoadBegin \/ LoadRefused \/ RelaxFails \/ Relax \/ Insert \/ InsertFails
  \/ Sync \/ SyncFails \/ Restore \/ RestoreFails \/ LoadEnd

Next ==
  \/ \E c \in Callers : Acquire(c) \/ AcquireFails(c) \/ Release(c)
  \/ Loading
  \/ Close

Spec == Init /\ [][Next]_vars

-----------------------------------------------------------------------------
(* Properties.                                                             *)

\* The variables stay in their types.
TypeOK ==
  /\ db \in {"unopened", "sized", "default", "closed"}
  /\ opened \in Nat /\ all \subseteq 1..opened /\ idle \in Seq(1..opened)
  /\ hand \in [Holders -> 0..opened]
  /\ async \subseteq all
  /\ rows \in {"none", "memory", "device"}
  /\ step \in {"out", "relax", "append", "sync", "restore", "give"}
  /\ err \in BOOLEAN /\ failed \in BOOLEAN /\ loads \in 0..MaxLoads /\ last \in {"none", "ok", "error"}

\* "a session left in async would quietly measure a write workload at the wrong
\* durability" (inproc.go, Load): one is in the pool, or with a caller, only after
\* a Load that returned an error, and that error ends the run.
LentAsConfigured ==
  ~failed => \A k \in async : k = hand[Loader]

\* "they all are when it returns" (inproc.go, Load): what a Load that worked has
\* written is on the device, though the session wrote it without waiting.
LoadedIsOnDevice == last = "ok" /\ step = "out" => rows = "device"

-----------------------------------------------------------------------------
(* Zu2Pool implements Lending.                                             *)

Promise ==
  INSTANCE Lending WITH
    Callers <- Holders,
    Nobody  <- NoConn,
    held    <- IF db = "closed" THEN [h \in Holders |-> NoConn] ELSE hand,
    usable  <- all

\* Whoever calls, Load among them, has a session that is open and its own.
LendsSafely == Promise!Init /\ [][Promise!Next]_(Promise!vars)
=============================================================================
