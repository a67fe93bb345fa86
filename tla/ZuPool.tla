-------------------------------- MODULE ZuPool --------------------------------
(***************************************************************************)
(* The connection pool of the zu session (engine/zu/inproc.go): Exec takes *)
(* a connection for a call, Begin for a transaction, Load may replace them *)
(* all, Close frees them all.                                              *)
(*                                                                         *)
(* Every access to the lists is under the session's mutex, so each is one  *)
(* step; what a caller does with its connection in between is not. A       *)
(* connection is an index in the order of opening. The callers keep the    *)
(* lifecycle engine.Session asks for: nothing is under way during Load or  *)
(* Close, though a transaction may have been left open.                    *)
(***************************************************************************)
EXTENDS Integers, Sequences, FiniteSets

CONSTANTS
  Callers,   \* the goroutines that share the session
  MaxLoads   \* bound of the model: how often the session is loaded

ASSUME ZuPoolAssumption == IsFiniteSet(Callers) /\ MaxLoads \in Nat

NoConn == 0

VARIABLES
  all,     \* every connection opened and not freed
  idle,    \* the ones not checked out, the last given back at the end
  closed,
  opened,  \* how many connections were ever opened
  pc,      \* where each caller is
  hand,    \* the connection a caller holds
  inTx,    \* connections on which the engine has an open transaction
  stuck,   \* history: connections whose COMMIT or ROLLBACK failed
  loads,   \* how often Load was called
  peak     \* history: the most connections that were out at once

pool == <<all, idle, closed, opened, loads>>
vars == <<all, idle, closed, opened, pc, hand, inTx, stuck, loads, peak>>

Idle == {idle[i] : i \in 1..Len(idle)}
Out == {hand[c] : c \in Callers} \ {NoConn}

Init ==
  /\ all = {} /\ idle = <<>>
  /\ closed = FALSE
  /\ opened = 0
  /\ pc = [c \in Callers |-> "out"]
  /\ hand = [c \in Callers |-> NoConn]
  /\ inTx = {} /\ stuck = {}
  /\ loads = 0
  /\ peak = 0

-----------------------------------------------------------------------------
(* Taking and giving back.                                                 *)

\* Mutated form: the connection stays in the list.
LastPeeked == UNCHANGED <<all, idle, opened>> /\ idle # <<>>

\* The connection given back last.
PopIdle ==
  /\ idle # <<>>
  /\ idle' = SubSeq(idle, 1, Len(idle) - 1)
  /\ UNCHANGED <<all, opened>>

\* Mutated form: the connection is not put on the list of all.
OpenUntracked ==
  /\ idle = <<>>
  /\ opened' = opened + 1
  /\ UNCHANGED <<all, idle>>

\* Mutated form: a new connection whether or not one is free.
OpenAlways ==
  /\ opened' = opened + 1
  /\ all' = all \cup {opened + 1}
  /\ UNCHANGED idle

\* Every connection is out, and one more opens.
OpenConn ==
  /\ idle = <<>>
  /\ opened' = opened + 1
  /\ all' = all \cup {opened + 1}
  /\ UNCHANGED idle

Hold(c, k, to) ==
  /\ hand' = [hand EXCEPT ![c] = k]
  /\ pc' = [pc EXCEPT ![c] = to]
  /\ peak' = IF Cardinality(Out) + 1 > peak THEN Cardinality(Out) + 1 ELSE peak

\* Exec and Begin begin by taking a connection; a session that is closed, a
\* context that is done and an open that fails refuse and change nothing.
Acquire(c) ==
  /\ pc[c] = "out" /\ ~closed
  /\ \E to \in {"exec", "begin"} :
       \/ PopIdle /\ Hold(c, idle[Len(idle)], to)
       \/ OpenConn /\ Hold(c, opened + 1, to)
  /\ UNCHANGED <<closed, loads, inTx, stuck>>

\* Mutated form: only a call that worked gives its connection back.
ReleaseAfterSuccess(c) ==
  /\ pc[c] \in {"exec", "releasing"}
  /\ idle' = IF closed \/ hand[c] \in stuck THEN idle ELSE Append(idle, hand[c])
  /\ hand' = [hand EXCEPT ![c] = NoConn]
  /\ pc' = [pc EXCEPT ![c] = "out"]
  /\ UNCHANGED <<all, closed, opened, loads, inTx, stuck, peak>>

\* The deferred release: Exec has compiled, bound, run and decoded, or failed to.
Release(c) ==
  /\ pc[c] \in {"exec", "releasing"}
  /\ idle' = IF closed THEN idle ELSE Append(idle, hand[c])
  /\ hand' = [hand EXCEPT ![c] = NoConn]
  /\ pc' = [pc EXCEPT ![c] = "out"]
  /\ UNCHANGED <<all, closed, opened, loads, inTx, stuck, peak>>

-----------------------------------------------------------------------------
(* Transactions.                                                           *)

BeginOk(c) ==
  /\ pc[c] = "begin"
  /\ inTx' = inTx \cup {hand[c]}
  /\ pc' = [pc EXCEPT ![c] = "tx"]
  /\ UNCHANGED pool /\ UNCHANGED <<hand, stuck, peak>>

BeginFails(c) ==
  /\ pc[c] = "begin"
  /\ pc' = [pc EXCEPT ![c] = "releasing"]
  /\ UNCHANGED pool /\ UNCHANGED <<hand, inTx, stuck, peak>>

\* Mutated form: the connection goes back before its COMMIT has run.
ReleaseThenCommit(c) ==
  /\ pc[c] = "tx" /\ ~closed
  /\ pc' = [pc EXCEPT ![c] = "releasing"]
  /\ UNCHANGED pool /\ UNCHANGED <<hand, inTx, stuck, peak>>

\* COMMIT or ROLLBACK, once; done keeps a second one out.
Finish(c) ==
  /\ pc[c] = "tx" /\ ~closed
  /\ inTx' = inTx \ {hand[c]}
  /\ stuck' = stuck \ {hand[c]}
  /\ pc' = [pc EXCEPT ![c] = "releasing"]
  /\ UNCHANGED pool /\ UNCHANGED <<hand, peak>>

\* It fails, which may leave the transaction open; the connection goes back all the same.
FinishFails(c) ==
  /\ pc[c] = "tx" /\ ~closed
  /\ inTx' \in {inTx, inTx \ {hand[c]}}
  /\ stuck' = stuck \cup {hand[c]}
  /\ pc' = [pc EXCEPT ![c] = "releasing"]
  /\ UNCHANGED pool /\ UNCHANGED <<hand, peak>>

-----------------------------------------------------------------------------
(* Load and Close.                                                         *)

\* Mutated form: the free list survives its connections.
FreeAllButIdle ==
  /\ all' = {}
  /\ inTx' = {} /\ stuck' = {}
  /\ UNCHANGED idle

\* A connection that is freed takes its transaction with it.
FreeAll ==
  /\ all' = {} /\ idle' = <<>>
  /\ inTx' = {} /\ stuck' = {}

Quiet == \A c \in Callers : pc[c] = "out"

MayLoad == ~closed /\ Quiet /\ loads < MaxLoads

\* zu copy has replaced the file under the connections. If it fails they stay.
LoadDataset ==
  /\ MayLoad
  /\ loads' = loads + 1
  /\ FreeAll \/ UNCHANGED <<all, idle, inTx, stuck>>
  /\ UNCHANGED <<closed, opened, pc, hand, peak>>

\* The setup statements run on one connection, under the mutex to the last one;
\* the first to fail ends the load, and the connection goes back either way.
LoadStatements ==
  /\ MayLoad
  /\ loads' = loads + 1
  /\ IF idle = <<>>
     THEN /\ opened' = opened + 1
          /\ all' = all \cup {opened + 1}
          /\ idle' = <<opened + 1>>
          /\ peak' = IF peak = 0 THEN 1 ELSE peak
     ELSE UNCHANGED <<opened, all, idle, peak>>
  /\ UNCHANGED <<closed, pc, hand, inTx, stuck>>

\* Close after the last Exec: what is still out was leaked by its caller.
Close ==
  /\ ~closed
  /\ \A c \in Callers : pc[c] \in {"out", "tx"}
  /\ closed' = TRUE
  /\ FreeAll
  /\ UNCHANGED <<opened, pc, hand, loads, peak>>

Caller(c) ==
  \/ Acquire(c) \/ Release(c)
  \/ BeginOk(c) \/ BeginFails(c) \/ Finish(c) \/ FinishFails(c)

Next == (\E c \in Callers : Caller(c)) \/ LoadDataset \/ LoadStatements \/ Close

Spec == Init /\ [][Next]_vars

-----------------------------------------------------------------------------
(* Properties.                                                             *)

\* The variables stay in their types.
TypeOK ==
  /\ opened \in Nat
  /\ all \subseteq 1..opened
  /\ idle \in Seq(1..opened)
  /\ closed \in BOOLEAN
  /\ pc \in [Callers -> {"out", "exec", "begin", "tx", "releasing"}]
  /\ hand \in [Callers -> 0..opened]
  /\ inTx \subseteq all /\ stuck \subseteq all
  /\ loads \in 0..MaxLoads
  /\ peak \in Nat

\* "A conn is only ever touched by the caller holding it, and the pool is what
\* guarantees there is only one" (inproc.go, conn): no connection is in two
\* hands, in a hand and free, or free twice.
OneHolder ==
  /\ \A c, d \in Callers : c # d /\ hand[c] # NoConn => hand[c] # hand[d]
  /\ ~closed => Out \cap Idle = {}
  /\ \A i, j \in 1..Len(idle) : i # j => idle[i] # idle[j]

\* Every connection opened and not freed can be lent again or is in a hand,
\* whatever failed on it: no error path takes one out of the pool for good.
NothingLost == ~closed => all = Idle \cup Out

\* The pool opens another connection only when every one is out, so it never
\* has more than were ever needed at once.
OpenedForNeed == Cardinality(all) <= peak

\* A transaction holds its connection to itself "until it commits or rolls back"
\* (inproc.go, tx): no connection is free with a transaction open on it, but
\* one whose own COMMIT or ROLLBACK failed.
TxKeepsItsConn == inTx \cap Idle \subseteq stuck

\* Close frees everything, what a caller leaked included.
CloseFreesAll == closed => all = {} /\ idle = <<>>

-----------------------------------------------------------------------------
(* ZuPool implements Lending.                                              *)

Promise ==
  INSTANCE Lending WITH
    Nobody <- NoConn,
    held   <- IF closed THEN [c \in Callers |-> NoConn] ELSE hand,
    usable <- all

\* Whatever the mutex and the free list do, a caller sees connections that are
\* open and its own.
LendsSafely == Promise!Init /\ [][Promise!Next]_(Promise!vars)
=============================================================================
