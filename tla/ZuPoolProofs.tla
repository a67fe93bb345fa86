----------------------------- MODULE ZuPoolProofs -----------------------------
(***************************************************************************)
(* Proofs about ZuPool, for any number of callers and of loads.            *)
(***************************************************************************)
EXTENDS ZuPool, SequenceTheorems, FiniteSetTheorems, TLAPS

\* The inductive invariant: OneHolder and NothingLost need each other (what is
\* opened is new because all of it is known), the caller's place, and that a
\* closed session has no call under way.
HandInv == \A c \in Callers : hand[c] = NoConn <=> pc[c] = "out"
ClosedInv == closed => \A c \in Callers : pc[c] \in {"out", "tx"}
PoolInv == TypeOK /\ OneHolder /\ NothingLost /\ CloseFreesAll /\ HandInv /\ ClosedInv

\* What release does to the free list.
LEMMA Appended ==
  ASSUME NEW S, NEW k \in S, idle \in Seq(S), idle' = Append(idle, k)
  PROVE  /\ Idle' = Idle \cup {k}
         /\ idle' \in Seq(S)
         /\ Len(idle') = Len(idle) + 1
         /\ idle'[Len(idle) + 1] = k
         /\ \A i \in 1..Len(idle) : idle'[i] = idle[i]
  BY DEF Idle

\* How long the list is without its last element.
LEMMA PrefixLen ==
  ASSUME NEW S, NEW s, NEW n \in Nat, \A i \in 1..n : s[i] \in S
  PROVE  Len(SubSeq(s, 1, n)) = n
<1>1. Len(SubSeq(s, 1, n)) = IF 1 <= n THEN n - 1 + 1 ELSE 0
  BY SubSeqProperties
<1> QED
  BY <1>1, SMT

\* What acquire does to the free list when a connection is free.
LEMMA Popped ==
  ASSUME NEW S, idle \in Seq(S), PopIdle,
         \A i, j \in 1..Len(idle) : i # j => idle[i] # idle[j]
  PROVE  /\ idle[Len(idle)] \in Idle
         /\ Idle' = Idle \ {idle[Len(idle)]}
         /\ idle' \in Seq(S)
         /\ Len(idle') = Len(idle) - 1
         /\ \A i \in 1..Len(idle') : idle'[i] = idle[i]
<1>1. Len(idle) \in Nat \ {0} /\ Len(idle) - 1 \in Nat
  BY EmptySeq DEF PopIdle
<1>2. \A i \in 1..Len(idle) - 1 : idle[i] \in S
  BY <1>1, ElementOfSeq
<1>3. Len(idle') = Len(idle) - 1
  BY <1>1, <1>2, PrefixLen DEF PopIdle
<1>4. idle' \in Seq(S) /\ \A i \in 1..Len(idle) - 1 : idle'[i] = idle[i]
  BY <1>1 DEF PopIdle
<1> QED
  BY <1>1, <1>3, <1>4 DEF Idle

LEMMA OutIsFinite == IsFiniteSet(Out) /\ Cardinality(Out) \in Nat
<1>1. \E f \in [Callers -> {hand[c] : c \in Callers}] :
        \A k \in {hand[c] : c \in Callers} : \E c \in Callers : f[c] = k
  <2>1. [c \in Callers |-> hand[c]] \in [Callers -> {hand[c] : c \in Callers}]
    OBVIOUS
  <2> QED
    BY <2>1
<1>2. IsFiniteSet({hand[c] : c \in Callers})
  BY <1>1, ZuPoolAssumption, FS_Surjection DEF Surjection
<1>3. IsFiniteSet(Out)
  BY <1>2, FS_Subset DEF Out
<1> QED
  BY <1>3, FS_CardinalityType

LEMMA EmptyList == ASSUME NEW S PROVE <<>> \in Seq(S) /\ Len(<<>>) = 0
  BY EmptySeq

LEMMA PoolInit == Init => PoolInv
<1> SUFFICES ASSUME Init PROVE PoolInv
  OBVIOUS
<1> USE DEF Init, NoConn
<1>1. idle \in Seq(1..opened) /\ Len(idle) = 0
  BY EmptyList
<1>2. pc \in [Callers -> {"out", "exec", "begin", "tx", "releasing"}] /\ hand \in [Callers -> 0..opened]
  OBVIOUS
<1>3. opened \in Nat /\ all \subseteq 1..opened /\ inTx \subseteq all /\ stuck \subseteq all
  OBVIOUS
<1>4a. loads \in 0..MaxLoads /\ peak \in Nat
  BY ZuPoolAssumption DEF ZuPoolAssumption
<1>4b. closed \in BOOLEAN
  BY Zenon
<1>5. TypeOK
  BY <1>1, <1>2, <1>3, <1>4a, <1>4b DEF TypeOK
<1>6. Idle = {} /\ Out = {}
  BY <1>1 DEF Idle, Out
<1>7. OneHolder /\ NothingLost /\ CloseFreesAll /\ HandInv /\ ClosedInv
  BY <1>1, <1>6 DEF OneHolder, NothingLost, CloseFreesAll, HandInv, ClosedInv
<1> QED
  BY <1>5, <1>7 DEF PoolInv

\* A caller takes k, which nobody holds; the rest of the free list stays.
Takes(c, k) ==
  /\ hand' = [hand EXCEPT ![c] = k] /\ k \notin Out /\ k \in 1..opened'
  /\ opened' \in Nat /\ opened <= opened'
  /\ idle' \in Seq(1..opened') /\ Idle' = Idle \ {k}
  /\ \A i, j \in 1..Len(idle') : i # j => idle'[i] # idle'[j]
  /\ all' = all \cup {k}

\* Acquire takes a connection from the list, or one that is new.
LEMMA AcquireTakes ==
  ASSUME PoolInv, NEW c \in Callers, Acquire(c)
  PROVE  \E k : Takes(c, k)
<1> USE DEF PoolInv, TypeOK, NoConn
<1>0. ~closed
  BY DEF Acquire
<1>1. CASE PopIdle /\ \E to \in {"exec", "begin"} : Hold(c, idle[Len(idle)], to)
  <2> DEFINE k == idle[Len(idle)]
  <2>1. /\ k \in Idle /\ Idle' = Idle \ {k} /\ idle' \in Seq(1..opened)
        /\ Len(idle') = Len(idle) - 1 /\ \A i \in 1..Len(idle') : idle'[i] = idle[i]
    BY <1>1, Popped DEF OneHolder
  <2>2. opened' = opened /\ all' = all /\ hand' = [hand EXCEPT ![c] = k]
    BY <1>1 DEF PopIdle, Hold
  <2>3. Len(idle) \in Nat
    OBVIOUS
  <2>4. \A i, j \in 1..Len(idle') : i # j => idle'[i] # idle'[j]
    <3> TAKE i, j \in 1..Len(idle')
    <3>1. i \in 1..Len(idle) /\ j \in 1..Len(idle)
      BY <2>1, <2>3
    <3> QED
      BY <2>1, <3>1 DEF OneHolder
  <2>5. k \in all /\ k \notin Out
    BY <1>0, <2>1 DEF NothingLost, OneHolder
  <2> HIDE DEF k
  <2>6. k \in 1..opened' /\ opened' \in Nat /\ opened <= opened'
    BY <2>2, <2>5
  <2>7. idle' \in Seq(1..opened') /\ all' = all \cup {k}
    BY <2>1, <2>2, <2>5
  <2>8. Takes(c, k)
    BY <2>1, <2>2, <2>4, <2>5, <2>6, <2>7, Zenon DEF Takes
  <2> QED
    BY <2>8
<1>2. CASE OpenConn /\ \E to \in {"exec", "begin"} : Hold(c, opened + 1, to)
  <2>1. idle = <<>> /\ idle' = idle /\ Len(idle') = 0
    BY <1>2, EmptyList DEF OpenConn
  <2>2. Idle = {} /\ Idle' = {}
    BY <2>1 DEF Idle
  <2>3. /\ opened' = opened + 1 /\ all' = all \cup {opened + 1}
        /\ hand' = [hand EXCEPT ![c] = opened + 1]
    BY <1>2 DEF OpenConn, Hold
  <2>4. opened + 1 \notin Out
    BY <1>0 DEF NothingLost
  <2>5. idle' \in Seq(1..opened')
    BY <2>1, EmptyList
  <2>6. opened + 1 \in 1..opened' /\ opened' \in Nat /\ opened <= opened'
    BY <2>3
  <2>7. \A i, j \in 1..Len(idle') : i # j => idle'[i] # idle'[j]
    BY <2>1
  <2>8. Takes(c, opened + 1)
    BY <2>2, <2>3, <2>4, <2>5, <2>6, <2>7 DEF Takes
  <2> QED
    BY <2>8
<1> QED
  BY <1>1, <1>2 DEF Acquire

LEMMA AcquireKeeps ==
  ASSUME PoolInv, NEW c \in Callers, Acquire(c)
  PROVE  PoolInv'
<1> USE DEF PoolInv, TypeOK, NoConn
<1>1. PICK k : Takes(c, k)
  BY AcquireTakes
<1>2. ~closed /\ pc[c] = "out" /\ hand[c] = NoConn /\ closed' = closed /\ loads' = loads
      /\ inTx' = inTx /\ stuck' = stuck
  BY DEF Acquire, HandInv
<1>3. PICK to \in {"exec", "begin"} : pc' = [pc EXCEPT ![c] = to]
  BY DEF Acquire, Hold
<1>4. Out' = Out \cup {k} /\ k # NoConn
  BY <1>1, <1>2 DEF Takes, Out
<1>5. peak' \in Nat
  BY OutIsFinite DEF Acquire, Hold
<1>6. all' \subseteq 1..opened' /\ hand' \in [Callers -> 0..opened']
  BY <1>1 DEF Takes
<1>7. TypeOK'
  <2>1. pc' \in [Callers -> {"out", "exec", "begin", "tx", "releasing"}]
    BY <1>3
  <2>2. opened' \in Nat /\ idle' \in Seq(1..opened') /\ all \subseteq all'
    BY <1>1 DEF Takes
  <2> QED
    BY <1>2, <1>5, <1>6, <2>1, <2>2
<1>8. OneHolder'
  <2>1. \A a, b \in Callers : a # b /\ hand'[a] # NoConn => hand'[a] # hand'[b]
    <3> SUFFICES ASSUME NEW a \in Callers, NEW b \in Callers, a # b, hand'[a] # NoConn
                 PROVE  hand'[a] # hand'[b]
      OBVIOUS
    <3>1. \A d \in Callers : hand[d] # k
      BY <1>1, <1>4 DEF Takes, Out
    <3> QED
      BY <1>1, <3>1 DEF Takes, OneHolder
  <2>2. Out' \cap Idle' = {}
    BY <1>1, <1>2, <1>4 DEF Takes, OneHolder
  <2> QED
    BY <1>1, <2>1, <2>2 DEF Takes, OneHolder
<1>9. NothingLost'
  BY <1>1, <1>2, <1>4 DEF Takes, NothingLost
<1>10. HandInv'
  BY <1>1, <1>3, <1>4 DEF Takes, HandInv
<1> QED
  BY <1>2, <1>7, <1>8, <1>9, <1>10 DEF CloseFreesAll, ClosedInv

LEMMA ReleaseKeeps ==
  ASSUME PoolInv, NEW c \in Callers, Release(c)
  PROVE  PoolInv'
<1> USE DEF PoolInv, TypeOK, NoConn
<1> DEFINE k == hand[c]
<1>1. /\ ~closed /\ k # NoConn /\ k \in Out /\ k \notin Idle
      /\ closed' = closed /\ idle' = Append(idle, k) /\ hand' = [hand EXCEPT ![c] = NoConn]
      /\ pc' = [pc EXCEPT ![c] = "out"]
  BY DEF Release, HandInv, ClosedInv, OneHolder, Out
<1>2. /\ all' = all /\ opened' = opened /\ loads' = loads /\ peak' = peak
      /\ inTx' = inTx /\ stuck' = stuck
  BY DEF Release
<1>3. k \in 1..opened
  BY <1>1 DEF NothingLost
<1>4. /\ Idle' = Idle \cup {k} /\ idle' \in Seq(1..opened) /\ Len(idle') = Len(idle) + 1
      /\ idle'[Len(idle) + 1] = k /\ \A i \in 1..Len(idle) : idle'[i] = idle[i]
  BY <1>1, <1>3, Appended
<1>5. Out' = Out \ {k}
  BY <1>1 DEF Out, OneHolder
<1>6. TypeOK'
  BY <1>1, <1>2, <1>4
<1>7. \A i, j \in 1..Len(idle') : i # j => idle'[i] # idle'[j]
  <2>1. Len(idle) \in Nat /\ \A i \in 1..Len(idle) : idle[i] # k
    BY <1>1 DEF Idle
  <2> TAKE i, j \in 1..Len(idle')
  <2>2. i \in 1..Len(idle) \/ i = Len(idle) + 1
    BY <1>4, <2>1
  <2>3. j \in 1..Len(idle) \/ j = Len(idle) + 1
    BY <1>4, <2>1
  <2> QED
    BY <1>4, <2>1, <2>2, <2>3 DEF OneHolder
<1>8. \A a, b \in Callers : a # b /\ hand'[a] # NoConn => hand'[a] # hand'[b]
  BY <1>1 DEF OneHolder
<1>9. OneHolder' /\ NothingLost'
  BY <1>1, <1>2, <1>4, <1>5, <1>7, <1>8 DEF OneHolder, NothingLost
<1>10. HandInv'
  BY <1>1 DEF HandInv
<1> QED
  BY <1>1, <1>6, <1>9, <1>10 DEF CloseFreesAll, ClosedInv

\* BEGIN, COMMIT and ROLLBACK leave the pool alone, so only the caller's place,
\* and that it still holds something, has to be seen to.
LEMMA TransactionKeeps ==
  ASSUME PoolInv, NEW c \in Callers,
         BeginOk(c) \/ BeginFails(c) \/ Finish(c) \/ FinishFails(c)
  PROVE  PoolInv'
<1> USE DEF PoolInv, TypeOK, NoConn
<1>1. UNCHANGED pool /\ UNCHANGED <<hand, peak>>
  BY DEF BeginOk, BeginFails, Finish, FinishFails
<1>2. pc[c] \in {"begin", "tx"} /\ ~closed /\ hand[c] # NoConn
  BY DEF BeginOk, BeginFails, Finish, FinishFails, HandInv, ClosedInv
<1>3. \E to \in {"tx", "releasing"} : pc' = [pc EXCEPT ![c] = to]
  BY DEF BeginOk, BeginFails, Finish, FinishFails
<1>4. hand[c] \in all
  BY <1>2 DEF NothingLost, Out
<1>5. inTx' \subseteq inTx \cup {hand[c]} /\ stuck' \subseteq stuck \cup {hand[c]}
  BY DEF BeginOk, BeginFails, Finish, FinishFails
<1>6. /\ all' = all /\ idle' = idle /\ closed' = closed /\ opened' = opened
      /\ loads' = loads /\ hand' = hand /\ peak' = peak
  BY <1>1 DEF pool
<1>7. TypeOK'
  BY <1>3, <1>4, <1>5, <1>6
<1>8. Idle' = Idle /\ Out' = Out
  BY <1>6 DEF Idle, Out
<1>9. OneHolder' /\ NothingLost' /\ CloseFreesAll'
  BY <1>6, <1>8 DEF OneHolder, NothingLost, CloseFreesAll
<1>10. HandInv' /\ ClosedInv'
  BY <1>2, <1>3, <1>6 DEF HandInv, ClosedInv
<1> QED
  BY <1>7, <1>9, <1>10

LEMMA FreeAllKeeps ==
  ASSUME PoolInv, LoadDataset \/ Close, FreeAll
  PROVE  PoolInv'
<1> USE DEF PoolInv, TypeOK, NoConn
<1>1. /\ all' = {} /\ idle' = <<>> /\ inTx' = {} /\ stuck' = {}
      /\ opened' = opened /\ pc' = pc /\ hand' = hand /\ peak' = peak
  BY DEF FreeAll, LoadDataset, Close
<1>2. idle' \in Seq(1..opened) /\ Len(idle') = 0
  BY <1>1, EmptyList
<1>3a. loads' \in 0..MaxLoads
  BY ZuPoolAssumption DEF ZuPoolAssumption, LoadDataset, MayLoad, Close
<1>3b. closed' \in BOOLEAN
  <2>1. closed' = closed \/ closed' = TRUE
    BY Zenon DEF LoadDataset, Close
  <2> QED
    BY <2>1, Zenon
<1>4. TypeOK'
  BY <1>1, <1>2, <1>3a, <1>3b
<1>5. Idle' = {}
  BY <1>2 DEF Idle
<1>6. ~closed' => Out' = {}
  BY <1>1 DEF LoadDataset, MayLoad, Close, Quiet, HandInv, Out
<1>7. closed' => \A c \in Callers : pc'[c] \in {"out", "tx"}
  BY <1>1 DEF LoadDataset, MayLoad, Close, ClosedInv
<1> QED
  BY <1>1, <1>2, <1>4, <1>5, <1>6, <1>7 DEF OneHolder, NothingLost, CloseFreesAll, HandInv, ClosedInv

\* A load by statements opens a connection, when none is free, and leaves it free.
LEMMA LoadStatementsKeeps ==
  ASSUME PoolInv, LoadStatements
  PROVE  PoolInv'
<1> USE DEF PoolInv, TypeOK, NoConn
<1>1. /\ ~closed /\ closed' = closed /\ pc' = pc /\ hand' = hand
      /\ inTx' = inTx /\ stuck' = stuck
  BY DEF LoadStatements, MayLoad
<1>2. loads' \in 0..MaxLoads
  BY ZuPoolAssumption DEF LoadStatements, MayLoad
<1>3. Out = {} /\ Out' = {}
  BY <1>1 DEF LoadStatements, MayLoad, Quiet, HandInv, Out
<1>4. CASE idle # <<>>
  <2>1. opened' = opened /\ all' = all /\ idle' = idle /\ peak' = peak
    BY <1>4 DEF LoadStatements
  <2>2. Idle' = Idle
    BY <2>1 DEF Idle
  <2>3. TypeOK'
    BY <1>1, <1>2, <2>1
  <2> QED
    BY <1>1, <1>3, <2>1, <2>2, <2>3 DEF OneHolder, NothingLost, CloseFreesAll, HandInv, ClosedInv
<1>5. CASE idle = <<>>
  <2>1. opened' = opened + 1 /\ all' = all \cup {opened + 1} /\ idle' = <<opened + 1>>
    BY <1>5 DEF LoadStatements
  <2>2. peak' \in Nat
    BY <1>5 DEF LoadStatements
  <2>3. idle' \in Seq(1..opened') /\ Len(idle') = 1 /\ idle'[1] = opened + 1
    BY <2>1
  <2>4. Idle = {} /\ Idle' = {opened + 1}
    BY <1>5, <2>3, EmptyList DEF Idle
  <2>5. TypeOK'
    BY <1>1, <1>2, <2>1, <2>2, <2>3
  <2> QED
    <3>1. OneHolder'
      BY <1>1, <1>3, <2>3 DEF OneHolder
    <3>2. NothingLost'
      BY <1>1, <1>3, <2>1, <2>4 DEF NothingLost
    <3>3. HandInv'
      BY <1>1 DEF HandInv
    <3> QED
      BY <1>1, <2>5, <3>1, <3>2, <3>3 DEF CloseFreesAll, ClosedInv
<1> QED
  BY <1>4, <1>5

LEMMA StutterKeeps ==
  ASSUME PoolInv, UNCHANGED <<all, idle, closed, opened, pc, hand, inTx, stuck, peak>>,
         loads' \in 0..MaxLoads
  PROVE  PoolInv'
<1>1. TypeOK'
  BY DEF PoolInv, TypeOK
<1>2. Idle' = Idle /\ Out' = Out
  BY DEF Idle, Out
<1>3. OneHolder'
  BY <1>2 DEF PoolInv, OneHolder
<1>4. NothingLost' /\ CloseFreesAll'
  BY <1>2 DEF PoolInv, NothingLost, CloseFreesAll
<1>5. HandInv' /\ ClosedInv'
  BY DEF PoolInv, HandInv, ClosedInv
<1> QED
  BY <1>1, <1>3, <1>4, <1>5 DEF PoolInv

LEMMA StepKeeps == PoolInv /\ [Next]_vars => PoolInv'
<1> SUFFICES ASSUME PoolInv, [Next]_vars PROVE PoolInv'
  OBVIOUS
<1>1. CASE \E c \in Callers : Caller(c)
  BY <1>1, AcquireKeeps, ReleaseKeeps, TransactionKeeps DEF Caller
<1>2. CASE LoadDataset /\ ~FreeAll
  <2>1. loads' \in 0..MaxLoads
    BY <1>2, ZuPoolAssumption DEF LoadDataset, MayLoad, PoolInv, TypeOK
  <2> QED
    BY <1>2, <2>1, StutterKeeps DEF LoadDataset
<1>3. CASE (LoadDataset /\ FreeAll) \/ Close
  BY <1>3, FreeAllKeeps DEF Close
<1>4. CASE LoadStatements
  BY <1>4, LoadStatementsKeeps
<1>5. CASE UNCHANGED vars
  BY <1>5, StutterKeeps DEF vars, PoolInv, TypeOK
<1> QED
  BY <1>1, <1>2, <1>3, <1>4, <1>5 DEF Next

LEMMA PoolInvariant == Spec => []PoolInv
  BY PoolInit, StepKeeps, PTL DEF Spec

\* Every variable stays in its type, whoever calls and whatever fails.
THEOREM TypesHold == Spec => []TypeOK
<1>1. PoolInv => TypeOK
  BY DEF PoolInv
<1> QED
  BY <1>1, PoolInvariant, PTL

\* "The pool is what guarantees there is only one" (inproc.go, conn): a connection
\* is never in two hands, nor in a hand and on the free list, nor twice on it.
THEOREM OneHolderAlways == Spec => []OneHolder
<1>1. PoolInv => OneHolder
  BY DEF PoolInv
<1> QED
  BY <1>1, PoolInvariant, PTL

\* No failing call, transaction or load loses a connection, and Close frees them
\* all (inproc.go, finish and closeAllLocked).
THEOREM NothingLostAlways == Spec => [](NothingLost /\ CloseFreesAll)
<1>1. PoolInv => NothingLost /\ CloseFreesAll
  BY DEF PoolInv
<1> QED
  BY <1>1, PoolInvariant, PTL

-----------------------------------------------------------------------------
(* Transactions.                                                           *)

\* Who is about to give a connection back has no transaction open on it, but
\* for one whose COMMIT or ROLLBACK failed.
TxInv ==
  /\ TxKeepsItsConn
  /\ \A c \in Callers :
       pc[c] \in {"exec", "begin", "releasing"} /\ hand[c] \in inTx => hand[c] \in stuck

LEMMA TxAcquire ==
  ASSUME PoolInv, TxInv, NEW c \in Callers, Acquire(c)
  PROVE  TxInv'
<1> USE DEF PoolInv, TypeOK, NoConn
<1>1. PICK k : Takes(c, k)
  BY AcquireTakes
<1>2. inTx' = inTx /\ stuck' = stuck /\ ~closed
  BY DEF Acquire
<1>3. PICK to \in {"exec", "begin"} : pc' = [pc EXCEPT ![c] = to]
  BY DEF Acquire, Hold
<1>4. TxKeepsItsConn'
  BY <1>1, <1>2 DEF Takes, TxInv, TxKeepsItsConn
<1>5. k \in inTx => k \in stuck
  <2>1. k \in inTx => k \in Idle
    BY <1>1, <1>2 DEF Takes, NothingLost
  <2> QED
    BY <2>1 DEF TxInv, TxKeepsItsConn
<1>6. ASSUME NEW d \in Callers, pc'[d] \in {"exec", "begin", "releasing"}, hand'[d] \in inTx'
      PROVE  hand'[d] \in stuck'
  <2>1. CASE d = c
    BY <1>1, <1>2, <1>5, <1>6, <2>1 DEF Takes
  <2>2. CASE d # c
    BY <1>1, <1>2, <1>3, <1>6, <2>2 DEF Takes, TxInv
  <2> QED
    BY <2>1, <2>2
<1> QED
  BY <1>4, <1>6 DEF TxInv

LEMMA TxRelease ==
  ASSUME PoolInv, TxInv, NEW c \in Callers, Release(c)
  PROVE  TxInv'
<1> USE DEF PoolInv, TypeOK, NoConn
<1>1. /\ ~closed /\ hand[c] \in Out /\ idle' = Append(idle, hand[c])
      /\ hand' = [hand EXCEPT ![c] = NoConn] /\ pc' = [pc EXCEPT ![c] = "out"]
      /\ inTx' = inTx /\ stuck' = stuck
  BY DEF Release, HandInv, ClosedInv, Out
<1>2. hand[c] \in 1..opened
  BY <1>1 DEF NothingLost
<1>3. Idle' = Idle \cup {hand[c]}
  BY <1>1, <1>2, Appended
<1>4. hand[c] \in inTx => hand[c] \in stuck
  BY DEF Release, TxInv
<1>5. TxKeepsItsConn'
  BY <1>1, <1>3, <1>4 DEF TxInv, TxKeepsItsConn
<1> QED
  BY <1>1, <1>5 DEF TxInv

LEMMA TxTransaction ==
  ASSUME PoolInv, TxInv, NEW c \in Callers,
         BeginOk(c) \/ BeginFails(c) \/ Finish(c) \/ FinishFails(c)
  PROVE  TxInv'
<1> USE DEF PoolInv, TypeOK, NoConn
<1>1. idle' = idle /\ hand' = hand
  BY DEF BeginOk, BeginFails, Finish, FinishFails, pool
<1>2. Idle' = Idle
  BY <1>1 DEF Idle
<1>3. ~closed /\ hand[c] # NoConn
  BY DEF BeginOk, BeginFails, Finish, FinishFails, HandInv, ClosedInv
<1>4. hand[c] \notin Idle /\ \A d \in Callers : d # c => hand[d] # hand[c]
  BY <1>3 DEF OneHolder, Out
<1>5. CASE BeginOk(c)
  BY <1>1, <1>2, <1>4, <1>5 DEF BeginOk, TxInv, TxKeepsItsConn
<1>6. CASE BeginFails(c)
  BY <1>1, <1>2, <1>6 DEF BeginFails, TxInv, TxKeepsItsConn
<1>7. CASE Finish(c)
  BY <1>1, <1>2, <1>4, <1>7 DEF Finish, TxInv, TxKeepsItsConn
<1>8. CASE FinishFails(c)
  BY <1>1, <1>2, <1>4, <1>8 DEF FinishFails, TxInv, TxKeepsItsConn
<1> QED
  BY <1>5, <1>6, <1>7, <1>8

LEMMA TxLoadClose ==
  ASSUME PoolInv, TxInv, LoadDataset \/ LoadStatements \/ Close
  PROVE  TxInv'
<1> USE DEF PoolInv, TypeOK, NoConn
<1>1. pc' = pc /\ hand' = hand
  BY DEF LoadDataset, LoadStatements, Close
<1>2. CASE FreeAll
  BY <1>2 DEF FreeAll, TxInv, TxKeepsItsConn
<1>3. CASE inTx' = inTx /\ stuck' = stuck /\ Idle' \cap inTx = Idle \cap inTx
  BY <1>1, <1>3 DEF TxInv, TxKeepsItsConn
<1>4. CASE UNCHANGED <<all, idle, inTx, stuck>>
  BY <1>3, <1>4 DEF Idle
<1>5. CASE LoadStatements /\ idle = <<>>
  <2>1. inTx' = inTx /\ stuck' = stuck /\ idle' = <<opened + 1>>
    BY <1>5 DEF LoadStatements
  <2>2. Idle = {} /\ Idle' = {opened + 1}
    BY <1>5, <2>1, EmptyList DEF Idle
  <2> QED
    BY <1>3, <2>1, <2>2
<1> QED
  BY <1>2, <1>4, <1>5 DEF LoadDataset, LoadStatements, Close

\* A transaction has its connection to itself "until it commits or rolls back"
\* (inproc.go, tx); only a COMMIT or ROLLBACK that itself failed can leave one open
\* on a connection that is lent again.
THEOREM TxConnIsItsOwn == Spec => []TxKeepsItsConn
<1>1. Init => TxInv
  BY DEF Init, TxInv, TxKeepsItsConn
<1>2. PoolInv /\ TxInv /\ [Next]_vars => TxInv'
  <2> SUFFICES ASSUME PoolInv, TxInv, [Next]_vars PROVE TxInv'
    OBVIOUS
  <2>1. CASE UNCHANGED vars
    BY <2>1 DEF vars, TxInv, TxKeepsItsConn, Idle
  <2> QED
    BY <2>1, TxAcquire, TxRelease, TxTransaction, TxLoadClose DEF Next, Caller
<1>3. TxInv => TxKeepsItsConn
  BY DEF TxInv
<1> QED
  BY <1>1, <1>2, <1>3, PoolInvariant, PTL DEF Spec

-----------------------------------------------------------------------------
(* The size of the pool.                                                   *)

NeedInv == IsFiniteSet(all) /\ OpenedForNeed

LEMMA NeedAcquire ==
  ASSUME PoolInv, NeedInv, NEW c \in Callers, Acquire(c)
  PROVE  NeedInv'
<1> DEFINE n == Cardinality(Out)
<1>1. n \in Nat /\ peak \in Nat /\ opened \in Nat /\ ~closed
  BY OutIsFinite DEF PoolInv, TypeOK, Acquire
<1>2. peak' = IF n + 1 > peak THEN n + 1 ELSE peak
  BY DEF Acquire, Hold
<1> HIDE DEF n
<1>3. CASE PopIdle
  <2>1. all' = all /\ Cardinality(all) \in Nat
    BY <1>3, FS_CardinalityType DEF PopIdle, NeedInv
  <2> QED
    BY <1>1, <1>2, <2>1 DEF NeedInv, OpenedForNeed
<1>4. CASE OpenConn
  <2>1. Idle = {}
    BY <1>4, EmptyList DEF OpenConn, Idle
  <2>2. all = Out /\ all' = Out \cup {opened + 1} /\ opened + 1 \notin Out
    BY <1>1, <1>4, <2>1 DEF OpenConn, PoolInv, NothingLost, TypeOK
  <2>3. IsFiniteSet(all') /\ Cardinality(all') = n + 1
    BY <2>2, OutIsFinite, FS_AddElement DEF n
  <2> QED
    BY <1>1, <1>2, <2>3 DEF NeedInv, OpenedForNeed
<1> QED
  BY <1>3, <1>4 DEF Acquire

LEMMA NeedLoadClose ==
  ASSUME PoolInv, NeedInv, LoadDataset \/ LoadStatements \/ Close
  PROVE  NeedInv'
<1>1. peak \in Nat
  BY DEF PoolInv, TypeOK
<1>2. CASE all' = {} /\ peak' = peak
  BY <1>1, <1>2, FS_EmptySet DEF NeedInv, OpenedForNeed
<1>3. CASE all' = all /\ peak' = peak
  BY <1>3 DEF NeedInv, OpenedForNeed
<1>4. CASE LoadStatements /\ idle = <<>>
  <2>1. all = {}
    <3>1. Idle = {}
      BY <1>4, EmptyList DEF Idle
    <3>2. Out = {} /\ ~closed
      BY <1>4 DEF LoadStatements, MayLoad, Quiet, PoolInv, HandInv, Out
    <3> QED
      BY <3>1, <3>2 DEF PoolInv, NothingLost
  <2>2. all' = {opened + 1} /\ peak' = IF peak = 0 THEN 1 ELSE peak
    BY <1>4, <2>1 DEF LoadStatements
  <2>3. IsFiniteSet(all') /\ Cardinality(all') = 1
    BY <2>2, FS_Singleton
  <2> QED
    BY <1>1, <2>2, <2>3 DEF NeedInv, OpenedForNeed
<1> QED
  BY <1>2, <1>3, <1>4 DEF LoadDataset, LoadStatements, Close, FreeAll

\* The pool opens "another whenever every connection it has is already out"
\* (inproc.go, Session): it never has more than were once needed together.
THEOREM NoneOpenedWithoutNeed == Spec => []OpenedForNeed
<1>1. Init => NeedInv
  BY FS_EmptySet DEF Init, NeedInv, OpenedForNeed
<1>2. PoolInv /\ NeedInv /\ [Next]_vars => NeedInv'
  <2> SUFFICES ASSUME PoolInv, NeedInv, [Next]_vars PROVE NeedInv'
    OBVIOUS
  <2>1. CASE all' = all /\ peak' = peak
    BY <2>1 DEF NeedInv, OpenedForNeed
  <2> QED
    BY <2>1, NeedAcquire, NeedLoadClose
    DEF Next, Caller, Release, BeginOk, BeginFails, Finish, FinishFails, pool, vars
<1>3. NeedInv => OpenedForNeed
  BY DEF NeedInv
<1> QED
  BY <1>1, <1>2, <1>3, PoolInvariant, PTL DEF Spec

-----------------------------------------------------------------------------
(* ZuPool implements Lending.                                              *)

\* Every step of the pool is one of the abstract lender's, or changes nothing
\* it can see.
LEMMA StepLends == PoolInv /\ PoolInv' /\ [Next]_vars => [Promise!Next]_(Promise!vars)
<1> SUFFICES ASSUME PoolInv, PoolInv', [Next]_vars
             PROVE  [Promise!Next]_(Promise!vars)
  OBVIOUS
<1> USE DEF Promise!vars, NoConn
<1>1. ASSUME NEW c \in Callers, Acquire(c)
      PROVE  Promise!Next
  <2>1. PICK k : Takes(c, k)
    BY <1>1, AcquireTakes
  <2>2. ~closed /\ closed' = closed /\ hand[c] = NoConn
    BY <1>1 DEF Acquire, PoolInv, HandInv
  <2>3. hand' = [hand EXCEPT ![c] = k] /\ k \notin Out /\ k # 0 /\ all' = all \cup {k}
    BY <2>1 DEF Takes, PoolInv, TypeOK
  <2>4. hand'[c] = k
    BY <2>3 DEF PoolInv, TypeOK
  <2>5. Promise!Take(c, k)
    BY <2>2, <2>3 DEF Promise!Take, Promise!Lent, Out
  <2> QED
    BY <2>2, <2>4, <2>5 DEF Promise!Next
<1>2. ASSUME NEW c \in Callers, Release(c)
      PROVE  Promise!Next
  <2>1. ~closed /\ closed' = closed /\ hand[c] # NoConn /\ all' = all
        /\ hand' = [hand EXCEPT ![c] = NoConn]
    BY <1>2 DEF Release, PoolInv, HandInv, ClosedInv
  <2>2. Promise!GiveBack(c)
    BY <2>1 DEF Promise!GiveBack
  <2> QED
    BY <2>2 DEF Promise!Next
<1>3. ASSUME LoadDataset \/ LoadStatements
      PROVE  Promise!Next
  <2>1. ~closed /\ closed' = closed /\ hand' = hand
    BY <1>3 DEF LoadDataset, LoadStatements, MayLoad
  <2>2. \A c \in Callers : hand[c] = NoConn
    BY <1>3 DEF LoadDataset, LoadStatements, MayLoad, Quiet, PoolInv, HandInv
  <2>3. Promise!Refill
    BY <2>1, <2>2 DEF Promise!Refill, Promise!Lent
  <2> QED
    BY <2>3 DEF Promise!Next
<1>4. ASSUME Close
      PROVE  Promise!Next
  BY <1>4 DEF Close, FreeAll, Promise!CloseAll, Promise!Next
<1>5. ASSUME NEW c \in Callers, BeginOk(c) \/ BeginFails(c) \/ Finish(c) \/ FinishFails(c)
      PROVE  UNCHANGED Promise!vars
  BY <1>5 DEF BeginOk, BeginFails, Finish, FinishFails, pool
<1>6. ASSUME UNCHANGED vars
      PROVE  UNCHANGED Promise!vars
  BY <1>6 DEF vars
<1> QED
  BY <1>1, <1>2, <1>3, <1>4, <1>5, <1>6 DEF Next, Caller

\* Exec and Begin lend a connection to one caller at a time, open for as long as it
\* is held, and a closed session lends none (engine.go, Session).
THEOREM PoolLends == Spec => LendsSafely
<1>1. Init => Promise!Init
  BY DEF Init, Promise!Init
<1> QED
  BY <1>1, StepLends, PoolInvariant, PTL DEF Spec, LendsSafely
=============================================================================
