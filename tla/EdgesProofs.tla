------------------------------ MODULE EdgesProofs ------------------------------
(***************************************************************************)
(* Proofs about the parts of Edges: the engine adapters, for any number of *)
(* callers, texts, rows, datasets and loads; then the files that processes *)
(* share, Recipes, PinFetch and Lineage, for any number of processes,      *)
(* recipes, files, engines, keys, calls and kills.                         *)
(***************************************************************************)
EXTENDS Edges, ZuPoolProofs

-----------------------------------------------------------------------------
(* The adapters.                                                             *)


\* A step of all the parts is a step of each adapter, or nothing to it.
LEMMA AdapterSteps ==
  ASSUME [EdgesNext]_EdgesVars
  PROVE  /\ [Next]_vars
         /\ [Lb!Next]_(Lb!vars) /\ [Zu2!Next]_(Zu2!vars) /\ [Sql!Next]_(Sql!vars)
         /\ [Copy!Next]_(Copy!vars) /\ [Bulk!Next]_(Bulk!vars) /\ [Bolt!Next]_(Bolt!vars)
<1>1. CASE EdgesNext
  BY <1>1 DEF EdgesNext, AdaptersNext, lbVars, z2Vars, sqlVars, copyVars, blVars, boltVars,
              Lb!vars, Zu2!vars, Sql!vars, Copy!vars, Bulk!vars, Bolt!vars
<1>2. CASE UNCHANGED EdgesVars
  BY <1>2 DEF EdgesVars, AdaptersVars, lbVars, z2Vars, sqlVars, copyVars, blVars, boltVars,
              Lb!vars, Zu2!vars, Sql!vars, Copy!vars, Bulk!vars, Bolt!vars
<1> QED BY <1>1, <1>2

-----------------------------------------------------------------------------
(* Bolt.                                                                     *)

\* The inductive invariant: NothingLeftOpen and ToldCommitted, and the types they are about.
BoltInv ==
  /\ boltPc \in [Callers -> {"out", "read", "begin", "own", "write", "idle", "reading", "writing"}]
  /\ answer \in [Callers -> {"none", "ok", "error", "committed", "rolled back"}]
  /\ Bolt!NothingLeftOpen
  /\ Bolt!ToldCommitted

LEMMA BoltInvInit == Bolt!Init => BoltInv
  BY DEF Bolt!Init, BoltInv, Bolt!NothingLeftOpen, Bolt!ToldCommitted

LEMMA BoltOpens ==
  ASSUME BoltInv, NEW c \in Callers,
         Bolt!Open(c) \/ Bolt!Begin(c) \/ Bolt!RunOk(c) \/ Bolt!StreamFails(c) \/ Bolt!Exec(c)
  PROVE  BoltInv'
<1> USE DEF BoltInv, Bolt!NothingLeftOpen, Bolt!ToldCommitted, Bolt!At, Bolt!Tell
<1>1. CASE Bolt!Open(c)
  BY <1>1 DEF Bolt!Open
<1>2. CASE Bolt!Begin(c)
  BY <1>2 DEF Bolt!Begin
<1>3. CASE Bolt!RunOk(c)
  BY <1>3 DEF Bolt!RunOk
<1>4. CASE Bolt!StreamFails(c)
  BY <1>4 DEF Bolt!StreamFails
<1>5. CASE Bolt!Exec(c)
  BY <1>5 DEF Bolt!Exec
<1> QED
  BY <1>1, <1>2, <1>3, <1>4, <1>5

\* Every way out closes the session.
LEMMA BoltCloses ==
  ASSUME BoltInv, NEW c \in Callers,
         \/ Bolt!BeginFails(c) \/ Bolt!RunFails(c) \/ Bolt!CloseRead(c)
         \/ Bolt!CloseWrite(c) \/ Bolt!CloseWriteFails(c)
         \/ Bolt!Commit(c) \/ Bolt!CommitFails(c) \/ Bolt!Rollback(c)
  PROVE  BoltInv'
<1>1. boltPc' = [boltPc EXCEPT ![c] = "out"] /\ session' = session \ {c} /\ tx' = tx \ {c}
  BY DEF Bolt!BeginFails, Bolt!RunFails, Bolt!CloseRead, Bolt!CloseWrite, Bolt!CloseWriteFails,
         Bolt!Commit, Bolt!CommitFails, Bolt!Rollback, Bolt!At, Bolt!CloseSession
<1>2. \E what \in {"ok", "error", "committed", "rolled back"} :
        /\ answer' = [answer EXCEPT ![c] = what]
        /\ what = "committed" => c \in applied'
  BY DEF Bolt!BeginFails, Bolt!RunFails, Bolt!CloseRead, Bolt!CloseWrite, Bolt!CloseWriteFails,
         Bolt!Commit, Bolt!CommitFails, Bolt!Rollback, Bolt!Tell
<1>3. applied \subseteq applied'
  BY DEF Bolt!BeginFails, Bolt!RunFails, Bolt!CloseRead, Bolt!CloseWrite, Bolt!CloseWriteFails,
         Bolt!Commit, Bolt!CommitFails, Bolt!Rollback
<1> QED
  BY <1>1, <1>2, <1>3 DEF BoltInv, Bolt!NothingLeftOpen, Bolt!ToldCommitted

LEMMA BoltAlways == EdgesSpec => []BoltInv
<1>1. BoltInv /\ [Bolt!Next]_(Bolt!vars) => BoltInv'
  <2> SUFFICES ASSUME BoltInv, [Bolt!Next]_(Bolt!vars) PROVE BoltInv'
    OBVIOUS
  <2>1. CASE UNCHANGED Bolt!vars
    BY <2>1 DEF Bolt!vars, BoltInv, Bolt!NothingLeftOpen, Bolt!ToldCommitted
  <2> QED
    BY <2>1, BoltOpens, BoltCloses DEF Bolt!Next
<1>2. BoltInv /\ [EdgesNext]_EdgesVars => BoltInv'
  BY <1>1, AdapterSteps
<1> QED
  BY BoltInvInit, <1>2, PTL DEF EdgesSpec, EdgesInit, FilesInit, AdaptersInit, Steps

\* A write over Bolt that was told committed has taken effect: its COMMIT is part of Close, and
\* the error of COMMIT is the error of Close (bolt.go, Close and Commit).
THEOREM ToldCommittedAlways == EdgesSpec => []ToldCommitted
<1>1. BoltInv => ToldCommitted
  BY DEF BoltInv, ToldCommitted
<1> QED
  BY <1>1, BoltAlways, PTL

-----------------------------------------------------------------------------
(* SQL.                                                                      *)

\* Who prepared a text holds a statement of its own that is not the cached one; who runs one
\* runs the cached one, which stays cached until nobody runs anything.
SqlTypes ==
  /\ stmts \in [Texts -> (Texts \X Callers) \cup {Sql!Nothing}]
  /\ sqlPc \in [Callers -> {"out", "storing", "running", "describing", "reading"}]
  /\ text \in [Callers -> Texts \cup {Sql!Nothing}]
  /\ mine \in [Callers -> (Texts \X Callers) \cup {Sql!Nothing}]
Cached == \A t \in Texts : stmts[t] # Sql!Nothing => stmts[t][1] = t
Prepared ==
  \A c \in Callers : sqlPc[c] = "storing" =>
    text[c] \in Texts /\ mine[c] = <<text[c], c>> /\ stmts[text[c]] # mine[c]
Running ==
  \A c \in Callers : sqlPc[c] \in {"running", "describing", "reading"} =>
    \E t \in Texts : stmts[t] # Sql!Nothing /\ mine[c] = stmts[t]
SqlInv ==
  /\ SqlTypes /\ Cached /\ Prepared /\ Running
  /\ Sql!StatementsAccounted /\ Sql!RowsHaveReader

LEMMA SqlInvInit == Sql!Init => SqlInv
  BY DEF Sql!Init, SqlInv, SqlTypes, Cached, Prepared, Running,
         Sql!StatementsAccounted, Sql!RowsHaveReader, Sql!Nothing

\* The cached statements after one was put there, and the ones on their way.
Stored == {stmts[t] : t \in Texts} \ {Sql!Nothing}
OnTheWay == {mine[c] : c \in {d \in Callers : sqlPc[d] = "storing"}}

LEMMA SqlLookHit ==
  ASSUME SqlInv, NEW c \in Callers, Sql!LookHit(c) PROVE SqlInv'
<1> USE DEF Sql!LookHit, Sql!At, Sql!Use, SqlInv, SqlTypes
<1>1. SqlTypes' /\ Cached'
  BY DEF Cached
<1>2. Prepared' /\ Running'
  BY DEF Prepared, Running
<1>3. OnTheWay' = OnTheWay
  BY DEF OnTheWay
<1>4. Sql!StatementsAccounted'
  BY <1>3 DEF Sql!StatementsAccounted, OnTheWay
<1>5. Sql!RowsHaveReader'
  BY DEF Sql!RowsHaveReader
<1> QED
  BY <1>1, <1>2, <1>4, <1>5

LEMMA SqlLookMiss ==
  ASSUME SqlInv, NEW c \in Callers, Sql!LookMiss(c) PROVE SqlInv'
<1> USE DEF SqlInv, SqlTypes
<1>1. PICK t \in Texts :
        /\ stmts[t] = Sql!Nothing /\ text' = [text EXCEPT ![c] = t]
        /\ mine' = [mine EXCEPT ![c] = <<t, c>>] /\ open' = open \cup {<<t, c>>}
  BY DEF Sql!LookMiss, Sql!Use
<1>2. /\ sqlPc[c] = "out" /\ sqlPc' = [sqlPc EXCEPT ![c] = "storing"]
      /\ stmts' = stmts /\ rows' = rows
  BY DEF Sql!LookMiss, Sql!At
<1>3. SqlTypes' /\ Cached'
  BY <1>1, <1>2 DEF Cached
<1>4a. Prepared'
  <2> SUFFICES ASSUME NEW d \in Callers, sqlPc'[d] = "storing"
               PROVE  text'[d] \in Texts /\ mine'[d] = <<text'[d], d>> /\ stmts'[text'[d]] # mine'[d]
    BY DEF Prepared
  <2>1. CASE d = c
    <3>1. text'[d] = t /\ mine'[d] = <<t, c>> /\ stmts'[t] = Sql!Nothing
      BY <1>1, <1>2, <2>1
    <3>2. <<t, c>> # Sql!Nothing
      BY DEF Sql!Nothing
    <3> QED
      BY <2>1, <3>1, <3>2
  <2>2. CASE d # c
    BY <1>1, <1>2, <2>2 DEF Prepared
  <2> QED
    BY <2>1, <2>2
<1>4b. Running'
  <2>1. \A d \in Callers : sqlPc'[d] # "storing" => d # c /\ mine'[d] = mine[d] /\ sqlPc'[d] = sqlPc[d]
    BY <1>1, <1>2
  <2> QED
    BY <1>2, <2>1 DEF Running
<1>5. OnTheWay' = OnTheWay \cup {<<t, c>>}
  BY <1>1, <1>2 DEF OnTheWay
<1>6. Sql!StatementsAccounted'
  BY <1>1, <1>2, <1>5 DEF Sql!StatementsAccounted, OnTheWay
<1>7. Sql!RowsHaveReader'
  BY <1>2 DEF Sql!RowsHaveReader
<1> QED
  BY <1>3, <1>4a, <1>4b, <1>6, <1>7

LEMMA SqlStoreFirst ==
  ASSUME SqlInv, NEW c \in Callers, Sql!StoreFirst(c) PROVE SqlInv'
<1> USE DEF SqlInv, SqlTypes
<1>1. /\ text[c] \in Texts /\ mine[c] = <<text[c], c>> /\ stmts[text[c]] = Sql!Nothing
      /\ sqlPc[c] = "storing" /\ sqlPc' = [sqlPc EXCEPT ![c] = "running"]
      /\ stmts' = [stmts EXCEPT ![text[c]] = mine[c]]
      /\ open' = open /\ text' = text /\ mine' = mine /\ rows' = rows
  BY DEF Sql!StoreFirst, Sql!At, Prepared
<1>2. SqlTypes' /\ Cached'
  BY <1>1 DEF Cached
<1>3. Prepared' /\ Running'
  BY <1>1 DEF Prepared, Running, Sql!Nothing
<1>4. Stored' = Stored \cup {mine[c]}
  <2>1. /\ stmts'[text[c]] = mine[c] /\ mine[c] # Sql!Nothing
        /\ \A t \in Texts \ {text[c]} : stmts'[t] = stmts[t]
    BY <1>1 DEF Sql!Nothing
  <2> QED
    BY <1>1, <2>1 DEF Stored
<1>5. OnTheWay' = OnTheWay \ {mine[c]}
  BY <1>1 DEF OnTheWay, Prepared
<1>6. mine[c] \in OnTheWay
  BY <1>1 DEF OnTheWay
<1>7. Sql!StatementsAccounted'
  BY <1>1, <1>4, <1>5, <1>6 DEF Sql!StatementsAccounted, OnTheWay, Stored
<1>8. Sql!RowsHaveReader'
  BY <1>1 DEF Sql!RowsHaveReader
<1> QED
  BY <1>2, <1>3, <1>7, <1>8

LEMMA SqlStoreSecond ==
  ASSUME SqlInv, NEW c \in Callers, Sql!StoreSecond(c) PROVE SqlInv'
<1> USE DEF SqlInv, SqlTypes
<1>1. /\ text[c] \in Texts /\ mine[c] = <<text[c], c>> /\ stmts[text[c]] # Sql!Nothing
      /\ sqlPc[c] = "storing" /\ sqlPc' = [sqlPc EXCEPT ![c] = "running"]
      /\ open' = open \ {mine[c]} /\ mine' = [mine EXCEPT ![c] = stmts[text[c]]]
      /\ stmts' = stmts /\ text' = text /\ rows' = rows
  BY DEF Sql!StoreSecond, Sql!At, Sql!Use, Sql!CloseStmt, Prepared
<1>2. SqlTypes' /\ Cached'
  BY <1>1 DEF Cached
<1>3. Prepared' /\ Running'
  BY <1>1 DEF Prepared, Running
<1>4. mine[c] \notin Stored
  BY <1>1 DEF Stored, Prepared, Cached
<1>5. OnTheWay' = OnTheWay \ {mine[c]}
  BY <1>1 DEF OnTheWay, Prepared
<1>6. Stored' = Stored
  BY <1>1 DEF Stored
<1>7. Sql!StatementsAccounted'
  BY <1>1, <1>4, <1>5, <1>6 DEF Sql!StatementsAccounted, OnTheWay, Stored
<1>8. Sql!RowsHaveReader'
  BY <1>1 DEF Sql!RowsHaveReader
<1> QED
  BY <1>2, <1>3, <1>7, <1>8

\* The steps of a query touch no statement.
LEMMA SqlQuery ==
  ASSUME SqlInv, NEW c \in Callers,
         Sql!Query(c) \/ Sql!QueryFails(c) \/ Sql!Describe(c) \/ Sql!DescribeFails(c) \/ Sql!CloseRows(c)
  PROVE  SqlInv'
<1> USE DEF SqlInv, SqlTypes, Sql!At, Sql!Use,
            Sql!Query, Sql!QueryFails, Sql!Describe, Sql!DescribeFails, Sql!CloseRows
<1>1. /\ sqlPc[c] \notin {"out", "storing"} /\ sqlPc'[c] # "storing"
      /\ \A d \in Callers \ {c} : sqlPc'[d] = sqlPc[d] /\ mine'[d] = mine[d]
      /\ sqlPc'[c] # "out" => mine'[c] = mine[c]
      /\ stmts' = stmts /\ open' = open /\ text' = text
  OBVIOUS
<1>2. SqlTypes' /\ Cached'
  BY DEF Cached
<1>3. Prepared' /\ Running'
  BY <1>1, <1>2 DEF Prepared, Running
<1>4. OnTheWay' = OnTheWay
  BY <1>1 DEF OnTheWay
<1>5. Sql!StatementsAccounted'
  BY <1>1, <1>4 DEF Sql!StatementsAccounted, OnTheWay
<1>6. Sql!RowsHaveReader'
  BY DEF Sql!RowsHaveReader
<1> QED
  BY <1>2, <1>3, <1>5, <1>6

LEMMA SqlCloseStatements ==
  ASSUME SqlInv, Sql!CloseStatements PROVE SqlInv'
<1> USE DEF SqlInv, SqlTypes
<1>1. /\ \A c \in Callers : sqlPc[c] = "out"
      /\ open' = open \ {stmts[t] : t \in Texts} /\ stmts' = [t \in Texts |-> Sql!Nothing]
      /\ sqlPc' = sqlPc /\ text' = text /\ mine' = mine /\ rows' = rows
  BY DEF Sql!CloseStatements, Sql!Quiet
<1>2. OnTheWay = {} /\ OnTheWay' = {}
  BY <1>1 DEF OnTheWay
<1>3. open' = {} /\ Stored' = {}
  BY <1>1, <1>2 DEF Sql!StatementsAccounted, OnTheWay, Stored
<1>4. Sql!StatementsAccounted'
  BY <1>2, <1>3 DEF Sql!StatementsAccounted, OnTheWay, Stored
<1>5. Sql!RowsHaveReader'
  BY <1>1 DEF Sql!RowsHaveReader
<1> QED
  BY <1>1, <1>4, <1>5 DEF Cached, Prepared, Running

LEMMA SqlStutters ==
  ASSUME SqlInv, UNCHANGED <<stmts, open, sqlPc, text, mine, rows>> PROVE SqlInv'
  BY DEF SqlInv, SqlTypes, Cached, Prepared, Running, Sql!StatementsAccounted, Sql!RowsHaveReader

LEMMA SqlAlways == EdgesSpec => []SqlInv
<1>1. SqlInv /\ [Sql!Next]_(Sql!vars) => SqlInv'
  <2> SUFFICES ASSUME SqlInv, [Sql!Next]_(Sql!vars) PROVE SqlInv'
    OBVIOUS
  <2>1. CASE Sql!Cleanup \/ UNCHANGED Sql!vars
    BY <2>1, SqlStutters DEF Sql!Cleanup, Sql!vars
  <2> QED
    BY <2>1, SqlLookHit, SqlLookMiss, SqlStoreFirst, SqlStoreSecond, SqlQuery, SqlCloseStatements
    DEF Sql!Next
<1>2. SqlInv /\ [EdgesNext]_EdgesVars => SqlInv'
  BY <1>1, AdapterSteps
<1> QED
  BY SqlInvInit, <1>2, PTL DEF EdgesSpec, EdgesInit, FilesInit, AdaptersInit, Steps

\* No caller runs, or reads rows of, a statement that another one has closed.
LEMMA SqlKeepsOpen == SqlInv => Sql!NoneClosedInUse
<1> SUFFICES ASSUME SqlInv, NEW c \in Callers, sqlPc[c] = "running" \/ c \in rows
             PROVE  mine[c] \in open
  BY DEF Sql!NoneClosedInUse
<1>1. sqlPc[c] \in {"running", "describing", "reading"}
  BY DEF SqlInv, Sql!RowsHaveReader
<1> QED
  BY <1>1 DEF SqlInv, Running, Sql!StatementsAccounted

-----------------------------------------------------------------------------
(* ladybug.                                                                  *)

\* The call under way holds the mutex; a text it compiles is not in the cache yet; an Exec
\* under way has set the timeout, and a call that was not made has no watcher.
AtWork(k) == lbPc[k] \in {"compiling", "querying"}
LbInv ==
  /\ Lb!TypeOK /\ Lb!StatementsAreCached
  /\ \A k \in Calls : AtWork(k) => holder = k
  /\ \A k \in Calls : AtWork(k) /\ watcher[k] # "none" => limit = k
  /\ \A k \in Calls : lbPc[k] = "compiling" => lbText[k] \in LbTexts \ cache
  /\ \A k \in Calls : lbPc[k] = "out" => watcher[k] = "none"

LEMMA LbInvInit == Lb!Init => LbInv
  BY DEF Lb!Init, LbInv, Lb!TypeOK, Lb!StatementsAreCached, AtWork

LEMMA LbStarts ==
  ASSUME LbInv, NEW k \in Calls, Lb!Exec(k) \/ Lb!Refuse(k) \/ Lb!Statement(k)
  PROVE  LbInv'
<1>1. holder = "free" /\ \A j \in Calls : ~AtWork(j)
  BY EdgesAssumption DEF EdgesAssumption, Lb!Exec, Lb!Refuse, Lb!Statement, LbInv, Lb!Free
<1>2. CASE Lb!Exec(k)
  <2>1. PICK t \in LbTexts \cup {Lb!Direct} :
          /\ lbText' = [lbText EXCEPT ![k] = t]
          /\ lbPc' = [lbPc EXCEPT ![k] = IF t \in LbTexts \ cache THEN "compiling" ELSE "querying"]
    BY <1>2 DEF Lb!Exec
  <2>2. /\ watcher' = [watcher EXCEPT ![k] = "waiting"] /\ holder' = k /\ limit' = k
        /\ UNCHANGED <<live, stopped, over, cache, lbStmts, cutBy>>
    BY <1>2 DEF Lb!Exec, Lb!ApplyDeadline
  <2>3. Lb!TypeOK'
    BY <2>1, <2>2 DEF LbInv, Lb!TypeOK
  <2> QED
    BY <1>1, <2>1, <2>2, <2>3 DEF LbInv, Lb!TypeOK, Lb!StatementsAreCached, AtWork
<1>3. CASE Lb!Refuse(k)
  BY <1>1, <1>3 DEF Lb!Refuse, Lb!conn, LbInv, Lb!TypeOK, Lb!StatementsAreCached, AtWork
<1>4. CASE Lb!Statement(k)
  BY <1>1, <1>4 DEF Lb!Statement, Lb!conn, LbInv, Lb!TypeOK, Lb!StatementsAreCached, AtWork
<1> QED
  BY <1>2, <1>3, <1>4

LEMMA LbWorks ==
  ASSUME LbInv, NEW k \in Calls, Lb!CompileOk(k) \/ Lb!CompileFails(k) \/ Lb!Return(k)
  PROVE  LbInv'
<1>1. holder = k /\ \A j \in Calls \ {k} : ~AtWork(j)
  BY DEF Lb!CompileOk, Lb!CompileFails, Lb!Return, LbInv, AtWork
<1>2. CASE Lb!CompileOk(k)
  <2>1. lbText[k] \in LbTexts \ cache
    BY <1>2 DEF Lb!CompileOk, LbInv
  <2>2. /\ cache' = cache \cup {lbText[k]} /\ lbStmts' = lbStmts \cup {<<lbText[k], k>>}
        /\ lbPc[k] = "compiling" /\ lbPc' = [lbPc EXCEPT ![k] = "querying"]
        /\ UNCHANGED <<holder, live, lbText, watcher, stopped, over, limit, cutBy>>
    BY <1>2 DEF Lb!CompileOk
  <2>3. Lb!TypeOK'
    BY <2>1, <2>2 DEF LbInv, Lb!TypeOK
  <2>4. \A s \in lbStmts : s[1] # lbText[k]
    BY <2>1 DEF LbInv, Lb!StatementsAreCached
  <2>5. Lb!StatementsAreCached'
    <3> DEFINE new == <<lbText[k], k>>
    <3>1. new[1] = lbText[k] /\ new \in lbStmts' /\ lbText[k] \in cache' /\ cache \subseteq cache'
      BY <2>2
    <3>2. \A s \in lbStmts' : s = new \/ s \in lbStmts
      BY <2>2
    <3>3. \A t \in cache' : t = lbText[k] \/ t \in cache
      BY <2>2
    <3>4. lbStmts \subseteq lbStmts'
      BY <2>2
    <3> HIDE DEF new
    <3> QED
      BY <2>4, <3>1, <3>2, <3>3, <3>4 DEF LbInv, Lb!StatementsAreCached
  <2> QED
    BY <1>1, <2>2, <2>3, <2>5 DEF LbInv, Lb!TypeOK, AtWork
<1>3. CASE Lb!CompileFails(k)
  BY <1>1, <1>3 DEF Lb!CompileFails, Lb!Leave, LbInv, Lb!TypeOK, Lb!StatementsAreCached, AtWork, Lb!Free
<1>4. CASE Lb!Return(k)
  BY <1>1, <1>4
  DEF Lb!Return, Lb!conn, Lb!Leave, LbInv, Lb!TypeOK, Lb!StatementsAreCached, AtWork, Lb!Free
<1> QED
  BY <1>2, <1>3, <1>4

LEMMA LbWatches ==
  ASSUME LbInv, NEW k \in Calls, Lb!ContextEnds(k) \/ Lb!Watch(k)
  PROVE  LbInv'
<1>1. /\ UNCHANGED <<holder, live, lbPc, lbText, stopped, limit, cache, lbStmts>>
      /\ watcher[k] # "none" /\ over' \subseteq Calls
      /\ \/ watcher' = watcher
         \/ \E to \in {"firing", "gone"} : watcher' = [watcher EXCEPT ![k] = to]
  BY DEF Lb!ContextEnds, Lb!Watch, Lb!Wake, Lb!StandDown, Lb!Interrupt, Lb!conn, LbInv, Lb!TypeOK
<1>2. cutBy' \in [Calls -> SUBSET Calls]
  BY DEF Lb!ContextEnds, Lb!Watch, Lb!Wake, Lb!StandDown, Lb!Interrupt, LbInv, Lb!TypeOK
<1>3. Lb!TypeOK'
  BY <1>1, <1>2 DEF LbInv, Lb!TypeOK
<1> QED
  BY <1>1, <1>3 DEF LbInv, Lb!TypeOK, Lb!StatementsAreCached, AtWork

LEMMA LbAlways == EdgesSpec => []LbInv
<1>1. LbInv /\ [Lb!Next]_(Lb!vars) => LbInv'
  <2> SUFFICES ASSUME LbInv, [Lb!Next]_(Lb!vars) PROVE LbInv'
    OBVIOUS
  <2>1. CASE Lb!Close
    <3>1. \A k \in Calls : ~AtWork(k)
      BY <2>1, EdgesAssumption DEF EdgesAssumption, Lb!Close, LbInv, Lb!Free
    <3> QED
      BY <2>1, <3>1 DEF Lb!Close, LbInv, Lb!TypeOK, Lb!StatementsAreCached, AtWork
  <2>2. CASE UNCHANGED Lb!vars
    BY <2>2 DEF Lb!vars, LbInv, Lb!TypeOK, Lb!StatementsAreCached, AtWork
  <2> QED
    BY <2>1, <2>2, LbStarts, LbWorks, LbWatches DEF Lb!Next, Lb!Goroutine
<1>2. LbInv /\ [EdgesNext]_EdgesVars => LbInv'
  BY <1>1, AdapterSteps
<1> QED
  BY LbInvInit, <1>2, PTL DEF EdgesSpec, EdgesInit, FilesInit, AdaptersInit, Steps

\* Every way out of every adapter closes what it opened: no Bolt session or transaction outlives
\* its operation, no rows their reader; no SQL statement is lost, or closed under a caller that
\* runs it; the compiled statements of ladybug are all in the cache Close walks; a closed zu
\* session has freed every connection.
THEOREM NothingStaysOpen == EdgesSpec => []NothingLeftOpen
<1>1. PoolInv /\ [EdgesNext]_EdgesVars => PoolInv'
  BY StepKeeps, AdapterSteps
<1>2. EdgesSpec => []PoolInv
  BY PoolInit, <1>1, PTL DEF EdgesSpec, EdgesInit, FilesInit, AdaptersInit, Steps
<1>3. BoltInv /\ SqlInv /\ LbInv /\ PoolInv => NothingLeftOpen
  BY SqlKeepsOpen DEF BoltInv, SqlInv, LbInv, PoolInv, NothingLeftOpen
<1> QED
  BY <1>2, <1>3, BoltAlways, SqlAlways, LbAlways, PTL

-----------------------------------------------------------------------------
(* COPY.                                                                     *)

\* What the producer reported decides how much it sent, and it closes the channel after it has
\* reported; a COPY that completed found the channel closed and took all there was.
CopyInv ==
  /\ sent \in 0..NumRows /\ taken \in 0..sent
  /\ producer \in {"reading", "sending", "reporting", "gone"}
  /\ produced \in {"empty", "nil", "error"}
  /\ producer \in {"reading", "sending"} => produced = "empty"
  /\ producer = "sending" => sent < NumRows
  /\ more <=> producer # "gone"
  /\ produced = "nil" => sent = NumRows
  /\ copy = "judging" => producer = "gone" /\ table = sent
  /\ Copy!SuccessIsWhole

LEMMA CopyInvInit == Copy!Init => CopyInv
  BY EdgesAssumption DEF EdgesAssumption, Copy!Init, CopyInv, Copy!SuccessIsWhole

LEMMA CopyProduces ==
  ASSUME CopyInv, Copy!Produce
  PROVE  CopyInv'
<1> USE EdgesAssumption DEF EdgesAssumption, CopyInv, Copy!SuccessIsWhole
<1>1. CASE Copy!ReadRow \/ Copy!SendRow
  BY <1>1 DEF Copy!ReadRow, Copy!SendRow, Copy!Turn
<1>2. CASE Copy!EndOfFile \/ Copy!BadRow \/ Copy!NoticeCancel
  BY <1>2 DEF Copy!EndOfFile, Copy!BadRow, Copy!NoticeCancel, Copy!Report
<1>3. CASE Copy!CloseRows
  BY <1>3 DEF Copy!CloseRows
<1> QED
  BY <1>1, <1>2, <1>3 DEF Copy!Produce

LEMMA CopyConsumes ==
  ASSUME CopyInv, Copy!Consume \/ Copy!ParentEnds
  PROVE  CopyInv'
<1> USE EdgesAssumption DEF EdgesAssumption, CopyInv, Copy!SuccessIsWhole, Copy!channel
<1>1. CASE Copy!Connect \/ Copy!NoConnection \/ Copy!CopyFails \/ Copy!ParentEnds
  BY <1>1 DEF Copy!Connect, Copy!NoConnection, Copy!CopyFails, Copy!ParentEnds
<1>2. CASE Copy!TakeRow
  BY <1>2 DEF Copy!TakeRow
<1>3. CASE Copy!CopyEnds
  BY <1>3 DEF Copy!CopyEnds
<1>4. CASE Copy!ProducerIn
  BY <1>4 DEF Copy!ProducerIn
<1>5. CASE Copy!Judge
  BY <1>5 DEF Copy!Judge
<1> QED
  BY <1>1, <1>2, <1>3, <1>4, <1>5 DEF Copy!Consume

LEMMA CopyAlways == EdgesSpec => []CopyInv
<1>1. CopyInv /\ [Copy!Next]_(Copy!vars) => CopyInv'
  <2>1. CASE UNCHANGED Copy!vars
    BY <2>1 DEF Copy!vars, CopyInv, Copy!SuccessIsWhole
  <2> QED
    BY <2>1, CopyProduces, CopyConsumes DEF Copy!Next
<1>2. CopyInv /\ [EdgesNext]_EdgesVars => CopyInv'
  BY <1>1, AdapterSteps
<1> QED
  BY CopyInvInit, <1>2, PTL DEF EdgesSpec, EdgesInit, FilesInit, AdaptersInit, Steps

-----------------------------------------------------------------------------
(* Load.                                                                     *)

\* A load that is past its clearing has of its dataset what it counts, the nodes before the
\* edges, and nothing else; a store with no tables is empty.
LoadTypes ==
  /\ blStep \in {"out", "clear", "nodes", "edges"}
  /\ count \in [nodes : Nat, edges : Nat]
  /\ blStep # "out" => ds \in Datasets /\ blLast = "loading"
  /\ blLast \in {"ok", "imported"} => blStep = "out"
Empty == nodes = {} /\ edges = {} /\ ~foreign
StoreInv ==
  /\ engine \in Bulk!Embedded /\ ~made => Empty
  /\ blStep \in {"nodes", "edges"} => made /\ ~foreign
  /\ blLast = "ok" => made
  /\ blLast = "imported" => engine \notin Bulk!Embedded
NodesInv ==
  blStep = "nodes" =>
    nodes \subseteq ds.nodes /\ edges = {} /\ count = [nodes |-> Cardinality(nodes), edges |-> 0]
EdgesInv ==
  blStep = "edges" =>
    /\ nodes = ds.nodes /\ edges \subseteq ds.edges
    /\ count = [nodes |-> Cardinality(nodes), edges |-> Cardinality(edges)]
Starts == blStep = "clear" => count = [nodes |-> 0, edges |-> 0]
LoadInv ==
  /\ LoadTypes /\ StoreInv /\ NodesInv /\ EdgesInv /\ Starts
  /\ Bulk!LoadedIsDataset /\ Bulk!ClaimedIsStored /\ Bulk!EndpointsIndexed


\* The standard module's operators are the same through an INSTANCE.
LEMMA SameCardinality == \A S : Bulk!Cardinality(S) = Cardinality(S)
  BY DEF Bulk!Cardinality, Cardinality

LEMMA LoadInvInit == Bulk!Init => LoadInv
  BY DEF Bulk!Init, LoadInv, LoadTypes, StoreInv, NodesInv, EdgesInv, Starts, Empty,
         Bulk!LoadedIsDataset, Bulk!ClaimedIsStored, Bulk!EndpointsIndexed

\* A part of a set, and some of the rest.
Apart(S, A, b) == A \subseteq S /\ b \subseteq S \ A

\* What is added to a part of a finite set is counted.
LEMMA Counts ==
  ASSUME NEW S, NEW A, NEW b, IsFiniteSet(S), Apart(S, A, b)
  PROVE  /\ Cardinality(A) \in Nat /\ Cardinality(b) \in Nat
         /\ Cardinality(A \cup b) = Cardinality(A) + Cardinality(b)
<1>0. A \in SUBSET S /\ b \in SUBSET S /\ A \cap b = {}
  BY DEF Apart
<1>1. IsFiniteSet(A) /\ IsFiniteSet(b)
  BY <1>0, FS_Subset
<1>2. Cardinality(A) \in Nat /\ Cardinality(b) \in Nat
  BY <1>1, FS_CardinalityType
<1>3. Cardinality(A \cap b) = 0
  BY <1>0, FS_EmptySet
<1>4. Cardinality(A \cup b) = Cardinality(A) + Cardinality(b) - Cardinality(A \cap b)
  BY <1>1, FS_Union
<1> QED
  BY <1>2, <1>3, <1>4

\* A batch is some of what is left.
LEMMA BatchIsLeft == \A left : \A b \in Bulk!Batch(left) : b \subseteq left
  BY DEF Bulk!Batch

LEMMA LoadOpens ==
  ASSUME LoadInv, Bulk!Begin \/ Bulk!Clear \/ Bulk!Create \/ Bulk!Stop \/ Bulk!Write
  PROVE  LoadInv'
<1> USE DEF LoadInv, LoadTypes, StoreInv, NodesInv, EdgesInv, Starts, Empty, Bulk!Go, Bulk!store,
            Bulk!LoadedIsDataset, Bulk!ClaimedIsStored, Bulk!EndpointsIndexed
<1>0. Cardinality({}) = 0
  BY FS_EmptySet
<1>1. CASE Bulk!Begin
  BY <1>1 DEF Bulk!Begin
<1>2. CASE Bulk!Clear
  BY <1>0, <1>2, SameCardinality DEF Bulk!Clear
<1>3. CASE Bulk!Create
  BY <1>0, <1>3, SameCardinality DEF Bulk!Create
<1>4. CASE Bulk!Stop
  BY <1>4 DEF Bulk!Stop
<1>5. CASE Bulk!Write
  BY <1>5 DEF Bulk!Write
<1> QED
  BY <1>1, <1>2, <1>3, <1>4, <1>5

LEMMA LoadNodesKeeps ==
  ASSUME LoadInv, Bulk!LoadNodes
  PROVE  LoadInv'
<1>1. PICK b \in Bulk!Batch(ds.nodes \ nodes) :
        nodes' = nodes \cup b /\ count' = [count EXCEPT !.nodes = @ + Cardinality(b)]
  BY SameCardinality DEF Bulk!LoadNodes
<1>2. /\ blStep = "nodes" /\ UNCHANGED <<engine, ds, edges, foreign, made, indexed, blStep, blLast>>
      /\ ds \in Datasets /\ blLast = "loading" /\ nodes \subseteq ds.nodes /\ edges = {}
      /\ count = [nodes |-> Cardinality(nodes), edges |-> 0] /\ made
  BY DEF Bulk!LoadNodes, LoadInv, LoadTypes, NodesInv, StoreInv
<1>3. /\ nodes' \subseteq ds.nodes /\ Cardinality(nodes') = Cardinality(nodes) + Cardinality(b)
      /\ Cardinality(nodes) \in Nat /\ Cardinality(b) \in Nat
  <2>1. IsFiniteSet(ds.nodes) /\ Apart(ds.nodes, nodes, b)
    BY <1>2, BatchIsLeft, EdgesAssumption DEF EdgesAssumption, Apart
  <2>2. /\ Cardinality(nodes) \in Nat /\ Cardinality(b) \in Nat
        /\ Cardinality(nodes \cup b) = Cardinality(nodes) + Cardinality(b)
    BY <2>1, Counts
  <2>3. nodes' = nodes \cup b /\ nodes \cup b \subseteq ds.nodes
    BY <1>1, <2>1 DEF Apart
  <2> QED
    BY <2>2, <2>3
<1>4. count' = [nodes |-> Cardinality(nodes'), edges |-> 0] /\ count' \in [nodes : Nat, edges : Nat]
  <2>1. count' = [nodes |-> Cardinality(nodes) + Cardinality(b), edges |-> 0]
    BY <1>1, <1>2
  <2> QED
    BY <1>3, <2>1
<1> QED
  BY <1>2, <1>3, <1>4 DEF LoadInv, LoadTypes, StoreInv, NodesInv, EdgesInv, Starts, Empty,
     Bulk!LoadedIsDataset, Bulk!ClaimedIsStored, Bulk!EndpointsIndexed

LEMMA LoadEdgesKeeps ==
  ASSUME LoadInv, Bulk!LoadEdges
  PROVE  LoadInv'
<1>1. PICK b \in Bulk!Batch(ds.edges \ edges) :
        edges' = edges \cup Bulk!Made(b) /\ count' = [count EXCEPT !.edges = @ + Cardinality(b)]
  BY SameCardinality DEF Bulk!LoadEdges
<1>2. /\ blStep = "edges" /\ UNCHANGED <<engine, ds, nodes, foreign, made, indexed, blStep, blLast>>
      /\ ds \in Datasets /\ blLast = "loading" /\ nodes = ds.nodes /\ edges \subseteq ds.edges
      /\ count = [nodes |-> Cardinality(nodes), edges |-> Cardinality(edges)] /\ made
      /\ count \in [nodes : Nat, edges : Nat]
  BY DEF Bulk!LoadEdges, LoadInv, LoadTypes, EdgesInv, StoreInv
<1>3. ds.edges \subseteq ds.nodes \X ds.nodes /\ IsFiniteSet(ds.edges)
  BY <1>2, EdgesAssumption DEF EdgesAssumption
<1>4. b \subseteq ds.edges \ edges
  BY BatchIsLeft
<1>5. \A e \in b : {e[1], e[2]} \subseteq nodes
  BY <1>2, <1>3, <1>4
<1>6. Bulk!Made(b) = b
  BY <1>5 DEF Bulk!Made
<1>7. /\ edges' \subseteq ds.edges /\ Cardinality(edges') = Cardinality(edges) + Cardinality(b)
      /\ Cardinality(edges) \in Nat /\ Cardinality(b) \in Nat
  <2>1. IsFiniteSet(ds.edges) /\ Apart(ds.edges, edges, b)
    BY <1>2, <1>3, <1>4 DEF Apart
  <2>2. /\ Cardinality(edges) \in Nat /\ Cardinality(b) \in Nat
        /\ Cardinality(edges \cup b) = Cardinality(edges) + Cardinality(b)
    BY <2>1, Counts
  <2>3. edges' = edges \cup b /\ edges \cup b \subseteq ds.edges
    BY <1>1, <1>6, <2>1 DEF Apart
  <2> QED
    BY <2>2, <2>3
<1>8. /\ count' = [nodes |-> Cardinality(nodes'), edges |-> Cardinality(edges')]
      /\ count' \in [nodes : Nat, edges : Nat]
  <2>1. Cardinality(nodes) \in Nat /\ Cardinality(nodes') = Cardinality(nodes)
    BY <1>2
  <2>2. count' = [nodes |-> Cardinality(nodes), edges |-> Cardinality(edges) + Cardinality(b)]
    BY <1>1, <1>2
  <2> QED
    BY <1>7, <2>1, <2>2
<1> QED
  BY <1>2, <1>7, <1>8 DEF LoadInv, LoadTypes, StoreInv, NodesInv, EdgesInv, Starts, Empty,
     Bulk!LoadedIsDataset, Bulk!ClaimedIsStored, Bulk!EndpointsIndexed

LEMMA LoadPhases ==
  ASSUME LoadInv, Bulk!NodesDone \/ Bulk!EdgesDone \/ Bulk!AdminImport
  PROVE  LoadInv'
<1> USE DEF LoadInv, LoadTypes, StoreInv, NodesInv, EdgesInv, Starts, Empty, Bulk!Go,
            Bulk!LoadedIsDataset, Bulk!ClaimedIsStored, Bulk!EndpointsIndexed
<1>0. ds \in Datasets /\ IsFiniteSet(ds.nodes) /\ IsFiniteSet(ds.edges)
  BY EdgesAssumption DEF EdgesAssumption, Bulk!NodesDone, Bulk!EdgesDone, Bulk!AdminImport
<1>1. CASE Bulk!NodesDone
  <2>1. Cardinality({}) = 0
    BY FS_EmptySet
  <2> QED
    BY <1>1, <2>1 DEF Bulk!NodesDone
<1>2. CASE Bulk!EdgesDone
  <2>1. edges \in SUBSET ds.edges /\ Cardinality(ds.edges) = Cardinality(edges)
    BY <1>2, SameCardinality DEF Bulk!EdgesDone
  <2>2. edges = ds.edges
    BY <1>0, <2>1, FS_Subset, SameCardinality
  <2> QED
    BY <1>2, <2>2, SameCardinality DEF Bulk!EdgesDone
<1>3. CASE Bulk!AdminImport
  <2>1. Cardinality(ds.nodes) \in Nat /\ Cardinality(ds.edges) \in Nat
    BY <1>0, FS_CardinalityType
  <2>2. engine \notin Bulk!Embedded
    BY <1>3 DEF Bulk!AdminImport, Bulk!Embedded
  <2> QED
    BY <1>3, <2>1, <2>2, SameCardinality DEF Bulk!AdminImport
<1> QED
  BY <1>1, <1>2, <1>3

LEMMA LoadAlways == EdgesSpec => []LoadInv
<1>1. LoadInv /\ [Bulk!Next]_(Bulk!vars) => LoadInv'
  <2> SUFFICES ASSUME LoadInv, [Bulk!Next]_(Bulk!vars) PROVE LoadInv'
    OBVIOUS
  <2>1. CASE UNCHANGED Bulk!vars
    BY <2>1 DEF Bulk!vars, LoadInv, LoadTypes, StoreInv, NodesInv, EdgesInv, Starts, Empty,
                Bulk!LoadedIsDataset, Bulk!ClaimedIsStored, Bulk!EndpointsIndexed
  <2> QED
    BY <2>1, LoadOpens, LoadNodesKeeps, LoadEdgesKeeps, LoadPhases DEF Bulk!Next
<1>2. LoadInv /\ [EdgesNext]_EdgesVars => LoadInv'
  BY <1>1, AdapterSteps
<1> QED
  BY LoadInvInit, <1>2, PTL DEF EdgesSpec, EdgesInit, FilesInit, AdaptersInit, Steps

-----------------------------------------------------------------------------
(* zu2.                                                                      *)

Items(q) == {q[i] : i \in 1..Len(q)}
Distinct(q) == \A i, j \in 1..Len(q) : i # j => q[i] # q[j]

\* What giving back does to a list without repetition.
LEMMA Appends ==
  ASSUME NEW S, NEW q \in Seq(S), Distinct(q), NEW k \in S, k \notin Items(q)
  PROVE  Append(q, k) \in Seq(S) /\ Items(Append(q, k)) = Items(q) \cup {k} /\ Distinct(Append(q, k))
<1> DEFINE r == Append(q, k)
<1>1. /\ r \in Seq(S) /\ Len(q) \in Nat /\ Len(r) = Len(q) + 1
      /\ r[Len(q) + 1] = k /\ \A i \in 1..Len(q) : r[i] = q[i]
  OBVIOUS
<1> HIDE DEF r
<1>2. \A i \in 1..Len(r) : i \in 1..Len(q) \/ i = Len(q) + 1
  BY <1>1
<1>3. Items(r) = Items(q) \cup {k}
  BY <1>1, <1>2 DEF Items
<1>4. Distinct(r)
  BY <1>1, <1>2 DEF Distinct, Items
<1> QED
  BY <1>1, <1>3, <1>4 DEF r

\* What taking from its end does.
LEMMA Pops ==
  ASSUME NEW S, NEW q \in Seq(S), Distinct(q), q # <<>>
  PROVE  /\ q[Len(q)] \in Items(q) /\ SubSeq(q, 1, Len(q) - 1) \in Seq(S)
         /\ Items(SubSeq(q, 1, Len(q) - 1)) = Items(q) \ {q[Len(q)]}
         /\ Distinct(SubSeq(q, 1, Len(q) - 1))
<1> DEFINE r == SubSeq(q, 1, Len(q) - 1)
<1>1. Len(q) \in Nat \ {0} /\ Len(q) - 1 \in Nat
  BY EmptySeq
<1>2. \A i \in 1..Len(q) - 1 : q[i] \in S
  BY <1>1, ElementOfSeq
<1>3. Len(r) = Len(q) - 1
  BY <1>1, <1>2, PrefixLen
<1>4. r \in Seq(S) /\ \A i \in 1..Len(q) - 1 : r[i] = q[i]
  BY <1>1
<1> HIDE DEF r
<1>5. Items(r) = Items(q) \ {q[Len(q)]}
  BY <1>1, <1>3, <1>4 DEF Items, Distinct
<1>6. Distinct(r)
  BY <1>1, <1>3, <1>4 DEF Distinct
<1>7. q[Len(q)] \in Items(q)
  BY <1>1 DEF Items
<1> QED
  BY <1>4, <1>5, <1>6, <1>7 DEF r

\* A session is in one place: once in the list of the idle, or in one hand. Load has one in its
\* hand from its start to its end, and then nobody else has.
Z2Types ==
  /\ z2Db \in {"unopened", "sized", "default", "closed"}
  /\ z2Opened \in Nat /\ z2All \subseteq 1..z2Opened
  /\ z2Idle \in Seq(1..z2Opened) /\ z2Hand \in [Zu2!Holders -> 0..z2Opened]
  /\ async \subseteq z2All
  /\ z2Rows \in {"none", "memory", "device"} /\ err \in BOOLEAN /\ failed \in BOOLEAN
  /\ step \in {"out", "relax", "append", "sync", "restore", "give"}
  /\ z2Loads \in 0..MaxLoads + 1 /\ last \in {"none", "ok", "error"}
OnePlace ==
  /\ Distinct(z2Idle) /\ Items(z2Idle) \subseteq z2All
  /\ \A h \in Zu2!Holders : z2Hand[h] # 0 => z2Hand[h] \in z2All \ Items(z2Idle)
  /\ \A h, g \in Zu2!Holders : h # g /\ z2Hand[h] # 0 => z2Hand[h] # z2Hand[g]
LoadAlone ==
  /\ step = "out" <=> z2Hand["loader"] = 0
  /\ step # "out" => z2Db # "closed" /\ \A c \in Callers : z2Hand[c] = 0
  /\ z2Db = "closed" => \A c \in Callers : z2Hand[c] = 0
Z2Pool == Z2Types /\ OnePlace /\ LoadAlone

\* h takes k, which nobody holds.
Z2Takes(h, k) ==
  /\ z2Hand' = [z2Hand EXCEPT ![h] = k] /\ k \in 1..z2Opened'
  /\ \A g \in Zu2!Holders : z2Hand[g] # k
  /\ z2Opened' \in Nat /\ z2Opened <= z2Opened' /\ z2All' = z2All \cup {k}
  /\ z2Idle' \in Seq(1..z2Opened') /\ Distinct(z2Idle') /\ Items(z2Idle') = Items(z2Idle) \ {k}

LEMMA Z2TakeTakes ==
  ASSUME Z2Pool, NEW h \in Zu2!Holders, Zu2!Take(h)
  PROVE  \E k : Z2Takes(h, k)
<1> USE DEF Z2Pool, Z2Types, OnePlace
<1>1. CASE Zu2!PopIdle(h)
  <2> DEFINE k == z2Idle[Len(z2Idle)]
  <2>1. /\ z2Idle # <<>> /\ z2Hand' = [z2Hand EXCEPT ![h] = k]
        /\ z2Idle' = SubSeq(z2Idle, 1, Len(z2Idle) - 1) /\ z2All' = z2All /\ z2Opened' = z2Opened
    BY <1>1 DEF Zu2!PopIdle
  <2>2. /\ k \in Items(z2Idle) /\ z2Idle' \in Seq(1..z2Opened) /\ Distinct(z2Idle')
        /\ Items(z2Idle') = Items(z2Idle) \ {k}
    BY <2>1, Pops
  <2> HIDE DEF k
  <2>3. k \in z2All /\ k \in 1..z2Opened
    BY <2>2
  <2>4. \A g \in Zu2!Holders : z2Hand[g] # k
    BY <2>2, <2>3
  <2>5. Z2Takes(h, k)
    <3>1. z2All' = z2All \cup {k} /\ k \in 1..z2Opened' /\ z2Opened' \in Nat /\ z2Opened <= z2Opened'
      BY <2>1, <2>3
    <3> QED
      BY <2>1, <2>2, <2>4, <3>1, Zenon DEF Z2Takes
  <2> QED
    BY <2>5
<1>2. CASE Zu2!OpenSession(h)
  <2> DEFINE k == z2Opened + 1
  <2>1. /\ z2Idle = <<>> /\ z2Idle' = z2Idle /\ z2Opened' = k /\ z2All' = z2All \cup {k}
        /\ z2Hand' = [z2Hand EXCEPT ![h] = k]
    BY <1>2 DEF Zu2!OpenSession
  <2>2. z2Idle' \in Seq(1..k) /\ Len(z2Idle') = 0 /\ Len(z2Idle) = 0
    BY <2>1, EmptyList
  <2>3. Items(z2Idle') = {} /\ Items(z2Idle) = {} /\ Distinct(z2Idle')
    BY <2>2 DEF Items, Distinct
  <2>4. \A g \in Zu2!Holders : z2Hand[g] # k
    OBVIOUS
  <2>5. k \in Nat /\ k \in 1..k /\ z2Opened <= k
    OBVIOUS
  <2>6. Z2Takes(h, k)
    <3> HIDE DEF k
    <3>1. Items(z2Idle') = Items(z2Idle) \ {k}
      BY <2>3
    <3> QED
      BY <2>1, <2>2, <2>3, <2>4, <2>5, <3>1, Zenon DEF Z2Takes
  <2> QED
    BY <2>6
<1> QED
  BY <1>1, <1>2 DEF Zu2!Take

LEMMA Z2TakeKeeps ==
  ASSUME Z2Pool, NEW h \in Zu2!Holders, NEW k, Z2Takes(h, k), z2Hand[h] = 0
  PROVE  /\ OnePlace' /\ z2All' \subseteq 1..z2Opened' /\ z2All \subseteq z2All'
         /\ z2Opened' \in Nat /\ z2Idle' \in Seq(1..z2Opened')
         /\ z2Hand' \in [Zu2!Holders -> 0..z2Opened'] /\ z2Hand'[h] = k /\ k # 0
         /\ \A g \in Zu2!Holders \ {h} : z2Hand'[g] = z2Hand[g]
<1> USE DEF Z2Pool, Z2Types, OnePlace
<1>1. /\ z2Hand'[h] = k /\ k # 0 /\ \A g \in Zu2!Holders \ {h} : z2Hand'[g] = z2Hand[g]
      /\ z2All' \subseteq 1..z2Opened' /\ z2All \subseteq z2All' /\ k \in z2All'
      /\ z2Hand' \in [Zu2!Holders -> 0..z2Opened']
  BY DEF Z2Takes
<1>2. OnePlace'
  <2>1. Distinct(z2Idle)' /\ Items(z2Idle)' \subseteq z2All' /\ k \notin Items(z2Idle)'
    BY DEF Z2Takes
  <2>2. \A g \in Zu2!Holders : z2Hand'[g] # 0 => z2Hand'[g] \in z2All' \ Items(z2Idle)'
    BY <1>1, <2>1 DEF Z2Takes
  <2>3. \A f, g \in Zu2!Holders : f # g /\ z2Hand'[f] # 0 => z2Hand'[f] # z2Hand'[g]
    BY <1>1 DEF Z2Takes
  <2> QED
    BY <2>1, <2>2, <2>3
<1> QED
  BY <1>1, <1>2 DEF Z2Takes

LEMMA Z2GiveKeeps ==
  ASSUME Z2Pool, NEW h \in Zu2!Holders, Zu2!GiveBack(h), z2Hand[h] # 0, z2Db # "closed",
         z2All' = z2All, z2Opened' = z2Opened
  PROVE  /\ OnePlace' /\ z2Idle' \in Seq(1..z2Opened) /\ z2Hand' = [z2Hand EXCEPT ![h] = 0]
         /\ z2Hand' \in [Zu2!Holders -> 0..z2Opened]
<1> USE DEF Z2Pool, Z2Types, OnePlace
<1>1. z2Idle' = Append(z2Idle, z2Hand[h]) /\ z2Hand' = [z2Hand EXCEPT ![h] = 0]
  BY DEF Zu2!GiveBack, Zu2!NoConn
<1>2. z2Hand[h] \in z2All \ Items(z2Idle) /\ z2Hand[h] \in 1..z2Opened
  OBVIOUS
<1>3. /\ z2Idle' \in Seq(1..z2Opened) /\ Distinct(z2Idle')
      /\ Items(z2Idle') = Items(z2Idle) \cup {z2Hand[h]}
  BY <1>1, <1>2, Appends
<1>4. z2Hand' \in [Zu2!Holders -> 0..z2Opened] /\ z2Hand'[h] = 0
      /\ \A g \in Zu2!Holders \ {h} : z2Hand'[g] = z2Hand[g]
  BY <1>1
<1>5. OnePlace'
  BY <1>2, <1>3, <1>4
<1> QED
  BY <1>1, <1>3, <1>4, <1>5

\* Until a Load has failed, a session that does not wait for the device is Load's own, and only
\* while its restore is to come; what a Load is to report as loaded is on the device.
Durable ==
  ~failed => /\ async \subseteq {z2Hand["loader"]}
             /\ step \in {"out", "relax"} => async = {}
             /\ step = "give" => err \/ async = {}
OnDevice ==
  /\ step \in {"restore", "give"} => err \/ z2Rows = "device"
  /\ step = "out" /\ last = "ok" => z2Rows = "device"
Z2Inv == Z2Pool /\ Durable /\ OnDevice

LEMMA HoldersAre ==
  /\ Zu2!Holders = Callers \cup {"loader"} /\ "loader" \in Zu2!Holders /\ "loader" \notin Callers
  /\ Callers \subseteq Zu2!Holders
  BY EdgesAssumption DEF EdgesAssumption, Zu2!Holders, Zu2!Loader

LEMMA Z2InvInit == Zu2!Init => Z2Inv
<1> SUFFICES ASSUME Zu2!Init PROVE Z2Inv
  OBVIOUS
<1>1. z2Idle \in Seq(1..z2Opened) /\ Len(z2Idle) = 0
  BY EmptyList DEF Zu2!Init
<1>2. Items(z2Idle) = {} /\ Distinct(z2Idle)
  BY <1>1 DEF Items, Distinct
<1>3. Z2Types
  <2>1. /\ z2Opened = 0 /\ z2Hand = [h \in Zu2!Holders |-> 0] /\ z2All = {} /\ async = {}
        /\ z2Db = "unopened" /\ z2Rows = "none" /\ step = "out" /\ z2Loads = 0 /\ last = "none"
    BY DEF Zu2!Init, Zu2!NoConn
  <2>2. z2Hand \in [Zu2!Holders -> 0..z2Opened]
    BY <2>1
  <2>3. err \in BOOLEAN /\ failed \in BOOLEAN
    BY Zenon DEF Zu2!Init
  <2>4. z2Loads \in 0..MaxLoads + 1
    BY <2>1, ZuPoolAssumption DEF ZuPoolAssumption
  <2>5. z2Opened \in Nat /\ z2All \subseteq 1..z2Opened /\ async \subseteq z2All
    BY <2>1
  <2> QED
    BY <1>1, <2>1, <2>2, <2>3, <2>4, <2>5 DEF Z2Types
<1>4. OnePlace /\ LoadAlone
  BY <1>2, HoldersAre DEF Zu2!Init, OnePlace, LoadAlone, Zu2!NoConn
<1> QED
  BY <1>3, <1>4 DEF Zu2!Init, Z2Inv, Z2Pool, Durable, OnDevice

LEMMA Z2Acquires ==
  ASSUME Z2Inv, NEW c \in Callers, Zu2!Acquire(c) \/ Zu2!AcquireFails(c)
  PROVE  Z2Inv'
<1> USE DEF Zu2!NoConn
<1>1. /\ z2Db # "closed" /\ step = "out" /\ z2Hand[c] = 0 /\ c # "loader" /\ c \in Zu2!Holders
      /\ z2Db' \in {"sized", "default"}
      /\ UNCHANGED <<async, z2Rows, step, err, z2Loads, last, failed>>
  BY HoldersAre DEF Zu2!Acquire, Zu2!AcquireFails, Zu2!OpenAs, Zu2!load, Z2Inv, Z2Pool, Z2Types
<1>2. CASE Zu2!Acquire(c)
  <2>1. PICK k : Z2Takes(c, k)
    BY <1>1, <1>2, Z2TakeTakes DEF Z2Inv, Zu2!Acquire
  <2>2. /\ OnePlace' /\ z2All' \subseteq 1..z2Opened' /\ z2All \subseteq z2All'
        /\ z2Opened' \in Nat /\ z2Idle' \in Seq(1..z2Opened')
        /\ z2Hand' \in [Zu2!Holders -> 0..z2Opened'] /\ z2Hand'["loader"] = z2Hand["loader"]
    BY <1>1, <2>1, Z2TakeKeeps, HoldersAre DEF Z2Inv
  <2>3. Z2Types'
    BY <1>1, <2>2 DEF Z2Inv, Z2Pool, Z2Types
  <2>4. LoadAlone'
    BY <1>1, <2>2 DEF Z2Inv, Z2Pool, LoadAlone
  <2> QED
    BY <1>1, <2>2, <2>3, <2>4 DEF Z2Inv, Z2Pool, Durable, OnDevice
<1>3. CASE Zu2!AcquireFails(c)
  BY <1>1, <1>3 DEF Zu2!AcquireFails, Z2Inv, Z2Pool, Z2Types, OnePlace, LoadAlone, Durable, OnDevice
<1> QED
  BY <1>2, <1>3

LEMMA Z2Release ==
  ASSUME Z2Inv, NEW c \in Callers, Zu2!Release(c)
  PROVE  Z2Inv'
<1> USE DEF Zu2!NoConn
<1>1. /\ step = "out" /\ z2Hand[c] # 0 /\ z2Db # "closed" /\ c # "loader" /\ c \in Zu2!Holders
      /\ UNCHANGED <<z2Db, z2All, z2Opened, async, z2Rows, step, err, z2Loads, last, failed>>
  BY HoldersAre DEF Zu2!Release, Zu2!load, Z2Inv, Z2Pool, LoadAlone
<1>2. /\ OnePlace' /\ z2Idle' \in Seq(1..z2Opened) /\ z2Hand' = [z2Hand EXCEPT ![c] = 0]
      /\ z2Hand' \in [Zu2!Holders -> 0..z2Opened]
  BY <1>1, Z2GiveKeeps DEF Zu2!Release, Z2Inv
<1>3. z2Hand'["loader"] = z2Hand["loader"]
  BY <1>1, <1>2, HoldersAre DEF Z2Inv, Z2Pool, Z2Types
<1>4. Z2Types'
  BY <1>1, <1>2 DEF Z2Inv, Z2Pool, Z2Types
<1>5. LoadAlone'
  BY <1>1, <1>3 DEF Z2Inv, Z2Pool, LoadAlone
<1> QED
  BY <1>1, <1>2, <1>3, <1>4, <1>5 DEF Z2Inv, Z2Pool, Durable, OnDevice

LEMMA Z2LoadBegins ==
  ASSUME Z2Inv, Zu2!LoadBegin
  PROVE  Z2Inv'
<1> USE DEF Zu2!NoConn
<1>1. /\ z2Db # "closed" /\ step = "out" /\ z2Hand["loader"] = 0 /\ \A c \in Callers : z2Hand[c] = 0
      /\ z2Db' \in {"sized", "default"} /\ z2Loads' \in 0..MaxLoads + 1 /\ err' = FALSE
      /\ step' = "relax" /\ UNCHANGED <<async, z2Rows, last, failed>>
  BY ZuPoolAssumption
  DEF ZuPoolAssumption, Zu2!LoadBegin, Zu2!Quiet, Zu2!OpenAs, Zu2!Go, Z2Inv, Z2Pool, Z2Types, LoadAlone
<1>2. PICK k : Z2Takes("loader", k)
  BY Z2TakeTakes, HoldersAre DEF Z2Inv, Zu2!LoadBegin, Zu2!Loader
<1>3. /\ OnePlace' /\ z2All' \subseteq 1..z2Opened' /\ z2All \subseteq z2All'
      /\ z2Opened' \in Nat /\ z2Idle' \in Seq(1..z2Opened')
      /\ z2Hand' \in [Zu2!Holders -> 0..z2Opened'] /\ z2Hand'["loader"] # 0
      /\ \A c \in Callers : z2Hand'[c] = 0
  BY <1>1, <1>2, Z2TakeKeeps, HoldersAre DEF Z2Inv
<1>4. Z2Types'
  BY <1>1, <1>3 DEF Z2Inv, Z2Pool, Z2Types
<1>5. LoadAlone'
  BY <1>1, <1>3 DEF LoadAlone
<1> QED
  BY <1>1, <1>3, <1>4, <1>5 DEF Z2Inv, Z2Pool, Durable, OnDevice

\* The steps of Load between its first and its last leave the pool alone.
LEMMA Z2LoadGoesOn ==
  ASSUME Z2Inv,
         \/ Zu2!RelaxFails \/ Zu2!Relax \/ Zu2!Insert \/ Zu2!InsertFails
         \/ Zu2!Sync \/ Zu2!SyncFails \/ Zu2!Restore \/ Zu2!RestoreFails
  PROVE  Z2Inv'
<1> USE DEF Zu2!RelaxFails, Zu2!Relax, Zu2!Insert, Zu2!InsertFails, Zu2!Sync, Zu2!SyncFails,
            Zu2!Restore, Zu2!RestoreFails, Zu2!Go, Zu2!Fail, Zu2!Loader
<1>1. /\ step # "out" /\ step' \in {"append", "sync", "restore", "give"}
      /\ UNCHANGED <<z2Db, z2All, z2Idle, z2Opened, z2Hand, z2Loads, last, failed>>
  OBVIOUS
<1>2. z2Hand["loader"] \in z2All
  BY <1>1, HoldersAre DEF Z2Inv, Z2Pool, LoadAlone, OnePlace
<1>3. async' \subseteq z2All /\ err' \in BOOLEAN /\ z2Rows' \in {"none", "memory", "device"}
  BY <1>2 DEF Z2Inv, Z2Pool, Z2Types
<1>4. Z2Types'
  BY <1>1, <1>3 DEF Z2Inv, Z2Pool, Z2Types
<1>5. OnePlace' /\ LoadAlone'
  BY <1>1 DEF Z2Inv, Z2Pool, OnePlace, LoadAlone
<1>6. Durable'
  BY <1>1 DEF Z2Inv, Durable
<1>7. OnDevice'
  BY <1>1 DEF Z2Inv, OnDevice
<1> QED
  BY <1>4, <1>5, <1>6, <1>7 DEF Z2Inv, Z2Pool

LEMMA Z2LoadEnds ==
  ASSUME Z2Inv, Zu2!LoadEnd
  PROVE  Z2Inv'
<1> USE DEF Zu2!NoConn
<1>1. /\ step = "give" /\ z2Hand["loader"] # 0 /\ z2Db # "closed" /\ \A c \in Callers : z2Hand[c] = 0
      /\ UNCHANGED <<z2Db, z2All, z2Opened, async, z2Rows, err, z2Loads>>
      /\ step' = "out" /\ last' = (IF err THEN "error" ELSE "ok") /\ failed' = (failed \/ err)
  BY DEF Zu2!LoadEnd, Zu2!Go, Z2Inv, Z2Pool, LoadAlone
<1>2. /\ OnePlace' /\ z2Idle' \in Seq(1..z2Opened) /\ z2Hand' = [z2Hand EXCEPT !["loader"] = 0]
      /\ z2Hand' \in [Zu2!Holders -> 0..z2Opened]
  BY <1>1, Z2GiveKeeps, HoldersAre DEF Zu2!LoadEnd, Zu2!Loader, Z2Inv
<1>3. z2Hand'["loader"] = 0 /\ \A c \in Callers : z2Hand'[c] = 0
  BY <1>1, <1>2, HoldersAre DEF Z2Inv, Z2Pool, Z2Types
<1>4a. failed' \in BOOLEAN /\ last' \in {"none", "ok", "error"}
  BY <1>1 DEF Z2Inv, Z2Pool, Z2Types
<1>4. Z2Types'
  BY <1>1, <1>2, <1>4a DEF Z2Inv, Z2Pool, Z2Types
<1>5. LoadAlone'
  BY <1>1, <1>3 DEF LoadAlone
<1>6. Durable' /\ OnDevice'
  BY <1>1 DEF Z2Inv, Durable, OnDevice
<1> QED
  BY <1>2, <1>4, <1>5, <1>6 DEF Z2Inv, Z2Pool

LEMMA Z2Rests ==
  ASSUME Z2Inv, Zu2!LoadRefused \/ Zu2!Close \/ UNCHANGED Zu2!vars
  PROVE  Z2Inv'
<1> USE DEF Zu2!NoConn
<1>1. CASE Zu2!LoadRefused
  <2>1. Z2Types'
    BY <1>1, ZuPoolAssumption DEF ZuPoolAssumption, Zu2!LoadRefused, Z2Inv, Z2Pool, Z2Types
  <2> QED
    BY <1>1, <2>1 DEF Zu2!LoadRefused, Zu2!Quiet, Z2Inv, Z2Pool, OnePlace, LoadAlone, Durable, OnDevice
<1>2. CASE Zu2!Close
  <2>1. /\ z2All' = {} /\ z2Idle' = <<>> /\ async' = {} /\ z2Db' = "closed"
        /\ step = "out" /\ \A c \in Callers : z2Hand[c] = 0
        /\ UNCHANGED <<z2Opened, z2Hand, z2Rows, step, err, z2Loads, last, failed>>
    BY <1>2 DEF Zu2!Close, Zu2!Quiet, Zu2!load
  <2>2. z2Idle' \in Seq(1..z2Opened) /\ Len(z2Idle') = 0
    BY <2>1, EmptyList
  <2>3. Items(z2Idle') = {} /\ Distinct(z2Idle')
    BY <2>2 DEF Items, Distinct
  <2>4. Z2Types'
    BY <2>1, <2>2 DEF Z2Inv, Z2Pool, Z2Types
  <2>5. LoadAlone' /\ \A h \in Zu2!Holders : z2Hand'[h] = 0
    BY <2>1, HoldersAre DEF Z2Inv, Z2Pool, LoadAlone
  <2>6. OnePlace'
    BY <2>1, <2>3, <2>5 DEF OnePlace
  <2> QED
    BY <2>1, <2>4, <2>5, <2>6 DEF Z2Inv, Z2Pool, Durable, OnDevice
<1>3. CASE UNCHANGED Zu2!vars
  BY <1>3 DEF Zu2!vars, Z2Inv, Z2Pool, Z2Types, OnePlace, LoadAlone, Durable, OnDevice
<1> QED
  BY <1>1, <1>2, <1>3

LEMMA Z2Always == EdgesSpec => []Z2Inv
<1>1. Z2Inv /\ [Zu2!Next]_(Zu2!vars) => Z2Inv'
  BY Z2Acquires, Z2Release, Z2LoadBegins, Z2LoadGoesOn, Z2LoadEnds, Z2Rests DEF Zu2!Next, Zu2!Loading
<1>2. Z2Inv /\ [EdgesNext]_EdgesVars => Z2Inv'
  BY <1>1, AdapterSteps
<1> QED
  BY Z2InvInit, <1>2, PTL DEF EdgesSpec, EdgesInit, FilesInit, AdaptersInit, Steps

\* A load that reports success has stored its dataset, all of it and nothing else: through COPY,
\* for any number of rows and any capacity of the channel; through statements, for any datasets
\* and any history of loads that stopped half way; and through libzu2, on the device.
THEOREM LoadsAreWholeAlways == EdgesSpec => []LoadsAreWhole
<1>1. CopyInv /\ LoadInv /\ Z2Inv => LoadsAreWhole
  BY DEF CopyInv, LoadInv, Z2Inv, OnDevice, LoadsAreWhole, Zu2!LoadedIsOnDevice
<1> QED
  BY <1>1, CopyAlways, LoadAlways, Z2Always, PTL

-----------------------------------------------------------------------------
(* Zu2Pool implements Lending, and what else the callers were promised.      *)

\* Every step of the pool is one of the abstract lender's, or changes nothing it can see.
LEMMA Z2StepLends ==
  ASSUME Z2Inv, [Zu2!Next]_(Zu2!vars)
  PROVE  [Zu2!Promise!Next]_(Zu2!Promise!vars)
<1> USE DEF Zu2!Promise!vars, Zu2!NoConn
<1>1. ASSUME NEW h \in Zu2!Holders, Zu2!Take(h), z2Hand[h] = 0, z2Db # "closed", z2Db' # "closed"
      PROVE  Zu2!Promise!Next
  <2>1. PICK k : Z2Takes(h, k)
    BY <1>1, Z2TakeTakes DEF Z2Inv
  <2>2. k # 0 /\ z2Hand'[h] = k
    BY <1>1, <2>1, Z2TakeKeeps DEF Z2Inv
  <2>3. /\ z2Hand' = [z2Hand EXCEPT ![h] = k] /\ z2All' = z2All \cup {k}
        /\ \A g \in Zu2!Holders : z2Hand[g] # k
    BY <2>1 DEF Z2Takes
  <2>4. Zu2!Promise!Take(h, k)
    BY <1>1, <2>2, <2>3 DEF Zu2!Promise!Take, Zu2!Promise!Lent
  <2> QED
    BY <1>1, <2>2, <2>4 DEF Zu2!Promise!Next
<1>2. ASSUME NEW h \in Zu2!Holders, Zu2!GiveBack(h), z2Hand[h] # 0, z2Db # "closed",
             z2Db' = z2Db, z2All' = z2All
      PROVE  Zu2!Promise!Next
  <2>1. Zu2!Promise!GiveBack(h)
    BY <1>2 DEF Zu2!Promise!GiveBack, Zu2!GiveBack
  <2> QED
    BY <1>2, <2>1 DEF Zu2!Promise!Next
<1>3. ASSUME NEW c \in Callers, Zu2!Acquire(c) PROVE Zu2!Promise!Next
  BY <1>1, <1>3, HoldersAre DEF Zu2!Acquire, Zu2!OpenAs
<1>4. ASSUME NEW c \in Callers, Zu2!Release(c) PROVE Zu2!Promise!Next
  <2>1. z2Db # "closed" /\ z2Hand[c] # 0
    BY <1>4, HoldersAre DEF Zu2!Release, Z2Inv, Z2Pool, LoadAlone
  <2> QED
    BY <1>2, <1>4, <2>1, HoldersAre DEF Zu2!Release
<1>5. ASSUME Zu2!LoadBegin PROVE Zu2!Promise!Next
  <2>1. z2Hand["loader"] = 0 /\ z2Db' # "closed" /\ z2Db # "closed"
    BY <1>5 DEF Zu2!LoadBegin, Zu2!Quiet, Zu2!OpenAs, Z2Inv, Z2Pool, LoadAlone
  <2> QED
    BY <1>1, <1>5, <2>1, HoldersAre DEF Zu2!LoadBegin, Zu2!Loader
<1>6. ASSUME Zu2!LoadEnd PROVE Zu2!Promise!Next
  <2>1. z2Db # "closed" /\ z2Hand["loader"] # 0
    BY <1>6 DEF Zu2!LoadEnd, Z2Inv, Z2Pool, LoadAlone
  <2> QED
    BY <1>2, <1>6, <2>1, HoldersAre DEF Zu2!LoadEnd, Zu2!Loader
<1>7. ASSUME Zu2!Close PROVE Zu2!Promise!Next
  BY <1>7 DEF Zu2!Close, Zu2!Promise!CloseAll, Zu2!Promise!Next
<1>8. ASSUME (z2Db' = "closed") = (z2Db = "closed"), z2Hand' = z2Hand, z2All' = z2All
      PROVE  UNCHANGED Zu2!Promise!vars
  BY <1>8
<1>9. ASSUME \/ \E c \in Callers : Zu2!AcquireFails(c)
             \/ Zu2!LoadRefused \/ Zu2!RelaxFails \/ Zu2!Relax \/ Zu2!Insert \/ Zu2!InsertFails
             \/ Zu2!Sync \/ Zu2!SyncFails \/ Zu2!Restore \/ Zu2!RestoreFails \/ UNCHANGED Zu2!vars
      PROVE  UNCHANGED Zu2!Promise!vars
  BY <1>8, <1>9
  DEF Zu2!AcquireFails, Zu2!OpenAs, Zu2!LoadRefused, Zu2!RelaxFails, Zu2!Relax, Zu2!Insert,
      Zu2!InsertFails, Zu2!Sync, Zu2!SyncFails, Zu2!Restore, Zu2!RestoreFails, Zu2!vars
<1> QED
  BY <1>3, <1>4, <1>5, <1>6, <1>7, <1>9 DEF Zu2!Next, Zu2!Loading

\* Load and the callers of zu2 have sessions that are open and their own, which is what Lending
\* promises; a session writes without waiting for the device only in the hand of a Load, unless
\* a Load has failed; and a ladybug query runs under its own deadline.
THEOREM SessionsKeepPromises == EdgesSpec => SessionsAsPromised
<1>1. Zu2!Init => Zu2!Promise!Init
  BY DEF Zu2!Init, Zu2!Promise!Init, Zu2!NoConn
<1>2. Z2Inv /\ [EdgesNext]_EdgesVars => [Zu2!Promise!Next]_(Zu2!Promise!vars)
  BY Z2StepLends, AdapterSteps
<1>3. Z2Inv /\ LbInv => Zu2!LentAsConfigured /\ Lb!DeadlineIsItsOwn
  BY DEF Z2Inv, Durable, LbInv, AtWork, Zu2!LentAsConfigured, Zu2!Loader,
         Lb!DeadlineIsItsOwn, Lb!InEngine
<1> QED
  BY <1>1, <1>2, <1>3, Z2Always, LbAlways, PTL
  DEF EdgesSpec, EdgesInit, FilesInit, AdaptersInit, Steps, SessionsAsPromised, Zu2!LendsSafely

\* The zu session of this composition is the one ZuPoolProofs is about: each of its theorems
\* holds here.
THEOREM ZuIsThePool == EdgesSpec => Spec
<1>1. [EdgesNext]_EdgesVars => [Next]_vars
  BY AdapterSteps
<1> QED
  BY <1>1, PTL DEF EdgesSpec, EdgesInit, FilesInit, AdaptersInit, Steps, Spec

-----------------------------------------------------------------------------
(* The files.                                                                *)


\* A step of all the parts is a step of each, or nothing to it.
LEMMA FilesSteps ==
  ASSUME [EdgesNext]_EdgesVars
  PROVE  /\ part' = part
         /\ [Made!Next]_(Made!vars)
         /\ [Pinned!FetchNext]_(Pinned!fetchVars)
         /\ part = "publish" => [Kept!PublishNext]_(Kept!lineageVars)
         /\ part # "publish" => [Kept!CurateNext]_(Kept!lineageVars)
<1>1. CASE EdgesNext
  BY <1>1 DEF EdgesNext, AdaptersNext, FilesNext, recipeVars, fetchVars, lineageVars, Made!vars,
              Made!own, Pinned!fetchVars, Pinned!mine, Kept!lineageVars, Kept!pools
<1>2. CASE UNCHANGED EdgesVars
  BY <1>2 DEF EdgesVars, AdaptersVars, recipeVars, fetchVars, lineageVars, Made!vars, Made!own,
              Pinned!fetchVars, Pinned!mine, Kept!lineageVars, Kept!pools
<1> QED BY <1>1, <1>2

-----------------------------------------------------------------------------
(* Generated datasets.                                                       *)

\* The inductive invariant. A stage is whole once its process is past finalize, which is why
\* a rename installs a whole directory; a process that writes the index knows a directory
\* that is there, and no step takes one away.
Staged == \A c \in Processes : rcPc[c] \in {"stat", "rename"} => stage[c] = "whole"
Asked ==
  \A c \in Processes :
    /\ rcPc[c] # "idle" => name[c] \in Made!Names
    /\ rcPc[c] \in {"open", "truncate", "write"} => dirs[name[c]] # "absent"
    /\ (rcPc[c] # "idle" /\ kind[c] # "custom") => name[c] \in Recipes
    /\ rcPc[c] \in {"cached", "stage", "finalize", "stat", "rename", "open", "truncate", "write"} => kind[c] # "custom"
RecipesInv == Made!TypeOK /\ Staged /\ Asked /\ Made!CacheIsSound

USE DEF Made!Goto, Made!End, Made!DropStage, Made!At, Made!own, Made!Names, Made!Kinds

LEMMA RecipesInvInit == Made!Init => RecipesInv
  BY DEF Made!Init, RecipesInv, Made!TypeOK, Staged, Asked, Made!CacheIsSound, Made!Indexed

LEMMA RecipesCallKeeps == ASSUME RecipesInv, NEW c \in Processes, Made!Call(c) PROVE RecipesInv'
<1>1. Made!ReadRecipeIndex \in SUBSET Recipes /\ Made!Indexed(Made!ReadRecipeIndex)
  BY DEF RecipesInv, Made!TypeOK, Made!CacheIsSound, Made!ReadRecipeIndex, Made!Indexed
<1>2. PICK k \in Made!Kinds, n \in Made!Names :
        /\ n \in Custom <=> k = "custom"
        /\ kind' = [kind EXCEPT ![c] = k] /\ name' = [name EXCEPT ![c] = n]
        /\ seen' = [seen EXCEPT ![c] = IF k = "recipe" THEN Made!ReadRecipeIndex ELSE {}]
        /\ rcPc' = [rcPc EXCEPT ![c] = CASE k = "custom" -> "find"
                                         [] k = "recipe" /\ n \in Made!ReadRecipeIndex -> "cached"
                                         [] OTHER -> "stage"]
  BY DEF Made!Call
<1>3. rcPc'[c] \in {"find", "cached", "stage"} /\ (rcPc'[c] # "find" => k # "custom")
  BY <1>2 DEF RecipesInv, Made!Call, Made!TypeOK
<1>4. rcPc' \in [Processes -> {"idle", "find", "cached", "stage", "finalize", "stat", "rename",
                              "open", "truncate", "write"}]
  BY <1>2, <1>3 DEF RecipesInv, Made!Call, Made!TypeOK
<1>5. Made!TypeOK'
  BY <1>1, <1>2, <1>4 DEF RecipesInv, Made!Call, Made!TypeOK
<1>6. Staged' /\ Asked'
  BY <1>2, <1>3 DEF RecipesInv, Made!Call, Made!TypeOK, Staged, Asked
<1>7. Made!CacheIsSound'
  BY <1>1, <1>2, <1>3 DEF RecipesInv, Made!Call, Made!TypeOK, Made!CacheIsSound, Made!Indexed, Asked
<1> QED
  BY <1>5, <1>6, <1>7 DEF RecipesInv

LEMMA RecipesFindDatasetKeeps ==
  ASSUME RecipesInv, NEW c \in Processes, Made!FindDataset(c)
  PROVE  RecipesInv'
<1> USE DEF RecipesInv, Made!FindDataset, Made!Verifies
<1>1. Made!TypeOK'
  BY DEF Made!TypeOK, Staged, Asked
<1>2. Staged' /\ Asked'
  BY DEF Made!TypeOK, Staged, Asked
<1>3. Made!CacheIsSound'
  BY DEF Made!TypeOK, Made!CacheIsSound, Made!Indexed, Asked, Staged
<1> QED
  BY <1>1, <1>2, <1>3

LEMMA RecipesOpenCachedKeeps ==
  ASSUME RecipesInv, NEW c \in Processes, Made!OpenCached(c)
  PROVE  RecipesInv'
<1> USE DEF RecipesInv, Made!OpenCached, Made!Verifies
<1>1. Made!TypeOK'
  <2>1. CASE dirs[name[c]] = "whole"
    BY <2>1 DEF Made!TypeOK
  <2>2. CASE dirs[name[c]] # "whole"
    BY <2>2 DEF Made!TypeOK
  <2> QED
    BY <2>1, <2>2
<1>2. Staged' /\ Asked'
  BY DEF Made!TypeOK, Staged, Asked
<1>3. Made!CacheIsSound'
  BY DEF Made!TypeOK, Made!CacheIsSound, Made!Indexed, Asked, Staged
<1> QED
  BY <1>1, <1>2, <1>3

LEMMA RecipesGenerateKeeps ==
  ASSUME RecipesInv, NEW c \in Processes, Made!Generate(c)
  PROVE  RecipesInv'
<1> USE DEF RecipesInv, Made!Generate, Made!Verifies
<1>1. Made!TypeOK'
  BY DEF Made!TypeOK, Staged, Asked
<1>2. Staged' /\ Asked'
  BY DEF Made!TypeOK, Staged, Asked
<1>3. Made!CacheIsSound'
  BY DEF Made!TypeOK, Made!CacheIsSound, Made!Indexed, Asked, Staged
<1> QED
  BY <1>1, <1>2, <1>3

LEMMA RecipesFinalizeKeeps ==
  ASSUME RecipesInv, NEW c \in Processes, Made!Finalize(c)
  PROVE  RecipesInv'
<1> USE DEF RecipesInv, Made!Finalize, Made!Verifies
<1>1. Made!TypeOK'
  BY DEF Made!TypeOK, Staged, Asked
<1>2. Staged' /\ Asked'
  BY DEF Made!TypeOK, Staged, Asked
<1>3. Made!CacheIsSound'
  BY DEF Made!TypeOK, Made!CacheIsSound, Made!Indexed, Asked, Staged
<1> QED
  BY <1>1, <1>2, <1>3

LEMMA RecipesStatKeeps == ASSUME RecipesInv, NEW c \in Processes, Made!Stat(c) PROVE RecipesInv'
<1> USE DEF RecipesInv, Made!Stat, Made!Verifies
<1>1. Made!TypeOK'
  BY DEF Made!TypeOK, Staged, Asked
<1>2. Staged' /\ Asked'
  BY DEF Made!TypeOK, Staged, Asked
<1>3. Made!CacheIsSound'
  BY DEF Made!TypeOK, Made!CacheIsSound, Made!Indexed, Asked, Staged
<1> QED
  BY <1>1, <1>2, <1>3

LEMMA RecipesRenameKeeps == ASSUME RecipesInv, NEW c \in Processes, Made!Rename(c) PROVE RecipesInv'
<1> USE DEF RecipesInv, Made!Rename, Made!Verifies
<1>1. Made!TypeOK'
  BY DEF Made!TypeOK, Staged, Asked
<1>2. Staged' /\ Asked'
  BY DEF Made!TypeOK, Staged, Asked
<1>3. Made!CacheIsSound'
  BY DEF Made!TypeOK, Made!CacheIsSound, Made!Indexed, Asked, Staged
<1> QED
  BY <1>1, <1>2, <1>3

LEMMA RecipesOpenFinalKeeps ==
  ASSUME RecipesInv, NEW c \in Processes, Made!OpenFinal(c)
  PROVE  RecipesInv'
<1> USE DEF RecipesInv, Made!OpenFinal, Made!Verifies
<1>1. Made!TypeOK'
  BY DEF Made!TypeOK, Staged, Asked
<1>2. Staged' /\ Asked'
  BY DEF Made!TypeOK, Staged, Asked
<1>3. Made!CacheIsSound'
  BY DEF Made!TypeOK, Made!CacheIsSound, Made!Indexed, Asked, Staged
<1> QED
  BY <1>1, <1>2, <1>3

LEMMA RecipesTruncateKeeps ==
  ASSUME RecipesInv, NEW c \in Processes, Made!Truncate(c)
  PROVE  RecipesInv'
<1> USE DEF RecipesInv, Made!Truncate, Made!Verifies
<1>1. Made!TypeOK'
  BY DEF Made!TypeOK, Staged, Asked
<1>2. Staged' /\ Asked'
  BY DEF Made!TypeOK, Staged, Asked
<1>3. Made!CacheIsSound'
  BY DEF Made!TypeOK, Made!CacheIsSound, Made!Indexed, Asked, Staged
<1> QED
  BY <1>1, <1>2, <1>3

LEMMA RecipesWriteRecipeIndexKeeps ==
  ASSUME RecipesInv, NEW c \in Processes, Made!WriteRecipeIndex(c)
  PROVE  RecipesInv'
<1> USE DEF RecipesInv, Made!WriteRecipeIndex, Made!Verifies
<1>1. Made!TypeOK'
  BY DEF Made!TypeOK, Staged, Asked, Made!Overwritten
<1>2. Staged' /\ Asked'
  BY DEF Made!TypeOK, Staged, Asked
<1>3. Made!CacheIsSound'
  BY DEF Made!TypeOK, Made!CacheIsSound, Made!Indexed, Asked, Staged, Made!Overwritten
<1> QED
  BY <1>1, <1>2, <1>3

LEMMA RecipesCrashKeeps == ASSUME RecipesInv, NEW c \in Processes, Made!Crash(c) PROVE RecipesInv'
<1> USE DEF RecipesInv, Made!Crash
<1>1. Made!TypeOK'
  BY DEF Made!TypeOK
<1>2. Staged' /\ Asked'
  BY DEF Made!TypeOK, Staged, Asked
<1>3. Made!CacheIsSound'
  BY DEF Made!TypeOK, Made!CacheIsSound, Made!Indexed, Asked
<1> QED
  BY <1>1, <1>2, <1>3

LEMMA RecipesRotKeeps == ASSUME RecipesInv, Made!Rot PROVE RecipesInv'
<1> USE DEF RecipesInv, Made!Rot
<1>1. Made!TypeOK'
  BY DEF Made!TypeOK
<1>2. Staged' /\ Asked'
  BY DEF Made!TypeOK, Staged, Asked
<1>3. Made!CacheIsSound'
  BY DEF Made!TypeOK, Made!CacheIsSound, Made!Indexed, Asked
<1> QED
  BY <1>1, <1>2, <1>3

LEMMA RecipesInvStep == RecipesInv /\ [Made!Next]_(Made!vars) => RecipesInv'
<1> SUFFICES ASSUME RecipesInv, [Made!Next]_(Made!vars) PROVE RecipesInv'
  OBVIOUS
<1>1. CASE Made!Rot
  BY <1>1, RecipesRotKeeps
<1>2. ASSUME NEW c \in Processes, Made!Call(c) \/ Made!Step(c) \/ Made!Crash(c) PROVE RecipesInv'
  BY <1>2, RecipesCallKeeps, RecipesCrashKeeps, RecipesFindDatasetKeeps, RecipesOpenCachedKeeps,
     RecipesGenerateKeeps, RecipesFinalizeKeeps, RecipesStatKeeps, RecipesRenameKeeps,
     RecipesOpenFinalKeeps, RecipesTruncateKeeps, RecipesWriteRecipeIndexKeeps
  DEF Made!Step
<1>3. CASE UNCHANGED Made!vars
  BY <1>3 DEF Made!vars, RecipesInv, Made!TypeOK, Staged, Asked, Made!CacheIsSound, Made!Indexed
<1> QED
  BY <1>1, <1>2, <1>3 DEF Made!Next

LEMMA RecipesAlways == EdgesSpec => []RecipesInv
<1>1. RecipesInv /\ [EdgesNext]_EdgesVars => RecipesInv'
  BY RecipesInvStep, FilesSteps
<1> QED
  BY RecipesInvInit, <1>1, PTL DEF EdgesSpec, EdgesInit, FilesInit, Steps

\* Every variable of the resolver stays in its type.
THEOREM ResolverTypes == EdgesSpec => []Made!TypeOK
<1>1. RecipesInv => Made!TypeOK
  BY DEF RecipesInv
<1> QED
  BY RecipesAlways, <1>1, PTL

\* For any number of processes that resolve, generate and look up datasets and are killed at
\* any step, a directory under a final name was whole when it got there, and no index names a
\* directory that is not there (materializeRecipe, runGenerate).
THEOREM CacheStaysSound == EdgesSpec => []CacheIsSound
<1>1. RecipesInv => CacheIsSound
  BY DEF RecipesInv, CacheIsSound
<1> QED
  BY RecipesAlways, <1>1, PTL

\* One step keeps what is installed, unless a file of it rots.
LEMMA KeepsInstalled ==
  ASSUME RecipesInv, [Made!Next]_(Made!vars)
  PROVE  \A n \in Made!Names : dirs[n] # "absent" => dirs'[n] = dirs[n] \/ (dirs'[n] = "rotten" /\ faults' > faults)
<1>1. CASE Made!Rot
  BY <1>1 DEF Made!Rot, RecipesInv, Made!TypeOK
<1>2. ASSUME NEW c \in Processes, Made!Rename(c)
      PROVE \A n \in Made!Names : dirs[n] # "absent" => dirs'[n] = dirs[n]
  BY <1>2 DEF Made!Rename, RecipesInv, Made!TypeOK
<1>3. ASSUME NEW c \in Processes, Made!Call(c) \/ Made!Step(c) \/ Made!Crash(c), ~Made!Rename(c) PROVE dirs' = dirs
  BY <1>3 DEF Made!Step, Made!Call, Made!Crash, Made!FindDataset, Made!OpenCached, Made!Generate,
              Made!Finalize, Made!Stat, Made!OpenFinal, Made!Truncate, Made!WriteRecipeIndex
<1>4. CASE UNCHANGED Made!vars
  BY <1>4 DEF Made!vars
<1> QED
  BY <1>1, <1>2, <1>3, <1>4 DEF Made!Next

\* A directory once installed is never replaced or removed by a process: whoever opened it may
\* still be loading from it.
THEOREM InstalledStays == EdgesSpec => NeverReplaced
<1>1. RecipesInv /\ [EdgesNext]_EdgesVars =>
  [\A n \in Made!Names : dirs[n] # "absent" =>
     dirs'[n] = dirs[n] \/ (dirs'[n] = "rotten" /\ faults' > faults)]_(Made!vars)
  BY KeepsInstalled, FilesSteps
<1> QED
  BY RecipesAlways, <1>1, PTL DEF EdgesSpec, Steps, NeverReplaced, Made!NeverReplaced

-----------------------------------------------------------------------------
(* The cache of pinned datasets.                                             *)

\* A dataset has a file, the files have an order.
FilesInOrder == Len(Files) \in Nat \ {0} /\ DOMAIN Files = 1..Len(Files)

FetchSteps ==
  {"idle", "download", "archive", "extract", "content", "install", "empty", "fill", "open", "using"}

FetchTypes ==
  /\ fpc \in [Processes -> FetchSteps]
  /\ result \in [Processes -> {"nothing", "set", "error", "killed"}]
  /\ archive \in [Processes -> {"absent", "right", "other"}]
  /\ temp \in [Processes -> {"absent", "right", "other"}]
  /\ next \in [Processes -> 1..Len(Files)]
  /\ company \in [Processes -> BOOLEAN]
  /\ pinCache \in [Pinned!Names -> {"absent", "cut", "right", "other"}]
  /\ cutter \in [Pinned!Names -> Processes \cup {Pinned!Nobody}]

\* What is copied or renamed was checked.
Checked == \A f \in Processes : fpc[f] \in {"install", "empty", "fill"} => temp[f] = "right"

\* A fetch that has had no company is the only one.
Alone == \A f \in Processes : (Pinned!Busy(f) /\ ~company[f]) => \A g \in Processes \ {f} : ~Pinned!Busy(g)

\* What it has copied is right, and the file it is filling nobody else has emptied since.
Copied ==
  \A f \in Processes : ~company[f] =>
    /\ fpc[f] = "empty" => \A i \in 1..next[f] - 1 : pinCache[Files[i]] = "right"
    /\ fpc[f] = "fill" =>
         /\ cutter[Files[next[f]]] = f
         /\ \A i \in 1..next[f] - 1 : Files[i] # Files[next[f]] => pinCache[Files[i]] = "right"
    /\ fpc[f] = "open" => \A x \in Pinned!Names : pinCache[x] = "right"

\* The copy begins at the first file.
Started == \A f \in Processes : fpc[f] \in {"download", "archive", "extract", "content", "install"} => next[f] = 1

FetchInv == FetchTypes /\ Pinned!NeverOtherBytes /\ Checked /\ Alone /\ Copied /\ Started

USE DEF Pinned!Where, Pinned!Go, Pinned!Busy, FetchSteps

LEMMA FetchInvInit == ASSUME FilesInOrder, Pinned!FetchInit PROVE FetchInv
  BY DEF FilesInOrder, Pinned!FetchInit, FetchInv, FetchTypes, Pinned!NeverOtherBytes, Checked,
         Alone, Copied, Started, Pinned!Servers

LEMMA NamesOfFiles == ASSUME FilesInOrder PROVE \A i \in 1..Len(Files) : Files[i] \in Pinned!Names
  BY DEF FilesInOrder, Pinned!Names

\* While one copies, only its own copy is to be looked at.
LEMMA OwnCopy ==
  ASSUME NEW f \in Processes,
         \A g \in Processes \ {f} : ~company'[g] => fpc'[g] \in {"idle", "using"},
         (~company'[f] /\ fpc'[f] = "empty") => \A i \in 1..next'[f] - 1 : pinCache'[Files[i]] = "right",
         (~company'[f] /\ fpc'[f] = "fill") =>
           /\ cutter'[Files[next'[f]]] = f
           /\ \A i \in 1..next'[f] - 1 : Files[i] # Files[next'[f]] => pinCache'[Files[i]] = "right",
         (~company'[f] /\ fpc'[f] = "open") => \A x \in Pinned!Names : pinCache'[x] = "right"
  PROVE  Copied'
<1> SUFFICES ASSUME NEW g \in Processes, ~company'[g]
             PROVE  /\ fpc'[g] = "empty" => \A i \in 1..next'[g] - 1 : pinCache'[Files[i]] = "right"
                    /\ fpc'[g] = "fill" =>
                         /\ cutter'[Files[next'[g]]] = g
                         /\ \A i \in 1..next'[g] - 1 : Files[i] # Files[next'[g]] => pinCache'[Files[i]] = "right"
                    /\ fpc'[g] = "open" => \A x \in Pinned!Names : pinCache'[x] = "right"
  BY DEF Copied
<1>1. CASE g = f
  BY <1>1
<1>2. CASE g # f
  <2>1. fpc'[g] \in {"idle", "using"}
    BY <1>2
  <2> QED BY <2>1
<1> QED BY <1>1, <1>2

\* To return is to be alone no more, and to hold nothing.
LEMMA ReturnKeeps ==
  ASSUME FetchInv, NEW f \in Processes, NEW outcome \in {"set", "error", "killed"}, Pinned!Finish(f, outcome),
         UNCHANGED <<company, pinCache, cutter>>
  PROVE  FetchInv'
  BY DEF FetchInv, FetchTypes, Pinned!NeverOtherBytes, Checked, Alone, Copied, Started,
         Pinned!Finish

LEMMA FetchCallKeeps ==
  ASSUME FilesInOrder, FetchInv, NEW f \in Processes, Pinned!Fetch(f)
  PROVE  FetchInv'
<1> USE DEF FetchInv
<1>1. /\ fpc[f] = "idle" /\ fpc'[f] \in {"using", "download"}
      /\ \A g \in Processes \ {f} : fpc'[g] = fpc[g] /\ temp'[g] = temp[g] /\ next'[g] = next[g]
      /\ fpc'[f] = "download" => next'[f] = 1
      /\ UNCHANGED <<pinCache, cutter>>
  BY DEF Pinned!Fetch, Pinned!Finish, FetchTypes
<1>2. company' = [g \in Processes |-> IF g = f THEN \E h \in Processes \ {f} : Pinned!Busy(h) ELSE company[g] \/ Pinned!Busy(g)]
  BY DEF Pinned!Fetch
<1>3. FetchTypes'
  <2>1. company' \in [Processes -> BOOLEAN]
    BY <1>2 DEF FetchTypes
  <2>2. /\ result' \in [Processes -> {"nothing", "set", "error", "killed"}]
        /\ archive' \in [Processes -> {"absent", "right", "other"}]
        /\ temp' \in [Processes -> {"absent", "right", "other"}]
    BY DEF Pinned!Fetch, Pinned!Finish, FetchTypes
  <2>3. next' \in [Processes -> 1..Len(Files)]
    <3>1. next' = next \/ next' = [next EXCEPT ![f] = 1]
      BY DEF Pinned!Fetch, Pinned!Finish
    <3>2. 1 \in 1..Len(Files)
      BY DEF FilesInOrder
    <3> QED BY <3>1, <3>2 DEF FetchTypes
  <2>4. fpc' \in [Processes -> FetchSteps]
    <3>1. \E s \in {"using", "download"} : fpc' = [fpc EXCEPT ![f] = s]
      BY DEF Pinned!Fetch, Pinned!Finish
    <3> QED BY <3>1 DEF FetchTypes
  <2> QED BY <1>1, <2>1, <2>2, <2>3, <2>4 DEF FetchTypes
<1>4. Pinned!NeverOtherBytes' /\ Checked' /\ Started'
  BY <1>1 DEF Pinned!NeverOtherBytes, Checked, Started
<1>5. Alone'
  BY <1>1, <1>2 DEF Alone, FetchTypes
<1>6. Copied'
  BY <1>1, <1>2 DEF Copied, FetchTypes
<1> QED BY <1>3, <1>4, <1>5, <1>6

\* Up to the rename a step moves its own process on, and writes nothing where others look.
LEMMA MoveKeeps ==
  ASSUME FetchInv, NEW f \in Processes,
         NEW s \in {"idle", "download", "archive", "extract", "content", "install"},
         fpc' = [fpc EXCEPT ![f] = s],
         s # "idle" => fpc[f] \in {"download", "archive", "extract", "content"},
         result' \in [Processes -> {"nothing", "set", "error", "killed"}],
         archive' \in [Processes -> {"absent", "right", "other"}],
         temp' \in [Processes -> {"absent", "right", "other"}],
         \A g \in Processes \ {f} : temp'[g] = temp[g],
         s = "install" => temp'[f] = "right",
         UNCHANGED <<next, company, pinCache, cutter>>
  PROVE  FetchInv'
<1> USE DEF FetchInv
<1>1. FetchTypes' /\ Pinned!NeverOtherBytes'
  BY DEF FetchTypes, Pinned!NeverOtherBytes
<1>2. Checked' /\ Started'
  BY DEF FetchTypes, Checked, Started
<1>3. Alone'
  BY DEF FetchTypes, Alone
<1>4. Copied'
  BY DEF FetchTypes, Copied
<1> QED BY <1>1, <1>2, <1>3, <1>4

LEMMA PrepareKeeps ==
  ASSUME FetchInv, NEW f \in Processes,
         Pinned!Download(f) \/ Pinned!VerifyArchive(f) \/ Pinned!Extract(f) \/ Pinned!VerifyContent(f) \/ Pinned!Loaded(f)
  PROVE  FetchInv'
<1>0. FetchTypes
  BY DEF FetchInv
<1>1. CASE Pinned!Download(f)
  <2>1. /\ \E s \in {"idle", "download", "archive"} : fpc' = [fpc EXCEPT ![f] = s]
        /\ fpc[f] = "download" /\ UNCHANGED <<temp, next, company, pinCache, cutter>>
    BY <1>0, <1>1 DEF Pinned!Download, FetchTypes
  <2>2. /\ result' = result \/ result' = [result EXCEPT ![f] = "error"]
        /\ archive' = archive \/ \E a \in {"right", "other"} : archive' = [archive EXCEPT ![f] = a]
    BY <1>1 DEF Pinned!Download
  <2>3. result' \in [Processes -> {"nothing", "set", "error", "killed"}]
    BY <1>0, <2>2 DEF FetchTypes
  <2>4. archive' \in [Processes -> {"absent", "right", "other"}]
    BY <1>0, <2>2 DEF FetchTypes
  <2> QED BY <1>0, <2>1, <2>3, <2>4, MoveKeeps DEF FetchTypes
<1>2. CASE Pinned!VerifyArchive(f)
  <2>1. CASE archive[f] = "right"
    BY <1>0, <1>2, <2>1, MoveKeeps DEF Pinned!VerifyArchive, FetchTypes
  <2>2. CASE archive[f] # "right"
    BY <1>2, <2>2, ReturnKeeps DEF Pinned!VerifyArchive
  <2> QED BY <2>1, <2>2
<1>3. CASE Pinned!Extract(f)
  <2>1. CASE Pinned!Finish(f, "error")
    BY <1>3, <2>1, ReturnKeeps DEF Pinned!Extract
  <2>2. CASE \E t \in {"right", "other"} :
               temp' = [temp EXCEPT ![f] = t] /\ Pinned!Go(f, "content") /\ UNCHANGED <<result, archive, url, next>>
    <3>1. PICK t \in {"right", "other"} : temp' = [temp EXCEPT ![f] = t]
      BY <2>2
    <3>2. /\ fpc' = [fpc EXCEPT ![f] = "content"] /\ fpc[f] = "extract"
          /\ UNCHANGED <<result, archive, next, company, pinCache, cutter>>
      BY <1>3, <2>2 DEF Pinned!Extract
    <3>3. temp' \in [Processes -> {"absent", "right", "other"}] /\ \A g \in Processes \ {f} : temp'[g] = temp[g]
      BY <1>0, <3>1 DEF FetchTypes
    <3> QED BY <1>0, <3>2, <3>3, MoveKeeps DEF FetchTypes
  <2> QED BY <1>3, <2>1, <2>2 DEF Pinned!Extract
<1>4. CASE Pinned!VerifyContent(f)
  <2>1. CASE temp[f] = "right"
    BY <1>0, <1>4, <2>1, MoveKeeps DEF Pinned!VerifyContent, FetchTypes
  <2>2. CASE temp[f] # "right"
    BY <1>4, <2>2, ReturnKeeps DEF Pinned!VerifyContent
  <2> QED BY <2>1, <2>2
<1>5. CASE Pinned!Loaded(f)
  BY <1>0, <1>5, MoveKeeps DEF Pinned!Loaded, FetchTypes
<1> QED BY <1>1, <1>2, <1>3, <1>4, <1>5

LEMMA InstallKeeps ==
  ASSUME FilesInOrder, FetchInv, NEW f \in Processes, Pinned!Install(f)
  PROVE  FetchInv'
<1> USE DEF FetchInv
<1>1. /\ fpc[f] = "install" /\ temp[f] = "right" /\ next[f] = 1
      /\ UNCHANGED <<temp, next, company, cutter, result, archive>>
  BY DEF Pinned!Install, Checked, Started
<1>2. \/ fpc' = [fpc EXCEPT ![f] = "empty"] /\ pinCache' = pinCache
      \/ fpc' = [fpc EXCEPT ![f] = "open"] /\ pinCache' = [x \in Pinned!Names |-> "right"]
  BY <1>1 DEF Pinned!Install
<1>3. FetchTypes' /\ Pinned!NeverOtherBytes' /\ Checked' /\ Started'
  BY <1>1, <1>2 DEF FetchTypes, Pinned!NeverOtherBytes, Checked, Started
<1>4. Alone'
  BY <1>1, <1>2 DEF Alone, FetchTypes
<1>5. Copied'
  <2>1. ASSUME NEW g \in Processes \ {f}, ~company'[g] PROVE fpc'[g] \in {"idle", "using"}
    BY <1>1, <1>2, <2>1 DEF Alone, FetchTypes
  <2>2. fpc'[f] = "empty" => next'[f] = 1
    BY <1>1
  <2>3. fpc'[f] \in {"empty", "open"} /\ (fpc'[f] = "open" => \A x \in Pinned!Names : pinCache'[x] = "right")
    BY <1>1, <1>2 DEF FetchTypes
  <2> QED BY <2>1, <2>2, <2>3, OwnCopy
<1> QED BY <1>3, <1>4, <1>5

\* The copy: a file is emptied by this fetch, and filled with what was checked.
LEMMA CopyKeeps ==
  ASSUME FilesInOrder, FetchInv, NEW f \in Processes, Pinned!Empty(f) \/ Pinned!Fill(f)
  PROVE  FetchInv'
<1> USE DEF FetchInv
<1> DEFINE x == Files[next[f]]
<1>0. /\ next[f] \in 1..Len(Files) /\ x \in Pinned!Names /\ temp[f] = "right"
      /\ UNCHANGED <<temp, company, result, archive>>
  BY NamesOfFiles DEF FetchTypes, Pinned!Empty, Pinned!Fill, Checked
<1>1. CASE Pinned!Empty(f)
  <2>1. /\ fpc[f] = "empty" /\ fpc' = [fpc EXCEPT ![f] = "fill"] /\ next' = next
        /\ pinCache' = [pinCache EXCEPT ![x] = "cut"] /\ cutter' = [cutter EXCEPT ![x] = f]
    BY <1>1 DEF Pinned!Empty
  <2>2. FetchTypes' /\ Pinned!NeverOtherBytes' /\ Checked' /\ Started'
    BY <1>0, <2>1 DEF FetchTypes, Pinned!NeverOtherBytes, Checked, Started
  <2>3. Alone'
    BY <1>0, <2>1 DEF Alone, FetchTypes
  <2>4. ASSUME NEW g \in Processes, ~company'[g], g # f PROVE fpc'[g] \in {"idle", "using"}
    BY <1>0, <2>1, <2>4 DEF Alone, FetchTypes
  <2>5. ~company'[f] =>
          /\ cutter'[Files[next'[f]]] = f
          /\ \A i \in 1..next'[f] - 1 : Files[i] # Files[next'[f]] => pinCache'[Files[i]] = "right"
    BY <1>0, <2>1, NamesOfFiles DEF Copied, FetchTypes
  <2>6. Copied'
    <3>1. fpc'[f] = "fill"
      BY <2>1 DEF FetchTypes
    <3> QED BY <2>4, <2>5, <3>1, OwnCopy
  <2> QED BY <2>2, <2>3, <2>6
<1>2. CASE Pinned!Fill(f)
  <2>1. /\ fpc[f] = "fill" /\ cutter' = cutter
        /\ pinCache' = [pinCache EXCEPT ![x] = "right"] \/ (cutter[x] # f /\ pinCache' = pinCache)
        /\ \/ next[f] = Len(Files) /\ fpc' = [fpc EXCEPT ![f] = "open"] /\ next' = next
           \/ /\ next[f] # Len(Files) /\ fpc' = [fpc EXCEPT ![f] = "empty"]
              /\ next' = [next EXCEPT ![f] = next[f] + 1]
    BY <1>0, <1>2 DEF Pinned!Fill
  <2>2. FetchTypes' /\ Pinned!NeverOtherBytes' /\ Checked' /\ Started'
    <3>1. next' \in [Processes -> 1..Len(Files)]
      BY <1>0, <2>1 DEF FetchTypes, FilesInOrder
    <3>2. fpc' \in [Processes -> FetchSteps] /\ pinCache' \in [Pinned!Names -> {"absent", "cut", "right", "other"}]
      BY <1>0, <2>1 DEF FetchTypes
    <3>3. FetchTypes'
      BY <1>0, <2>1, <3>1, <3>2 DEF FetchTypes
    <3>4. Pinned!NeverOtherBytes'
      BY <1>0, <2>1 DEF FetchTypes, Pinned!NeverOtherBytes
    <3>5. Checked' /\ Started'
      BY <1>0, <2>1 DEF FetchTypes, Checked, Started
    <3> QED BY <3>3, <3>4, <3>5
  <2>3. Alone'
    BY <1>0, <2>1 DEF Alone, FetchTypes
  <2>4. ASSUME NEW g \in Processes, ~company'[g], g # f PROVE fpc'[g] \in {"idle", "using"}
    BY <1>0, <2>1, <2>4 DEF Alone, FetchTypes
  <2>5. ~company'[f] => \A i \in 1..next[f] : pinCache'[Files[i]] = "right"
    <3> SUFFICES ASSUME ~company[f], NEW i \in 1..next[f] PROVE pinCache'[Files[i]] = "right"
      BY <1>0
    <3>1. pinCache' = [pinCache EXCEPT ![x] = "right"]
      BY <2>1 DEF Copied
    <3>2. Files[i] \in Pinned!Names /\ (Files[i] # x => i \in 1..next[f] - 1)
      BY <1>0, NamesOfFiles
    <3>3. Files[i] # x => pinCache[Files[i]] = "right"
      BY <2>1, <3>2 DEF Copied
    <3> QED BY <1>0, <3>1, <3>2, <3>3 DEF FetchTypes
  <2>6. (~company'[f] /\ next[f] = Len(Files)) => \A y \in Pinned!Names : pinCache'[y] = "right"
    BY <2>5 DEF Pinned!Names, FilesInOrder
  <2>7. (~company'[f] /\ next[f] # Len(Files)) => \A i \in 1..next'[f] - 1 : pinCache'[Files[i]] = "right"
    BY <1>0, <2>1, <2>5 DEF FetchTypes, FilesInOrder
  <2>8. Copied'
    <3>1. /\ fpc'[f] \in {"empty", "open"}
          /\ fpc'[f] = "open" => next[f] = Len(Files)
          /\ fpc'[f] = "empty" => next[f] # Len(Files)
      BY <2>1 DEF FetchTypes
    <3> QED BY <2>4, <2>6, <2>7, <3>1, OwnCopy
  <2> QED BY <2>2, <2>3, <2>8
<1> QED BY <1>1, <1>2

LEMMA DecayKeeps == ASSUME FilesInOrder, FetchInv, Pinned!Decay PROVE FetchInv'
<1> USE DEF FetchInv
<1>1. /\ UNCHANGED <<fpc, result, archive, temp, next, company, cutter>>
      /\ \A f \in Processes : fpc[f] = "idle"
      /\ \E x \in Pinned!Names, v \in {"cut", "absent"} : pinCache' = [pinCache EXCEPT ![x] = v]
  BY DEF Pinned!Decay, Pinned!mine
<1> QED
  BY <1>1 DEF FetchTypes, Pinned!NeverOtherBytes, Checked, Alone, Copied, Started

LEMMA FetchInvStep ==
  ASSUME FilesInOrder, FetchInv, [Pinned!FetchNext]_(Pinned!fetchVars)
  PROVE  FetchInv'
<1>1. CASE UNCHANGED Pinned!fetchVars
  BY <1>1 DEF Pinned!fetchVars, Pinned!mine, FetchInv, FetchTypes, Pinned!NeverOtherBytes, Checked,
              Alone, Copied, Started
<1>2. CASE Pinned!Decay
  BY <1>2, DecayKeeps
<1>3. ASSUME NEW f \in Processes, Pinned!Fetch(f) PROVE FetchInv'
  BY <1>3, FetchCallKeeps
<1>4. ASSUME NEW f \in Processes, Pinned!FetchStep(f) PROVE FetchInv'
  <2>1. Pinned!OpenInstalled(f) => FetchInv'
    BY ReturnKeeps DEF Pinned!OpenInstalled
  <2> QED BY <1>4, <2>1, PrepareKeeps, InstallKeeps, CopyKeeps DEF Pinned!FetchStep
<1>5. ASSUME NEW f \in Processes, Pinned!Killed(f) PROVE FetchInv'
  BY <1>5, ReturnKeeps DEF Pinned!Killed
<1> QED BY <1>1, <1>2, <1>3, <1>4, <1>5 DEF Pinned!FetchNext

LEMMA FetchInvAlways == EdgesSpec => []FetchInv
<1>1. FilesInOrder
  BY EdgesAssumption DEF FilesInOrder
<1>2. EdgesInit => FetchInv
  BY <1>1, FetchInvInit DEF EdgesInit, FilesInit
<1>3. FetchInv /\ [EdgesNext]_EdgesVars => FetchInv'
  BY <1>1, FetchInvStep, FilesSteps
<1> QED BY <1>2, <1>3, PTL DEF EdgesSpec, Steps

\* The cache never holds a byte that is not the pin's: Fetch compares the content with the
\* pin's checksum before the rename and before the copy, which are its only two writes.
THEOREM OnlyPinnedBytes == EdgesSpec => []Pinned!NeverOtherBytes
<1>1. FetchInv => Pinned!NeverOtherBytes
  BY DEF FetchInv
<1> QED BY <1>1, FetchInvAlways, PTL

\* No step but a kill takes a lone fetch from the last look at the cache without the dataset.
LEMMA AloneHeals ==
  FetchInv /\ [Pinned!FetchNext]_(Pinned!fetchVars) =>
    [\A f \in Processes :
       (Pinned!Where(f, "open") /\ ~Pinned!Where(f, "open")' /\ ~company[f])
         => result'[f] \in {"set", "killed"}]_(Pinned!fetchVars)
<1> SUFFICES ASSUME FetchInv, Pinned!FetchNext, NEW f \in Processes,
                    fpc[f] = "open", fpc'[f] # "open", ~company[f]
             PROVE  result'[f] \in {"set", "killed"}
  OBVIOUS
<1>1. PICK g \in Processes : Pinned!Fetch(g) \/ Pinned!FetchStep(g) \/ Pinned!Killed(g)
  BY DEF Pinned!FetchNext, Pinned!Decay
<1>2. g = f
  <2>1. CASE Pinned!Fetch(g) \/ Pinned!Killed(g)
    BY <2>1 DEF Pinned!Fetch, Pinned!Killed, Pinned!Finish, FetchInv, FetchTypes
  <2>2. CASE Pinned!FetchStep(g)
    BY <2>2 DEF Pinned!FetchStep, Pinned!Finish, Pinned!Download, Pinned!VerifyArchive,
                Pinned!Extract, Pinned!VerifyContent, Pinned!Install, Pinned!Empty, Pinned!Fill,
                Pinned!OpenInstalled, Pinned!Loaded, FetchInv, FetchTypes
  <2> QED BY <1>1, <2>1, <2>2
<1>3. Pinned!OpenInstalled(f) \/ Pinned!Killed(f)
  BY <1>1, <1>2 DEF Pinned!Fetch, Pinned!FetchStep, Pinned!Download, Pinned!VerifyArchive,
                    Pinned!Extract, Pinned!VerifyContent, Pinned!Install, Pinned!Empty, Pinned!Fill,
                    Pinned!Loaded
<1>4. CASE Pinned!OpenInstalled(f)
  <2>1. Pinned!Opens
    BY DEF FetchInv, Copied, Pinned!Opens
  <2> QED BY <1>4, <2>1 DEF Pinned!OpenInstalled, Pinned!Finish, FetchInv, FetchTypes
<1>5. CASE Pinned!Killed(f)
  BY <1>5 DEF Pinned!Killed, Pinned!Finish, FetchInv, FetchTypes
<1> QED BY <1>3, <1>4, <1>5

\* A fetch that had no company ends with the dataset once its content is verified, whatever
\* a killed one left in the cache: it writes every file over, and no other process' file
\* comes between (copyDir).
THEOREM TornCacheHeals == EdgesSpec => Pinned!TornHeals
  BY FetchInvAlways, AloneHeals, FilesSteps, PTL DEF EdgesSpec, Steps, Pinned!TornHeals

\* Both together are CacheIsThePin.
THEOREM CacheStaysThePin == EdgesSpec => CacheIsThePin
  BY OnlyPinnedBytes, TornCacheHeals, PTL DEF CacheIsThePin


-----------------------------------------------------------------------------
(* Result documents.                                                         *)

\* A run has an engine, its engines have an order, and half a file is not no file.
RunsHaveEngines ==
  /\ Len(Engines) \in Nat \ {0} /\ DOMAIN Engines = 1..Len(Engines)
  /\ Torn # "absent"

PathOf(w) == <<second[w], Engines[turn[w]]>>
Documents == {p \in Kept!Paths : Kept!Readable(p)}

PublishTypes ==
  /\ wpc \in [Processes -> {"idle", "create", "encode", "glob", "read", "empty", "list"}]
  /\ second \in [Processes -> {1, 2}] /\ turn \in [Processes -> 1..Len(Engines)]
  /\ found \in [Processes -> SUBSET Kept!Paths] /\ listed \in [Processes -> SUBSET Kept!Paths]
  /\ tree \in [Kept!Paths -> {"absent", Torn} \cup Processes]
  /\ disturbed \in [Processes -> BOOLEAN]

\* A document being encoded is in a file its process made, and nobody else is at that file.
OwnFile ==
  \A w \in Processes : Kept!On(w, "encode") =>
    /\ tree[PathOf(w)] = Torn
    /\ \A v \in Processes \ {w} : Kept!On(v, "encode") => PathOf(v) # PathOf(w)

\* What is listed is a document; undisturbed, what is not listed yet is still to be read,
\* and an index emptied is empty.
Listing ==
  /\ INDEX # Torn => INDEX \subseteq Documents
  /\ \A w \in Processes : listed[w] \subseteq Documents
  /\ \A w \in Processes : ~disturbed[w] =>
       /\ Kept!On(w, "read") => Documents \subseteq listed[w] \cup found[w]
       /\ Kept!On(w, "empty") \/ Kept!On(w, "list") => Documents \subseteq listed[w]
       /\ Kept!On(w, "list") => INDEX = Torn

PublishInv == PublishTypes /\ OwnFile /\ Listing

LEMMA PathsOfWriters ==
  ASSUME RunsHaveEngines, PublishTypes
  PROVE  \A w \in Processes : PathOf(w) \in Kept!Paths
  BY DEF RunsHaveEngines, PublishTypes, PathOf, Kept!Paths

LEMMA PublishInit == ASSUME RunsHaveEngines, Kept!LineageInit PROVE PublishInv
<1>1. PublishTypes
  BY DEF RunsHaveEngines, Kept!LineageInit, PublishTypes
<1>2. OwnFile
  BY DEF Kept!LineageInit, OwnFile, Kept!On
<1>3. Listing
  BY DEF Kept!LineageInit, Listing, Kept!On, Documents, Kept!Readable
<1> QED BY <1>1, <1>2, <1>3 DEF PublishInv

\* What Onward leaves of a run.
LEMMA OnwardTo ==
  ASSUME RunsHaveEngines, PublishTypes, NEW w \in Processes, Kept!Onward(w)
  PROVE  /\ \E s \in {"create", "glob", "idle"} : wpc' = [wpc EXCEPT ![w] = s]
         /\ turn' \in [Processes -> 1..Len(Engines)]
         /\ \A v \in Processes \ {w} : turn'[v] = turn[v]
  BY DEF RunsHaveEngines, PublishTypes, Kept!Onward, Kept!To

\* A step that puts no document and no index on the disk, and leaves its process elsewhere
\* than in the making of either, keeps the rest.
LEMMA Aside ==
  ASSUME PublishInv, NEW w \in Processes, PublishTypes',
         wpc'[w] \in {"idle", "create", "glob"},
         \A v \in Processes \ {w} : /\ wpc'[v] = wpc[v] /\ second'[v] = second[v] /\ turn'[v] = turn[v]
                                    /\ found'[v] = found[v] /\ disturbed'[v] = disturbed[v],
         UNCHANGED <<listed, tree, INDEX>>
  PROVE  PublishInv'
<1>1. OwnFile'
  BY DEF PublishInv, OwnFile, Kept!On, PathOf
<1>2. Listing'
  BY DEF PublishInv, Listing, Kept!On, Documents, Kept!Readable
<1> QED BY <1>1, <1>2 DEF PublishInv

LEMMA BeginKeeps ==
  ASSUME RunsHaveEngines, PublishInv, NEW w \in Processes, Kept!Begin(w)
  PROVE  PublishInv'
<1>1. PublishTypes'
  BY DEF RunsHaveEngines, PublishInv, PublishTypes, Kept!Begin, Kept!To
<1>2. /\ wpc'[w] = "create"
      /\ \A v \in Processes \ {w} : /\ wpc'[v] = wpc[v] /\ second'[v] = second[v] /\ turn'[v] = turn[v]
                                    /\ found'[v] = found[v] /\ disturbed'[v] = disturbed[v]
      /\ UNCHANGED <<listed, tree, INDEX>>
  BY DEF PublishInv, PublishTypes, Kept!Begin, Kept!To
<1> QED BY <1>1, <1>2, Aside

LEMMA CreateKeeps ==
  ASSUME RunsHaveEngines, PublishInv, NEW w \in Processes, Kept!Create(w)
  PROVE  PublishInv'
<1>0. PublishTypes /\ PathOf(w) \in Kept!Paths
  BY PathsOfWriters DEF PublishInv
<1>1. CASE /\ tree[PathOf(w)] = "absent" /\ tree' = [tree EXCEPT ![PathOf(w)] = Torn]
           /\ Kept!To(w, "encode") /\ UNCHANGED turn
  <2>1. /\ wpc' = [wpc EXCEPT ![w] = "encode"]
        /\ UNCHANGED <<second, turn, found, listed, INDEX, disturbed>>
    BY <1>1 DEF Kept!Create, Kept!To
  <2>2. PublishTypes'
    BY <1>0, <1>1, <2>1 DEF PublishTypes
  <2>3. tree'[PathOf(w)] = Torn /\ \A p \in Kept!Paths \ {PathOf(w)} : tree'[p] = tree[p]
    BY <1>0, <1>1 DEF PublishTypes
  <2>4. \A v \in Processes : PathOf(v)' = PathOf(v)
    BY <2>1 DEF PathOf
  <2>5. \A v \in Processes \ {w} : Kept!On(v, "encode") => PathOf(v) # PathOf(w)
    BY <1>1 DEF PublishInv, OwnFile, RunsHaveEngines
  <2>6. \A v \in Processes : PathOf(v) \in Kept!Paths
    BY <1>0, PathsOfWriters
  <2>7. OwnFile'
    BY <1>0, <2>1, <2>3, <2>4, <2>5, <2>6 DEF PublishInv, PublishTypes, OwnFile, Kept!On
  <2>8. Documents' = Documents
    BY <1>1, <2>3 DEF Documents, Kept!Readable
  <2>9. Listing'
    BY <1>0, <2>1, <2>8 DEF PublishInv, PublishTypes, Listing, Kept!On
  <2> QED BY <2>2, <2>7, <2>9 DEF PublishInv
<1>2. CASE tree' = tree /\ Kept!Onward(w)
  <2>1. UNCHANGED <<second, found, listed, tree, INDEX, disturbed>>
    BY <1>2 DEF Kept!Create
  <2>2. PublishTypes'
    BY <1>0, <1>2, <2>1, OnwardTo DEF PublishTypes
  <2> QED BY <1>0, <1>2, <2>1, <2>2, OnwardTo, Aside DEF PublishTypes
<1> QED BY <1>1, <1>2 DEF Kept!Create, PathOf

LEMMA EncodeKeeps ==
  ASSUME RunsHaveEngines, PublishInv, NEW w \in Processes, Kept!Encode(w)
  PROVE  PublishInv'
<1>0. PublishTypes /\ PathOf(w) \in Kept!Paths
  BY PathsOfWriters DEF PublishInv
<1>1. /\ UNCHANGED <<second, found, listed, INDEX>> /\ Kept!Onward(w) /\ Kept!On(w, "encode")
      /\ disturbed' = [v \in Processes |-> disturbed[v] \/ v # w]
      /\ tree' = tree \/ tree' = [tree EXCEPT ![PathOf(w)] = w]
  BY DEF Kept!Encode, Kept!Disturb, PathOf
<1>2. PublishTypes'
  <2>1. tree' \in [Kept!Paths -> {"absent", Torn} \cup Processes]
    BY <1>0, <1>1 DEF PublishTypes
  <2>2. disturbed' \in [Processes -> BOOLEAN]
    BY <1>0, <1>1 DEF PublishTypes
  <2>3. PICK s \in {"create", "glob", "idle"} : wpc' = [wpc EXCEPT ![w] = s]
    BY <1>0, <1>1, OnwardTo
  <2>4. turn' \in [Processes -> 1..Len(Engines)]
    BY <1>0, <1>1, OnwardTo
  <2> QED BY <1>0, <1>1, <2>1, <2>2, <2>3, <2>4 DEF PublishTypes
<1>3. \A p \in Kept!Paths \ {PathOf(w)} : tree'[p] = tree[p]
  BY <1>0, <1>1 DEF PublishTypes
<1>4. /\ wpc'[w] \in {"create", "glob", "idle"}
      /\ \A v \in Processes \ {w} : wpc'[v] = wpc[v] /\ PathOf(v)' = PathOf(v) /\ disturbed'[v]
  <2>1. PICK s \in {"create", "glob", "idle"} : wpc' = [wpc EXCEPT ![w] = s]
    BY <1>0, <1>1, OnwardTo
  <2>2. wpc'[w] \in {"create", "glob", "idle"} /\ \A v \in Processes \ {w} : wpc'[v] = wpc[v]
    BY <1>0, <2>1 DEF PublishTypes
  <2>3. \A v \in Processes \ {w} : turn'[v] = turn[v]
    BY <1>0, <1>1, OnwardTo
  <2>4. \A v \in Processes \ {w} : PathOf(v)' = PathOf(v) /\ disturbed'[v]
    BY <1>1, <2>3 DEF PathOf
  <2> QED BY <2>2, <2>4
<1>5. OwnFile'
  <2> SUFFICES ASSUME NEW v \in Processes, Kept!On(v, "encode")'
               PROVE  /\ tree'[PathOf(v)'] = Torn
                      /\ \A u \in Processes \ {v} : Kept!On(u, "encode")' => PathOf(u)' # PathOf(v)'
    BY DEF OwnFile
  <2>1. v # w /\ Kept!On(v, "encode") /\ PathOf(v)' = PathOf(v)
    BY <1>4 DEF Kept!On
  <2>2. PathOf(v) # PathOf(w) /\ tree[PathOf(v)] = Torn /\ PathOf(v) \in Kept!Paths
    BY <1>0, <1>1, <2>1, PathsOfWriters DEF PublishInv, OwnFile
  <2>3. \A u \in Processes \ {v} : Kept!On(u, "encode")' => u # w /\ Kept!On(u, "encode") /\ PathOf(u)' = PathOf(u)
    BY <1>4 DEF Kept!On
  <2> QED BY <1>3, <2>1, <2>2, <2>3 DEF PublishInv, OwnFile
<1>6. Documents \subseteq Documents'
  <2>1. PathOf(w) \notin Documents
    BY <1>1 DEF PublishInv, OwnFile, Documents, Kept!Readable
  <2> QED BY <1>3, <2>1 DEF Documents, Kept!Readable
<1>7. Listing'
  BY <1>1, <1>4, <1>6 DEF PublishInv, Listing, Kept!On
<1> QED BY <1>2, <1>5, <1>7 DEF PublishInv

LEMMA IndexKeeps ==
  ASSUME RunsHaveEngines, PublishInv, NEW w \in Processes,
         Kept!Glob(w) \/ Kept!ReadNext(w) \/ Kept!EmptyIndex(w) \/ Kept!WriteIndex(w)
  PROVE  PublishInv'
<1>0. PublishTypes
  BY DEF PublishInv
<1>1. /\ UNCHANGED <<second, turn, tree>>
      /\ \E s \in {"read", "empty", "list", "idle"} : wpc' = [wpc EXCEPT ![w] = s]
  BY <1>0 DEF Kept!Glob, Kept!ReadNext, Kept!EmptyIndex, Kept!WriteIndex, Kept!To, Kept!On,
              PublishTypes
<1>2. OwnFile'
  BY <1>0, <1>1 DEF PublishInv, PublishTypes, OwnFile, Kept!On, PathOf
<1>3. Documents' = Documents /\ \A v \in Processes \ {w} : wpc'[v] = wpc[v]
  BY <1>0, <1>1 DEF Documents, Kept!Readable, PublishTypes
<1>4. CASE Kept!Glob(w)
  <2>1. /\ wpc' = [wpc EXCEPT ![w] = "read"] /\ INDEX' = INDEX
        /\ found' = [found EXCEPT ![w] = {p \in Kept!Paths : tree[p] # "absent"}]
        /\ listed' = [listed EXCEPT ![w] = {}]
        /\ disturbed' = [disturbed EXCEPT ![w] = FALSE]
    BY <1>4 DEF Kept!Glob, Kept!To
  <2>2. PublishTypes'
    BY <1>0, <1>1, <2>1 DEF PublishTypes
  <2>3. Documents \subseteq found'[w]
    BY <1>0, <2>1 DEF Documents, Kept!Readable, PublishTypes
  <2>4. Listing'
    BY <1>0, <1>3, <2>1, <2>3 DEF PublishInv, PublishTypes, Listing, Kept!On
  <2> QED BY <1>2, <2>2, <2>4 DEF PublishInv
<1>5. CASE Kept!ReadNext(w)
  <2>1. UNCHANGED <<INDEX, disturbed>> /\ wpc[w] = "read"
    BY <1>5 DEF Kept!ReadNext, Kept!On
  <2>2. CASE found[w] = {} /\ Kept!To(w, "empty") /\ UNCHANGED <<found, listed>>
    <3>1. PublishTypes'
      BY <1>0, <1>1, <2>1, <2>2 DEF PublishTypes, Kept!To
    <3>2. Listing'
      BY <1>0, <1>3, <2>1, <2>2 DEF PublishInv, PublishTypes, Listing, Kept!On, Kept!To
    <3> QED BY <1>2, <3>1, <3>2 DEF PublishInv
  <2>3. CASE found[w] # {} /\ wpc' = wpc
    <3> DEFINE p == CHOOSE p \in found[w] : TRUE
    <3>1. /\ p \in found[w] /\ p \in Kept!Paths
          /\ found' = [found EXCEPT ![w] = found[w] \ {p}]
          /\ listed' = [listed EXCEPT ![w] = listed[w] \cup {q \in {p} : Kept!Readable(q)}]
      BY <1>0, <1>5, <2>3 DEF Kept!ReadNext, PublishTypes, Kept!To, Kept!On
    <3> HIDE DEF p
    <3>2. PublishTypes'
      BY <1>0, <1>1, <2>1, <2>3, <3>1 DEF PublishTypes
    <3>3. /\ listed'[w] \subseteq Documents
          /\ Documents \subseteq listed[w] \cup found[w] => Documents \subseteq listed'[w] \cup found'[w]
      BY <1>0, <3>1 DEF PublishInv, PublishTypes, Listing, Documents
    <3>4. \A v \in Processes \ {w} : listed'[v] = listed[v] /\ found'[v] = found[v]
      BY <1>0, <3>1 DEF PublishTypes
    <3>5. Listing'
      BY <1>3, <2>1, <2>3, <3>3, <3>4 DEF PublishInv, Listing, Kept!On
    <3> QED BY <1>2, <3>2, <3>5 DEF PublishInv
  <2> QED BY <1>5, <2>2, <2>3 DEF Kept!ReadNext
<1>6. CASE Kept!EmptyIndex(w)
  <2>1. /\ wpc' = [wpc EXCEPT ![w] = "list"] /\ wpc[w] = "empty" /\ INDEX' = Torn
        /\ UNCHANGED <<found, listed>>
        /\ disturbed' = [v \in Processes |-> disturbed[v] \/ v # w]
    BY <1>6 DEF Kept!EmptyIndex, Kept!To, Kept!On, Kept!Disturb
  <2>2. PublishTypes'
    BY <1>0, <1>1, <2>1 DEF PublishTypes
  <2>3. Listing'
    BY <1>0, <1>3, <2>1 DEF PublishInv, PublishTypes, Listing, Kept!On
  <2> QED BY <1>2, <2>2, <2>3 DEF PublishInv
<1>7. CASE Kept!WriteIndex(w)
  <2>1. /\ wpc' = [wpc EXCEPT ![w] = "idle"] /\ INDEX' \in {listed[w], Torn}
        /\ UNCHANGED <<found, listed>>
        /\ disturbed' = [v \in Processes |-> disturbed[v] \/ v # w]
    BY <1>7 DEF Kept!WriteIndex, Kept!To, Kept!Disturb, Kept!Written
  <2>2. PublishTypes'
    BY <1>0, <1>1, <2>1 DEF PublishTypes
  <2>3. Listing'
    BY <1>0, <1>3, <2>1 DEF PublishInv, PublishTypes, Listing, Kept!On
  <2> QED BY <1>2, <2>2, <2>3 DEF PublishInv
<1> QED BY <1>4, <1>5, <1>6, <1>7

LEMMA PublishStep ==
  ASSUME RunsHaveEngines, PublishInv, [Kept!PublishNext]_(Kept!lineageVars)
  PROVE  PublishInv'
<1>1. CASE UNCHANGED Kept!lineageVars
  BY <1>1 DEF Kept!lineageVars, PublishInv, PublishTypes, OwnFile, Listing, Kept!On, PathOf,
              Documents, Kept!Readable
<1>2. ASSUME NEW w \in Processes, Kept!Publish(w) PROVE PublishInv'
  BY <1>2, BeginKeeps, CreateKeeps, EncodeKeeps, IndexKeeps DEF Kept!Publish
<1>3. ASSUME NEW w \in Processes, Kept!Kill(w) PROVE PublishInv'
  <2>1. /\ wpc' = [wpc EXCEPT ![w] = "idle"]
        /\ UNCHANGED <<second, turn, found, listed, tree, INDEX, disturbed>>
    BY <1>3 DEF Kept!Kill, Kept!To
  <2>2. PublishTypes'
    BY <2>1 DEF PublishInv, PublishTypes
  <2> QED BY <2>1, <2>2, Aside DEF PublishInv, PublishTypes
<1> QED BY <1>1, <1>2, <1>3 DEF Kept!PublishNext

\* What one step of a run does to documents and the index.
LEMMA StepKeepsLineage ==
  PublishInv /\ PublishInv' /\ [Kept!PublishNext]_(Kept!lineageVars) =>
    [/\ \A p \in Kept!Paths : Kept!Readable(p) => tree'[p] = tree[p]
     /\ INDEX' # Torn => \A p \in INDEX' : Kept!Readable(p)'
     /\ \A w \in Processes :
          (Kept!On(w, "list") /\ ~Kept!On(w, "list")' /\ ~disturbed[w] /\ INDEX' # INDEX) => INDEX' = {p \in Kept!Paths : Kept!Readable(p)}]_(Kept!lineageVars)
<1> SUFFICES ASSUME PublishInv, PublishInv', Kept!PublishNext
             PROVE  /\ \A p \in Kept!Paths : Kept!Readable(p) => tree'[p] = tree[p]
                    /\ INDEX' # Torn => \A p \in INDEX' : Kept!Readable(p)'
                    /\ \A w \in Processes :
                         (Kept!On(w, "list") /\ ~Kept!On(w, "list")' /\ ~disturbed[w] /\ INDEX' # INDEX)
                           => INDEX' = {p \in Kept!Paths : Kept!Readable(p)}
  OBVIOUS
<1>1. PICK v \in Processes : Kept!Publish(v) \/ Kept!Kill(v)
  BY DEF Kept!PublishNext
<1>2. ASSUME NEW p \in Kept!Paths, Kept!Readable(p) PROVE tree'[p] = tree[p]
  <2>1. Kept!Create(v) \/ Kept!Encode(v) \/ tree' = tree
    BY <1>1 DEF Kept!Publish, Kept!Kill, Kept!Begin, Kept!Glob, Kept!ReadNext, Kept!EmptyIndex,
                Kept!WriteIndex
  <2>2. Kept!Create(v) => \/ tree' = tree
                          \/ tree[PathOf(v)] = "absent" /\ tree' = [tree EXCEPT ![PathOf(v)] = Torn]
    BY DEF Kept!Create, PathOf
  <2>3. Kept!Encode(v) => \/ tree' = tree
                          \/ tree[PathOf(v)] = Torn /\ tree' = [tree EXCEPT ![PathOf(v)] = v]
    BY DEF Kept!Encode, PathOf, PublishInv, OwnFile
  <2> QED BY <1>2, <2>1, <2>2, <2>3 DEF Kept!Readable, PublishInv, PublishTypes
<1>3. INDEX' # Torn => \A p \in INDEX' : Kept!Readable(p)'
  BY DEF PublishInv, Listing, Documents
<1>4. ASSUME NEW w \in Processes, Kept!On(w, "list"), ~Kept!On(w, "list")', ~disturbed[w], INDEX' # INDEX
      PROVE  INDEX' = {p \in Kept!Paths : Kept!Readable(p)}
  <2>1. Kept!EmptyIndex(v) \/ Kept!WriteIndex(v)
    BY <1>1, <1>4 DEF Kept!Publish, Kept!Kill, Kept!Begin, Kept!Create, Kept!Encode, Kept!Glob,
                      Kept!ReadNext
  <2>2. v = w
    BY <1>4, <2>1 DEF Kept!EmptyIndex, Kept!WriteIndex, Kept!To, Kept!On, PublishInv, PublishTypes
  <2>3. Kept!WriteIndex(w)
    BY <1>4, <2>1, <2>2 DEF Kept!EmptyIndex, Kept!On
  <2>4. INDEX = Torn /\ listed[w] = Documents
    BY <1>4 DEF PublishInv, Listing
  <2> QED BY <2>3, <2>4 DEF Kept!WriteIndex, Kept!Written, Documents
<1> QED BY <1>2, <1>3, <1>4
-----------------------------------------------------------------------------
(* The pools beside a dataset.                                               *)

\* Undisturbed, a curation about to write has every pool of the file, and finds the file as
\* it emptied it.
MergeInv ==
  /\ wpc \in [Processes -> {"idle", "cut", "save"}]
  /\ disturbed \in [Processes -> BOOLEAN]
  /\ DOMAIN merged = Processes /\ merged = [w \in Processes |-> merged[w]]
  /\ \A w \in Processes : ~disturbed[w] =>
       /\ (Kept!On(w, "cut") /\ params \notin Kept!Empty) =>
            \A k \in DOMAIN params : k \in DOMAIN merged[w] /\ merged[w][k] \in {params[k], w}
       /\ Kept!On(w, "save") => params = Torn

LEMMA MergeInit == Kept!LineageInit => MergeInv
  BY DEF Kept!LineageInit, MergeInv, Kept!On

LEMMA MergeStep == ASSUME MergeInv, [Kept!CurateNext]_(Kept!lineageVars) PROVE MergeInv'
<1>1. CASE UNCHANGED Kept!lineageVars
  BY <1>1 DEF Kept!lineageVars, Kept!pools, MergeInv, Kept!On, Kept!Empty
<1>2. ASSUME NEW w \in Processes, Kept!Merge(w) PROVE MergeInv'
  <2> DEFINE kept == IF params \in Kept!Empty THEN [k \in {} |-> w] ELSE params
  <2>1. PICK X \in SUBSET Keys :
          merged' = [merged EXCEPT ![w] = [k \in DOMAIN kept \cup X |-> IF k \in X THEN w ELSE kept[k]]]
    BY <1>2 DEF Kept!Merge
  <2>2. /\ wpc' = [wpc EXCEPT ![w] = "cut"] /\ params' = params
        /\ disturbed' = [disturbed EXCEPT ![w] = params = Torn]
    BY <1>2 DEF Kept!Merge, Kept!To
  <2>3. params \notin Kept!Empty =>
          \A k \in DOMAIN params : k \in DOMAIN merged'[w] /\ merged'[w][k] \in {params[k], w}
    BY <2>1 DEF MergeInv
  <2>4. \A v \in Processes \ {w} : merged'[v] = merged[v] /\ wpc'[v] = wpc[v] /\ disturbed'[v] = disturbed[v]
    BY <2>1, <2>2 DEF MergeInv
  <2>5. DOMAIN merged' = Processes /\ merged' = [v \in Processes |-> merged'[v]]
    BY <2>1 DEF MergeInv
  <2>6. wpc' \in [Processes -> {"idle", "cut", "save"}] /\ disturbed' \in [Processes -> BOOLEAN] /\ wpc'[w] = "cut"
    BY <2>2 DEF MergeInv
  <2> HIDE DEF kept
  <2> QED BY <2>2, <2>3, <2>4, <2>5, <2>6 DEF MergeInv, Kept!On, Kept!Empty
<1>3. ASSUME NEW w \in Processes, Kept!EmptyParams(w) \/ Kept!WriteParams(w) PROVE MergeInv'
  <2>1. /\ \E s \in {"save", "idle"} : wpc' = [wpc EXCEPT ![w] = s] /\ (s = "save" => params' = Torn)
        /\ disturbed' = [v \in Processes |-> disturbed[v] \/ v # w] /\ merged' = merged
    BY <1>3 DEF Kept!EmptyParams, Kept!WriteParams, Kept!To, Kept!Disturb
  <2> QED BY <2>1 DEF MergeInv, Kept!On
<1>4. ASSUME NEW w \in Processes, Kept!Kill(w) PROVE MergeInv'
  <2>1. wpc' = [wpc EXCEPT ![w] = "idle"] /\ UNCHANGED <<merged, params, disturbed>>
    BY <1>4 DEF Kept!Kill, Kept!To, Kept!pools
  <2> QED BY <2>1 DEF MergeInv, Kept!On, Kept!Empty
<1> QED BY <1>1, <1>2, <1>3, <1>4 DEF Kept!CurateNext, Kept!Curate

\* What one step of a curation does to the pools.
LEMMA StepKeepsPools ==
  MergeInv /\ [Kept!CurateNext]_(Kept!lineageVars) =>
    [\A w \in Processes : ~disturbed[w] =>
       /\ (Kept!On(w, "cut") /\ params \notin Kept!Empty) =>
            \A k \in DOMAIN params : k \in DOMAIN merged[w] /\ merged[w][k] \in {params[k], w}
       /\ (Kept!On(w, "save") /\ ~Kept!On(w, "save")' /\ params' # params) => params' = merged[w]]_(Kept!lineageVars)
<1> SUFFICES ASSUME MergeInv, Kept!CurateNext, NEW w \in Processes, ~disturbed[w]
             PROVE  (Kept!On(w, "save") /\ ~Kept!On(w, "save")' /\ params' # params) => params' = merged[w]
  BY DEF MergeInv
<1> SUFFICES ASSUME Kept!On(w, "save"), ~Kept!On(w, "save")', params' # params PROVE params' = merged[w]
  OBVIOUS
<1>1. PICK v \in Processes : Kept!EmptyParams(v) \/ Kept!WriteParams(v)
  BY DEF Kept!CurateNext, Kept!Curate, Kept!Merge, Kept!Kill, Kept!pools
<1>2. v = w
  BY <1>1 DEF Kept!EmptyParams, Kept!WriteParams, Kept!To, Kept!On, MergeInv
<1>3. Kept!WriteParams(w)
  BY <1>1, <1>2 DEF Kept!EmptyParams, Kept!On
<1> QED BY <1>3 DEF Kept!WriteParams, Kept!Written, MergeInv

-----------------------------------------------------------------------------
(* The processes that publish and those that curate share no file.           *)

KeptInv ==
  /\ part = "publish" => PublishInv
  /\ part # "publish" => MergeInv /\ INDEX = {}

LEMMA KeptAlways == EdgesSpec => []KeptInv
<1>1. RunsHaveEngines
  BY EdgesAssumption DEF RunsHaveEngines
<1>2. EdgesInit => KeptInv
  BY <1>1, PublishInit, MergeInit DEF EdgesInit, FilesInit, KeptInv, Kept!LineageInit
<1>3. KeptInv /\ [EdgesNext]_EdgesVars => KeptInv'
  <2> SUFFICES ASSUME KeptInv, [EdgesNext]_EdgesVars PROVE KeptInv'
    OBVIOUS
  <2>1. part' = part
    BY FilesSteps
  <2>2. CASE part = "publish"
    BY <1>1, <2>1, <2>2, PublishStep, FilesSteps DEF KeptInv
  <2>3. CASE part # "publish"
    <3>1. [Kept!CurateNext]_(Kept!lineageVars)
      BY <2>3, FilesSteps
    <3>2. INDEX' = INDEX
      BY <3>1 DEF Kept!CurateNext, Kept!Curate, Kept!Merge, Kept!EmptyParams, Kept!WriteParams,
                  Kept!Kill, Kept!lineageVars
    <3> QED BY <2>1, <2>3, <3>1, <3>2, MergeStep DEF KeptInv
  <2> QED BY <2>2, <2>3
<1> QED BY <1>2, <1>3, PTL DEF EdgesSpec, Steps

\* The lineage is only ever added to: a document reads the same for ever (O_EXCL makes its
\* file its process' own), an index names documents only, and all of them when nobody wrote
\* beside it (UpdateIndex reads every path there is).
THEOREM LineageIsAppendOnly == EdgesSpec => Kept!LineageIsKept
<1> DEFINE Kept1 ==
      /\ \A p \in Kept!Paths : Kept!Readable(p) => tree'[p] = tree[p]
      /\ INDEX' # Torn => \A p \in INDEX' : Kept!Readable(p)'
      /\ \A w \in Processes :
           (Kept!On(w, "list") /\ ~Kept!On(w, "list")' /\ ~disturbed[w] /\ INDEX' # INDEX)
             => INDEX' = {p \in Kept!Paths : Kept!Readable(p)}
<1>1. KeptInv /\ KeptInv' /\ [EdgesNext]_EdgesVars => [Kept1]_(Kept!lineageVars)
  <2> SUFFICES ASSUME KeptInv, KeptInv', [EdgesNext]_EdgesVars PROVE [Kept1]_(Kept!lineageVars)
    OBVIOUS
  <2>1. part' = part
    BY FilesSteps
  <2>2. CASE part = "publish"
    BY <2>1, <2>2, FilesSteps, StepKeepsLineage DEF KeptInv
  <2>3. CASE part # "publish"
    <3>1. [Kept!CurateNext]_(Kept!lineageVars)
      BY <2>3, FilesSteps
    <3>2. INDEX' = {} /\ INDEX = {} /\ \A w \in Processes : ~Kept!On(w, "list")
      BY <2>1, <2>3 DEF KeptInv, MergeInv, Kept!On
    <3>3. Kept!CurateNext => tree' = tree
      BY DEF Kept!CurateNext, Kept!Curate, Kept!Merge, Kept!EmptyParams, Kept!WriteParams, Kept!Kill
    <3> QED BY <3>1, <3>2, <3>3
  <2> QED BY <2>2, <2>3
<1> QED BY <1>1, KeptAlways, PTL DEF EdgesSpec, Steps, Kept!LineageIsKept

\* A curation that found a whole file and had it to itself loses no pool and saves what it
\* merged (WriteParamsPool keeps the keys it was not asked for).
THEOREM NoPoolIsLost == EdgesSpec => Kept!PoolsSurvive
<1> DEFINE Kept1 ==
      \A w \in Processes : ~disturbed[w] =>
        /\ (Kept!On(w, "cut") /\ params \notin Kept!Empty) =>
             \A k \in DOMAIN params : k \in DOMAIN merged[w] /\ merged[w][k] \in {params[k], w}
        /\ (Kept!On(w, "save") /\ ~Kept!On(w, "save")' /\ params' # params) => params' = merged[w]
<1>1. KeptInv /\ [EdgesNext]_EdgesVars => [Kept1]_(Kept!lineageVars)
  <2> SUFFICES ASSUME KeptInv, [EdgesNext]_EdgesVars PROVE [Kept1]_(Kept!lineageVars)
    OBVIOUS
  <2>1. CASE part = "publish"
    BY <2>1 DEF KeptInv, PublishInv, PublishTypes, Kept!On
  <2>2. CASE part # "publish"
    BY <2>2, FilesSteps, StepKeepsPools DEF KeptInv
  <2> QED BY <2>1, <2>2
<1> QED BY <1>1, KeptAlways, PTL DEF EdgesSpec, Steps, Kept!PoolsSurvive

\* Both together are SharedFilesSurvive.
THEOREM SharedFilesKept == EdgesSpec => SharedFilesSurvive
  BY LineageIsAppendOnly, NoPoolIsLost, PTL DEF SharedFilesSurvive

================================================================================
