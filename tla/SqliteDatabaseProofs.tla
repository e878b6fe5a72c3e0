------------------------- MODULE SqliteDatabaseProofs -------------------------
(***************************************************************************)
(* The reads, cursors and checks that share a pool keep to their own       *)
(* connections, so that what is proved of each kind holds where all kinds  *)
(* meet, whatever the handles do: for any number of calls of each kind,    *)
(* connections, catalogs and files.                                        *)
(***************************************************************************)
EXTENDS SqliteDatabase, SourceRowsProofs, SourceConstraintsProofs, FiniteSetTheorems

\* The invariant of the reads and cursors, and that of the checks.
SharedInv == CursorInv /\ ChecksInv

\* Only connections that are free, or of calls of P, change hands, and only so.
Among(P) ==
    \A c \in Conns :
        \/ owner'[c] = owner[c]
        \/ owner[c] \in P \cup {Nobody} /\ owner'[c] \in P \cup {Nobody}

LEMMA Apart ==
    /\ Nobody \notin Readers /\ Nobody \notin Checkers /\ NoConn \notin Conns
    /\ Readers \cap Checkers = {}
  BY SchemaReaderAssumption, SourceConstraintsAssumption, ConnPoolAssumption,
     SqliteDatabaseAssumption

-----------------------------------------------------------------------------
(* Each kind leaves the connections of the other alone.                    *)

\* A read takes a connection that is free and gives back its own: Take, CloseRows,
\* FreeConn and Leave are the steps that touch one.
LEMMA ReadsKeepToTheirOwn ==
    ASSUME CursorInv, NEW r \in Readers, Progress(r) \/ Fault(r) \/ Cancel(r) \/ CursorStep(r)
    PROVE  Among(Readers)
  <1>1. /\ \A c \in Conns : owner[c] = r <=> c = on[r] \/ c = lease[r]
        /\ owner \in [Conns -> Calls \cup {Nobody}]
    BY DEF CursorInv, PoolInv, HoldingInv, PoolTypeOK
  <1>2. ASSUME CloseRows(r) PROVE Among(Readers)
    BY <1>1, <1>2 DEF CloseRows, GiveBack, Among
  <1>3. ASSUME NEW c \in Conns, Take(r, c) PROVE Among(Readers)
    BY <1>1, <1>3 DEF Take, Among
  <1>4. ASSUME owner' = owner PROVE Among(Readers)
    BY <1>4 DEF Among
  <1>5. CASE Begin(r) \/ HoldConn(r)
    BY <1>3, <1>4, <1>5 DEF Begin, HoldConn
  <1>6. CASE Drain(r) \/ Fault(r) \/ Interrupt(r) \/ NextEOF(r) \/ NextFails(r) \/ RowsOver(r)
             \/ CloseCursor(r)
    BY <1>2, <1>4, <1>6 DEF Drain, Fault, Interrupt, Fail, NextEOF, NextFails, RowsOver, EndRows,
                            CloseCursor
  <1>7. CASE FreeConn(r) \/ Leave(r)
    BY <1>1, <1>7 DEF FreeConn, Leave, GiveBack, Among
  <1>8. CASE Refuse(r) \/ Finish(r) \/ Cancel(r) \/ OpenSourceRows(r) \/ NextRow(r)
             \/ CancelCursor(r) \/ NextClosed(r)
    BY <1>4, <1>8 DEF Refuse, Finish, Cancel, OpenSourceRows, NextRow, CancelCursor, NextClosed, rvars,
                      poolVars
  <1> QED
    BY <1>5, <1>6, <1>7, <1>8 DEF Progress, CursorStep

\* A check takes one connection that is free and gives that one back.
LEMMA ChecksKeepToTheirOwn ==
    ASSUME ChecksInv, NEW k \in Checkers, Check(k) \/ CheckRun(k)
    PROVE  Among(Checkers)
  <1>1. owner \in [Conns -> Calls \cup {Nobody}]
    BY DEF ChecksInv, CheckTypeOK, PoolTypeOK
  <1>2. CASE CheckConn(k)
    BY <1>1, <1>2 DEF CheckConn, Take, Among
  <1>3. CASE CloseCheckConn(k)
    <2>1. owner[conn[k]] = k /\ owner' = [c \in Conns |-> IF c = conn[k] THEN Nobody ELSE owner[c]]
      BY <1>3, HeldConn DEF CloseCheckConn, At, Holding, GiveBack
    <2> QED BY <2>1 DEF Among
  <1>4. CASE owner' = owner
    BY <1>4 DEF Among
  <1> QED
    BY <1>2, <1>3, <1>4 DEF Check, CheckRun, CheckStep, CheckRead, CheckOff, CheckIntegrity,
       IntegrityViolated, CheckForeignKeys, ForeignKeysRead, CloseCheckRows, Restore, CheckConnFails,
       CancelCheck, CheckOffFails, CheckFails, RestoreFails, poolVars

-----------------------------------------------------------------------------
(* And keeps the other's invariant.                                        *)

LEMMA ReadsUndisturbed ==
    ASSUME CursorInv, UNCHANGED readerVars, PoolTypeOK', Among(Checkers)
    PROVE  CursorInv'
  <1>1. UNCHANGED <<rpc, on, lease, call, cursor>>
    BY DEF readerVars
  <1>2. ASSUME NEW r \in Readers PROVE HoldingInv(r)'
    <2>1. \A c \in Conns : owner'[c] = r <=> owner[c] = r
      BY Apart DEF Among
    <2> QED BY <1>1, <2>1 DEF CursorInv, PoolInv, HoldingInv
  <1>3. ASSUME NEW r \in Readers PROVE CallInv(r)'
    BY <1>1 DEF CursorInv, PoolInv, CallInv, Query
  <1>4. PoolInv'
    BY <1>1, <1>2, <1>3 DEF CursorInv, PoolInv
  <1> QED
    BY <1>1, <1>4 DEF CursorInv, RowsInv

LEMMA ChecksUndisturbed ==
    ASSUME ChecksInv, UNCHANGED checkerVars, PoolTypeOK', Among(Readers)
    PROVE  ChecksInv'
  <1>1. UNCHANGED <<ignore, initial, unsound, kpc, conn, krows, restore, klive, kres, kfailed, kfaults>>
    BY DEF checkerVars, settings, locals
  <1>2. ASSUME NEW k \in Checkers PROVE CheckerInv(k)'
    <2>1. \A c \in Conns : owner'[c] = k <=> owner[c] = k
      BY Apart DEF Among
    <2> QED BY <1>1, <2>1 DEF ChecksInv, CheckerInv
  <1>3. CheckTypeOK' /\ SettingInv'
    BY <1>1 DEF ChecksInv, CheckTypeOK, SettingInv, Owes, Tampered
  <1> QED
    BY <1>2, <1>3 DEF ChecksInv

-----------------------------------------------------------------------------
(* The composition.                                                        *)

LEMMA SharedInvInit == DatabaseInit => SharedInv
  <1> SUFFICES ASSUME DatabaseInit PROVE SharedInv
    OBVIOUS
  <1>1. ChecksInv
    BY ChecksInvInit, SourceConstraintsAssumption, ConnPoolAssumption DEF DatabaseInit, Assumptions
  <1>2. PoolInv
    BY PoolInvInit, SchemaReaderAssumption, ConnPoolAssumption DEF DatabaseInit
  <1>3. \A r \in Readers : RowsInv(r)
    BY DEF DatabaseInit, ReadersInit, RowsInv, IsCursor, NoCursor
  <1> QED
    BY <1>1, <1>2, <1>3 DEF SharedInv, CursorInv, DatabaseInit

LEMMA SharedInvStep == SharedInv /\ [DatabaseNext]_dvars => SharedInv'
  <1> USE SchemaReaderAssumption, SourceRowsAssumption, SourceConstraintsAssumption, ConnPoolAssumption
  <1> SUFFICES ASSUME SharedInv, [DatabaseNext]_dvars PROVE SharedInv'
    OBVIOUS
  <1>1. ASSUME UNCHANGED <<owner, readerVars, checkerVars>>, pool' \in {"none", "open", "closed"}
        PROVE  SharedInv'
    <2>1. PoolTypeOK' /\ Among({})
      BY <1>1 DEF SharedInv, ChecksInv, CheckTypeOK, PoolTypeOK, Among
    <2>2. Among(Readers) /\ Among(Checkers)
      BY <2>1 DEF Among
    <2> QED
      BY <1>1, <2>1, <2>2, ReadsUndisturbed, ChecksUndisturbed DEF SharedInv
  <1>2. CASE HandleStep \/ UNCHANGED dvars
    <2>1. UNCHANGED <<owner, readerVars, checkerVars>>
      BY <1>2 DEF HandleStep, Open, Ping, PingFailed, LenientSchema, CallerOpens, NewSchemaReader,
                  CallerCloses, Close, dvars, poolVars
    <2>2. pool' \in {"none", "open", "closed"}
      BY <1>2 DEF HandleStep, Open, Ping, PingFailed, LenientSchema, CallerOpens, NewSchemaReader,
                  CallerCloses, Close, dvars, poolVars, SharedInv, ChecksInv, CheckTypeOK, PoolTypeOK
    <2> QED BY <1>1, <2>1, <2>2
  <1>3. ASSUME CursorInv', Among(Readers), UNCHANGED checkerVars PROVE SharedInv'
    BY <1>3, ChecksUndisturbed DEF SharedInv, CursorInv, PoolInv
  <1>4. ASSUME NEW r \in Readers, NEW q \in Requests, NEW h \in handles, CallOn(h, r, q)
        PROVE  SharedInv'
    <2>1. Call(r, q) /\ UNCHANGED cursor /\ UNCHANGED checkerVars /\ UNCHANGED owner
      BY <1>4 DEF CallOn, Call, poolVars
    <2>2. CursorInv'
      BY <2>1, ReadersKeep DEF SharedInv, ReaderNext
    <2> QED BY <1>3, <2>1, <2>2 DEF Among
  <1>5. CASE ReadersRun /\ UNCHANGED <<cursor, checkerVars, handleVars>>
    <2>1. CursorInv'
      BY <1>5, ReadersKeep DEF SharedInv, ReaderNext
    <2>2. Among(Readers)
      <3>1. CASE Commit
        BY <3>1 DEF Commit, poolVars, Among
      <3>2. ASSUME NEW r \in Readers, Progress(r) \/ Fault(r) \/ Cancel(r) PROVE Among(Readers)
        BY <3>2, ReadsKeepToTheirOwn DEF SharedInv
      <3> QED BY <1>5, <3>1, <3>2 DEF ReadersRun
    <2> QED BY <1>3, <1>5, <2>1, <2>2
  <1>6. ASSUME NEW r \in Readers, CursorStep(r), UNCHANGED checkerVars PROVE SharedInv'
    <2>1. CursorInv'
      BY <1>6, OpenKeeps, NextRowKeeps, EndKeeps, CloseKeeps, CancelCursorKeeps,
         NextClosedKeeps DEF CursorStep, SharedInv
    <2>2. Among(Readers)
      BY <1>6, ReadsKeepToTheirOwn DEF SharedInv
    <2> QED BY <1>3, <1>6, <2>1, <2>2
  <1>7. ASSUME NEW k \in Checkers, Check(k) \/ CheckRun(k), UNCHANGED readerVars PROVE SharedInv'
    <2>1. ChecksInv'
      BY <1>7, ChecksInvStep DEF SharedInv, CheckNext, Assumptions
    <2>2. Among(Checkers)
      BY <1>7, ChecksKeepToTheirOwn DEF SharedInv
    <2> QED
      BY <1>7, <2>1, <2>2, ReadsUndisturbed DEF SharedInv, ChecksInv, CheckTypeOK
  <1> QED
    BY <1>2, <1>4, <1>5, <1>6, <1>7 DEF DatabaseNext, CheckOn

\* The invariant holds of every run of the driver over a pool.
LEMMA SharedInvAlways == DatabaseSpec => []SharedInv
  BY SharedInvInit, SharedInvStep, PTL DEF DatabaseSpec

-----------------------------------------------------------------------------
(* Calls that begin after the pool was closed.                             *)

\* Some query still to be sent is one whose failure the call reports, whatever
\* happened before: neither the AUTOINCREMENT probe nor the Close of the sql.Conn.
NeedsAnswer(s) == \E i \in DOMAIN s : \E q \in s[i] : q.kind \notin {"autoInc", "connClose"}

\* A call whose first query is such a query has one to send.
LEMMA AskAllNeeds ==
    ASSUME NEW op, NEW K, NEW n \in Nat, n > 0, DOMAIN K = 1..n, NEW of,
           K[1] \notin {"autoInc", "connClose"}
    PROVE  NeedsAnswer(AskAll(op, K, of))
  <1> DEFINE s == AskAll(op, K, of)
  <1>1. Asks(s, op, K, n, of)
    BY AskAllQueue
  <1> HIDE DEF s
  <1>2. 1 \in DOMAIN s /\ s[1] # {} /\ \A q \in s[1] : q.kind = K[1]
    BY <1>1 DEF Asks, IsQueue
  <1>3. NeedsAnswer(s)
    BY <1>2 DEF NeedsAnswer
  <1> QED BY <1>3 DEF s

\* So has a call of one query.
LEMMA OneNeeds ==
    ASSUME NEW op, NEW kind, kind \notin {"autoInc", "connClose"}, NEW of
    PROVE  NeedsAnswer(AskAll(op, <<kind>>, of))
  <1> DEFINE K == <<kind>>
  <1>1. DOMAIN K = 1..1 /\ K[1] = kind /\ 1 \in Nat /\ 1 > 0
    OBVIOUS
  <1> HIDE DEF K
  <1>2. NeedsAnswer(AskAll(op, K, of))
    BY <1>1, AskAllNeeds
  <1> QED BY <1>2 DEF K

\* The first query of every operation is such a query; only OpenSourceRows without a
\* name sends none (CatalogQueries!Program).
LEMMA ProgramNeeds ==
    ASSUME NEW r, r.op \in Operations
    PROVE  Nameless(r) \/ NeedsAnswer(Program(r))
  <1>1. CASE r.op = "DescribeCollection"
    <2> DEFINE K == DescribeKinds(r.lenient)
    <2>1. PICK n \in 11..12 : DOMAIN K = 1..n
      BY DescribeKindsLease
    <2>2. K[1] \notin {"autoInc", "connClose"}
      BY DEF DescribeKinds
    <2>3. Program(r) = AskAll("DescribeCollection", K, r.name)
      BY <1>1 DEF Program, DescribeQueries
    <2> HIDE DEF K
    <2> QED BY <2>1, <2>2, <2>3, AskAllNeeds
  <1>2. CASE r.op = "ListIndexes"
    <2> DEFINE a == AskAll("ListIndexes", <<"indexList">>, r.name)
               d == DescribeQueries(r.name, TRUE)
    <2>1. NeedsAnswer(a) /\ QueueOK(a, FALSE)
      BY OneNeeds, OneQueryQueue
    <2>2. QueueOK(d, FALSE)
      BY DescribeQueue
    <2>3. Program(r) = a \o d \/ Program(r) = a \o <<>>
      BY <1>2 DEF Program
    <2> HIDE DEF a, d
    <2>4. ASSUME NEW R, a \in Seq(R), NEW t \in Seq(R) PROVE NeedsAnswer(a \o t)
      <3>1. PICK i \in 1..Len(a) : \E q \in a[i] : q.kind \notin {"autoInc", "connClose"}
        BY <2>1, <2>4 DEF NeedsAnswer
      <3>2. i \in DOMAIN (a \o t) /\ (a \o t)[i] = a[i]
        BY <2>4, <3>1
      <3> QED BY <3>1, <3>2 DEF NeedsAnswer
    <2>5. NeedsAnswer(a \o d)
      <3> DEFINE R == {a[i] : i \in DOMAIN a} \cup {d[i] : i \in DOMAIN d}
      <3>1. a \in Seq(R) /\ d \in Seq(R)
        BY <2>1, <2>2 DEF QueueOK, IsQueue
      <3> HIDE DEF R
      <3> QED BY <3>1, <2>4
    <2>6. NeedsAnswer(a \o <<>>)
      <3> DEFINE R == {a[i] : i \in DOMAIN a}
      <3>1. a \in Seq(R) /\ <<>> \in Seq(R)
        BY <2>1 DEF QueueOK, IsQueue
      <3> HIDE DEF R
      <3> QED BY <3>1, <2>4
    <2> QED BY <2>3, <2>5, <2>6
  <1>3. CASE r.op = "ListConstraints"
    <2> DEFINE K == <<"pkProbe", "fkIds", "uniques">>
    <2>1. Program(r) = AskAll(r.op, K, r.name)
      BY <1>3 DEF Program
    <2>2. DOMAIN K = 1..3 /\ K[1] = "pkProbe" /\ 3 \in Nat /\ 3 > 0
      OBVIOUS
    <2> HIDE DEF K
    <2> QED BY <2>1, <2>2, AskAllNeeds
  <1>4. CASE r.op \in {"ListCollections", "ListReferrers"}
    <2>1. Program(r) = AskAll(r.op, <<"tables">>, r.name)
      BY <1>4 DEF Program
    <2> QED BY <2>1, OneNeeds
  <1>5. CASE r.op \in {"ListViews", "ListSourceViews"}
    <2>1. Program(r) = AskAll(r.op, <<"views">>, r.name)
      BY <1>5 DEF Program
    <2> QED BY <2>1, OneNeeds
  <1>6. CASE r.op = "UnnamedObjects"
    <2>1. Program(r) = AskAll(r.op, <<"unnamed">>, r.name)
      BY <1>6 DEF Program
    <2> QED BY <2>1, OneNeeds
  <1>7. CASE r.op = "OpenSourceRows" /\ r.name # Empty
    <2> DEFINE K == <<"hidden", "rowColumns">>
    <2>1. Program(r) = AskAll(r.op, K, r.name)
      BY <1>7 DEF Program
    <2>2. DOMAIN K = 1..2 /\ K[1] = "hidden" /\ 2 \in Nat /\ 2 > 0
      OBVIOUS
    <2> HIDE DEF K
    <2> QED BY <2>1, <2>2, AskAllNeeds
  <1>8. CASE r.op = "OpenSourceRows" /\ r.name = Empty
    BY <1>8 DEF Nameless
  <1> QED
    BY <1>1, <1>2, <1>3, <1>4, <1>5, <1>6, <1>7, <1>8 DEF Operations

\* The answer to a query that cannot fail the call leaves such a query to be sent.
LEMMA StillNeeds ==
    ASSUME PoolInv, NEW r \in Readers, rpc[r] \in {"next", "rows"}, call[r].todo # <<>>,
           NeedsAnswer(call[r].todo), Query(r).kind \in {"autoInc", "connClose"}, NEW answer
    PROVE  NeedsAnswer(Answered(r, answer)[r].todo)
  <1> DEFINE q == Query(r)
             s == call[r].todo
             got == Learn(call[r].got, q, answer)
             F == Following(q, answer, got)
             t == Left(F) \o Left(Head(s) \ {q}) \o Tail(s)
  <1>1. IsQueue(s) /\ s # <<>> /\ q \in Head(s)
    BY QueryInHand DEF PoolInv, CallInv, QueueOK
  <1>2. call = [p \in Readers |-> call[p]] /\ IsCall(call[r])
    BY DEF PoolInv, CallInv
  <1>3. Answered(r, answer) = [call EXCEPT ![r] = [call[r] EXCEPT !.got = got, !.answer = Nil, !.todo = t]]
    BY <1>2 DEF Answered
  <1>4. q.kind \in {"autoInc", "connClose"} /\ NeedsAnswer(s)
    OBVIOUS
  <1> HIDE DEF q, s, got, F
  <1>5. NeedsAnswer(t)
    <2>1. PICK d \in Int : \A k \in DOMAIN s : \A x \in s[k] :
                             x # q \/ k > 1 => k - d \in DOMAIN t /\ x \in t[k - d]
      BY <1>1, QueueStep
    <2>2. PICK k \in DOMAIN s : \E x \in s[k] : x.kind \notin {"autoInc", "connClose"}
      BY <1>4 DEF NeedsAnswer
    <2>3. PICK x \in s[k] : x.kind \notin {"autoInc", "connClose"}
      BY <2>2
    <2>4. x # q
      BY <1>4, <2>3
    <2> QED BY <2>1, <2>3, <2>4 DEF NeedsAnswer
  <1> HIDE DEF t
  <1>6. Answered(r, answer)[r].todo = t
    BY <1>2, <1>3 DEF IsCall
  <1> QED BY <1>5, <1>6

\* What a call holds of the pool, and how far it is, is a matter of its own steps.
LEMMA OthersStay ==
    ASSUME PoolInv, NEW r \in Readers, Progress(r) \/ Fault(r) \/ Cancel(r) \/ CursorStep(r),
           NEW p \in Readers \ {r}
    PROVE  rpc'[p] = rpc[p] /\ on'[p] = on[p] /\ lease'[p] = lease[p] /\ call'[p] = call[p]
  <1> USE DEF PoolInv
  <1>1. on' = on \/ (\E c : on' = [on EXCEPT ![r] = c])
    BY DEF Progress, Begin, Drain, Refuse, HoldConn, FreeConn, Finish, Leave, Cancel, CursorStep,
           Fault, Interrupt, Fail, CloseRows, OpenSourceRows, NextRow, NextEOF, NextFails, RowsOver,
           EndRows, CancelCursor, CloseCursor, NextClosed, rvars
  <1>2. lease' = lease \/ (\E c : lease' = [lease EXCEPT ![r] = c])
    BY DEF Progress, Begin, Drain, Refuse, HoldConn, FreeConn, Finish, Leave, Cancel, CursorStep,
           Fault, Interrupt, Fail, OpenSourceRows, NextRow, NextEOF, NextFails, RowsOver,
           EndRows, CancelCursor, CloseCursor, NextClosed, rvars
  <1>3. rpc'[p] = rpc[p] /\ call'[p] = call[p]
    <2>1. CASE Progress(r) \/ Fault(r) \/ Cancel(r)
      BY <2>1, ReadSteps DEF StepOf
    <2>2. CASE CursorStep(r)
      BY <2>2 DEF CursorStep, Goto, OpenSourceRows, NextRow, NextEOF, NextFails, RowsOver,
           EndRows, CancelCursor, CloseCursor, NextClosed, rvars
    <2> QED BY <2>1, <2>2
  <1> QED BY <1>1, <1>2, <1>3

\* A call that began after the pool was closed holds nothing, and cannot end without
\* an error: nothing but its probes and the Close of a sql.Conn succeeds.
LateInv(r) ==
    /\ rpc[r] \in {"next", "leaving", "done"} /\ on[r] = NoConn /\ lease[r] = NoConn
    /\ rpc[r] = "next" => Nameless(call[r].req) \/ NeedsAnswer(call[r].todo)
    /\ rpc[r] = "done" => call[r].outcome = "error"

\* A step of such a call.
LEMMA LateStep ==
    ASSUME PoolInv, pool = "closed", NEW r \in Readers, LateInv(r),
           Progress(r) \/ Fault(r) \/ Cancel(r) \/ CursorStep(r)
    PROVE  LateInv(r)'
  <1>1. /\ call = [p \in Readers |-> call[p]] /\ rpc = [p \in Readers |-> rpc[p]]
        /\ rpc[r] # "idle" => IsCall(call[r])
        /\ on = [p \in Readers |-> on[p]] /\ lease = [p \in Readers |-> lease[p]]
    BY DEF PoolInv, CallInv
  <1>2. ~CursorStep(r) \/ NextClosed(r)
    BY DEF LateInv, CursorStep, OpenSourceRows, NextRow, NextEOF, NextFails, RowsOver, HasCursor,
           CancelCursor, CloseCursor
  <1>9. CASE NextClosed(r)
    <2>1. UNCHANGED <<rpc, on, lease, call>>
      BY <1>9 DEF NextClosed, rvars
    <2> QED BY <2>1 DEF LateInv, Nameless
  <1>3. ~Begin(r) /\ ~HoldConn(r) /\ ~Drain(r) /\ ~Refuse(r)
    BY DEF LateInv, Begin, HoldConn, Drain, Refuse, Take
  <1>4. CASE Fault(r) \/ Interrupt(r)
    <2>1. Fail(r) /\ rpc[r] = "next" /\ call[r].todo # <<>> /\ Query(r).kind # "connClose"
      BY <1>4 DEF Fault, Interrupt, Sending, LateInv
    <2>2. on' = on /\ lease' = lease
      BY <2>1 DEF Fail
    <2>3. CASE Query(r).kind = "autoInc"
      <3> DEFINE new == Answered(r, FALSE)
      <3>1. /\ call' = [new EXCEPT ![r].hit = @ \cup {Query(r).kind}]
            /\ rpc' = [rpc EXCEPT ![r] = "next"]
        BY <2>1, <2>3 DEF Fail, Goto, Swallows
      <3>2. Untouched(call[r], new[r])
        BY <2>1, AnsweredUntouched
      <3>3. new = [p \in Readers |-> new[p]] /\ IsCall(new[r])
        BY <1>1, <2>1 DEF Answered, IsCall
      <3>4. NeedsAnswer(call[r].todo) => NeedsAnswer(new[r].todo)
        BY <2>1, <2>3, StillNeeds
      <3> HIDE DEF new
      <3>5. call'[r].req = call[r].req /\ call'[r].todo = new[r].todo
        BY <3>1, <3>2, <3>3 DEF IsCall, Untouched
      <3>6. rpc'[r] = "next"
        BY <1>1, <3>1
      <3> QED BY <2>1, <2>2, <3>4, <3>5, <3>6 DEF LateInv, Nameless
    <2>4. CASE Query(r).kind # "autoInc"
      <3>1. rpc' = [rpc EXCEPT ![r] = "leaving"]
        BY <2>1, <2>4 DEF Fail, Goto, Swallows
      <3> QED BY <1>1, <2>2, <3>1 DEF LateInv
    <2> QED BY <2>3, <2>4
  <1>5. CASE FreeConn(r)
    <2> DEFINE new == Answered(r, TRUE)
    <2>1. /\ rpc[r] = "next" /\ call[r].todo # <<>> /\ Query(r).kind = "connClose"
          /\ call' = new /\ rpc' = rpc /\ on' = on /\ lease' = [lease EXCEPT ![r] = NoConn]
      BY <1>5 DEF FreeConn, Sending
    <2>2. Untouched(call[r], new[r])
      BY <2>1, AnsweredUntouched
    <2>3. NeedsAnswer(call[r].todo) => NeedsAnswer(new[r].todo)
      BY <2>1, StillNeeds
    <2> HIDE DEF new
    <2> QED BY <1>1, <2>1, <2>2, <2>3 DEF LateInv, Nameless, Untouched
  <1>6. CASE Finish(r)
    <2>1. Nameless(call[r].req)
      BY <1>6 DEF Finish, LateInv, NeedsAnswer
    <2>2. call' = [call EXCEPT ![r].outcome = "error"] /\ rpc' = [rpc EXCEPT ![r] = "done"]
          /\ on' = on /\ lease' = lease
      BY <1>6, <2>1 DEF Finish, Goto
    <2>3. call'[r].outcome = "error"
      BY <1>1, <2>2 DEF LateInv, IsCall
    <2> QED BY <1>1, <2>2, <2>3 DEF LateInv
  <1>7. CASE Leave(r)
    <2>1. call' = [call EXCEPT ![r].outcome = "error"] /\ rpc' = [rpc EXCEPT ![r] = "done"]
          /\ on' = [on EXCEPT ![r] = NoConn] /\ lease' = [lease EXCEPT ![r] = NoConn]
      BY <1>7 DEF Leave, Goto
    <2>2. call'[r].outcome = "error"
      BY <1>1, <2>1 DEF LateInv, IsCall
    <2> QED BY <1>1, <2>1, <2>2 DEF LateInv
  <1>8. CASE Cancel(r)
    <2>1. call' = [call EXCEPT ![r].live = FALSE] /\ rpc' = rpc /\ on' = on /\ lease' = lease
      BY <1>8 DEF Cancel
    <2>2. call'[r].req = call[r].req /\ call'[r].todo = call[r].todo /\ call'[r].outcome = call[r].outcome
      BY <1>1, <2>1 DEF LateInv, IsCall
    <2> QED BY <2>1, <2>2 DEF LateInv, Nameless
  <1> QED
    BY <1>2, <1>3, <1>4, <1>5, <1>6, <1>7, <1>8, <1>9 DEF Progress

\* A call that begins then.
LEMMA LateCall ==
    ASSUME PoolInv, SchemaReaderAssumption, NEW r \in Readers, NEW q \in Requests, Call(r, q)
    PROVE  LateInv(r)'
  <1>1. /\ rpc' = [rpc EXCEPT ![r] = "next"] /\ on' = on /\ lease' = lease
        /\ call' = [call EXCEPT ![r] = NewCall(q)] /\ rpc[r] = "idle"
    BY DEF Call, Goto
  <1>2. NewCall(q).req = q /\ NewCall(q).todo = Program(q)
    BY DEF NewCall
  <1>3. Nameless(q) \/ NeedsAnswer(Program(q))
    BY ProgramNeeds DEF SchemaReaderAssumption
  <1> HIDE DEF NewCall
  <1>4. rpc'[r] = "next" /\ call'[r] = NewCall(q) /\ on'[r] = NoConn /\ lease'[r] = NoConn
    BY <1>1 DEF PoolInv, HoldingInv
  <1> QED BY <1>2, <1>3, <1>4 DEF LateInv, Nameless

\* DDL commits.
LEMMA LateCommit ==
    ASSUME PoolInv, NEW r \in Readers, LateInv(r), Commit
    PROVE  LateInv(r)'
  <1>1. /\ rpc' = rpc /\ on' = on /\ lease' = lease
        /\ call'[r] = IF InCall(r) THEN [call[r] EXCEPT !.since = @ + 1] ELSE call[r]
    BY DEF Commit
  <1>2. call'[r].req = call[r].req /\ call'[r].todo = call[r].todo /\ call'[r].outcome = call[r].outcome
    <2>1. CASE InCall(r)
      BY <1>1, <2>1 DEF InCall, PoolInv, CallInv, IsCall
    <2>2. CASE ~InCall(r)
      BY <1>1, <2>2
    <2> QED BY <2>1, <2>2
  <1> QED BY <1>1, <1>2 DEF LateInv, Nameless

-----------------------------------------------------------------------------
(* The handles, and the results of the calls.                              *)

\* A call that ended has a result, and one that returned a cursor returned no error.
ResultInv(r) ==
    /\ call[r].outcome \in {"none", "ok", "error"}
    /\ rpc[r] = "done" => call[r].outcome # "none"
    /\ rpc[r] = "cursor" => call[r].outcome = "ok"

\* Who may close a pool has a handle on it, or is its owner; a pool that was closed
\* is never opened again, and a call begins after that only if it is in "late".
HandleInv ==
    /\ life \in {"none", "ping", "failing", "failed", "ours", "callers"}
    /\ handles \subseteq Databases \cup Borrowed
    /\ handles \cap Databases # {} => life = "ours"
    /\ shut \in BOOLEAN
    /\ shut => pool = "closed" /\ life \in {"ours", "callers"}
    /\ late \subseteq Readers
    /\ late # {} => shut

\* The parts of DatabaseInv that are not in SharedInv.
CountInv == commits \in 0..MaxCommits /\ faults \in 0..MaxFaults

DatabaseInv ==
    /\ SharedInv /\ HandleInv /\ CountInv
    /\ \A r \in Readers : ResultInv(r) /\ (rpc[r] # "idle" => handles # {})
    /\ \A r \in late : LateInv(r)

\* A step of the reads, as it is taken in DatabaseNext.
ReadTurn(r) ==
    \/ Progress(r) \/ Fault(r) \/ Cancel(r)
    \/ CursorStep(r)

\* The bounds of the model are kept.
LEMMA CountStep ==
    ASSUME CountInv, SchemaReaderAssumption, DatabaseNext
    PROVE  CountInv'
  <1>1. \/ UNCHANGED <<commits, faults>>
        \/ commits < MaxCommits /\ commits' = commits + 1 /\ faults' = faults
        \/ faults < MaxFaults /\ faults' = faults + 1 /\ commits' = commits
    <2>1. CASE HandleStep \/ (\E h \in handles, r \in Readers, q \in Requests : CallOn(h, r, q))
               \/ (\E k \in Checkers : CheckOn(k))
               \/ (\E k \in Checkers : CheckRun(k) /\ UNCHANGED <<readerVars, handleVars>>)
      BY <2>1 DEF HandleStep, Open, Ping, PingFailed, LenientSchema, CallerOpens, NewSchemaReader,
                  CallerCloses, Close, CallOn, Call, CheckOn, readerVars, world
    <2>2. CASE Commit
      BY <2>2 DEF Commit
    <2>3. ASSUME NEW r \in Readers, Progress(r) \/ Cancel(r) PROVE UNCHANGED <<commits, faults>>
      BY <2>3 DEF Progress, Begin, Drain, Refuse, Interrupt, Fail, HoldConn, FreeConn, Finish, Leave,
                  Cancel, world
    <2>4. ASSUME NEW r \in Readers, Fault(r)
          PROVE  faults < MaxFaults /\ faults' = faults + 1 /\ commits' = commits
      BY <2>4 DEF Fault, Fail
    <2>5. ASSUME NEW r \in Readers, CursorStep(r)
          PROVE  \/ UNCHANGED <<commits, faults>>
                 \/ faults < MaxFaults /\ faults' = faults + 1 /\ commits' = commits
      BY <2>5 DEF CursorStep, OpenSourceRows, NextRow, NextEOF, NextFails, RowsOver, EndRows,
                  CancelCursor, CloseCursor, NextClosed, rvars, world
    <2> QED BY <2>1, <2>2, <2>3, <2>4, <2>5 DEF DatabaseNext, ReadersRun
  <1> QED
    BY <1>1 DEF CountInv, SchemaReaderAssumption

\* Handles are made and closed as their invariant says; no other step touches them.
LEMMA HandleInvStep ==
    ASSUME HandleInv, DatabaseNext
    PROVE  HandleInv' /\ (handles \subseteq handles' \/ handles' # {}) /\ (shut => shut')
  <1>1. CASE HandleStep
    <2>1. CASE Open \/ CallerOpens
      BY <2>1 DEF HandleInv, Open, CallerOpens
    <2>2. CASE Ping
      <3>1. /\ life = "ping" /\ UNCHANGED <<pool, shut, late>>
            /\ \/ life' = "failing" /\ handles' = handles
               \/ life' = "ours" /\ handles' = {"database"}
        BY <2>2 DEF Ping, poolVars
      <3>2. ~shut /\ handles \cap Databases = {}
        BY <3>1 DEF HandleInv
      <3>3. handles' \subseteq Databases \cup Borrowed
        BY <3>1 DEF HandleInv, Databases
      <3>4. handles \subseteq handles' \/ handles' # {}
        BY <3>1
      <3> HIDE DEF Databases, Borrowed
      <3> QED BY <3>1, <3>2, <3>3, <3>4 DEF HandleInv
    <2>5. CASE PingFailed
      BY <2>5 DEF HandleInv, PingFailed
    <2>3. CASE LenientSchema \/ NewSchemaReader
      <3>1. UNCHANGED <<pool, life, shut, late>> /\ handles \subseteq handles'
        BY <2>3 DEF LenientSchema, NewSchemaReader, poolVars
      <3>2. handles' \subseteq Databases \cup Borrowed
        BY <2>3 DEF HandleInv, LenientSchema, NewSchemaReader, Databases
      <3>3. handles' \cap Databases # {} => handles \cap Databases # {}
        BY <2>3 DEF LenientSchema, NewSchemaReader, Databases, Borrowed
      <3> HIDE DEF Databases, Borrowed
      <3> QED BY <3>1, <3>2, <3>3 DEF HandleInv
    <2>4. CASE CallerCloses \/ (\E h \in Databases : Close(h))
      BY <2>4 DEF HandleInv, CallerCloses, Close
    <2> QED BY <1>1, <2>1, <2>2, <2>3, <2>4, <2>5 DEF HandleStep
  <1>2. ASSUME NEW h \in handles, NEW r \in Readers, NEW q \in Requests, CallOn(h, r, q)
        PROVE  HandleInv' /\ handles' = handles /\ shut' = shut
    BY <1>2 DEF HandleInv, CallOn, Call, poolVars
  <1>3. ASSUME UNCHANGED handleVars, pool' = pool
        PROVE  HandleInv' /\ handles' = handles /\ shut' = shut
    BY <1>3 DEF HandleInv, handleVars
  <1>4. ASSUME NEW r \in Readers, Progress(r) \/ Fault(r) \/ Cancel(r) \/ CursorStep(r)
        PROVE  pool' = pool
    BY <1>4 DEF Progress, Begin, Drain, Refuse, HoldConn, FreeConn, Finish, Leave, Cancel, CursorStep,
           Fault, Interrupt, Fail, OpenSourceRows, NextRow, NextEOF, NextFails, RowsOver,
           EndRows, CancelCursor, CloseCursor, NextClosed, rvars, poolVars
  <1>5. ASSUME NEW k \in Checkers, Check(k) \/ CheckRun(k)
        PROVE  pool' = pool
    BY <1>5 DEF Check, CheckRun, CheckStep, CheckConn, CheckRead, CheckOff, CheckIntegrity,
       IntegrityViolated, CheckForeignKeys, ForeignKeysRead, CloseCheckRows, Restore, CheckConnFails,
       CloseCheckConn, CancelCheck, CheckOffFails, CheckFails, RestoreFails, poolVars
  <1>6. CASE ReadersRun /\ UNCHANGED <<cursor, checkerVars, handleVars>>
    <2>1. Commit => pool' = pool
      BY DEF Commit, poolVars
    <2> QED BY <1>3, <1>4, <1>6, <2>1 DEF ReadersRun
  <1> QED
    BY <1>1, <1>2, <1>3, <1>4, <1>5, <1>6 DEF DatabaseNext, CheckOn

\* What a turn of a call does to its result and to where it is.
LEMMA ResultStep ==
    ASSUME PoolInv, NEW r \in Readers, ReadTurn(r), \A p \in Readers : ResultInv(p)
    PROVE  /\ \A p \in Readers : ResultInv(p)'
           /\ rpc[r] # "idle"
  <1>1. \A p \in Readers \ {r} : rpc'[p] = rpc[p] /\ call'[p] = call[p]
    BY OthersStay DEF ReadTurn
  <1>2. CASE Progress(r) \/ Fault(r) \/ Cancel(r)
    <2>1. StepOf(r)
      BY <1>2, ReadSteps
    <2> QED BY <1>1, <2>1 DEF StepOf, ResultInv
  <1>4. CASE NextClosed(r)
    <2>1. UNCHANGED <<rpc, call>> /\ rpc[r] = "done"
      BY <1>4 DEF NextClosed, rvars
    <2> QED BY <2>1 DEF ResultInv
  <1>3. CASE CursorStep(r) /\ ~NextClosed(r)
    <2>1. /\ rpc[r] \in {"rows", "cursor"}
          /\ rpc = [p \in Readers |-> rpc[p]] /\ call = [p \in Readers |-> call[p]]
          /\ rpc[r] # "idle" => IsCall(call[r])
      BY <1>3 DEF CursorStep, OpenSourceRows, NextRow, NextEOF, NextFails, RowsOver, HasCursor,
                  CancelCursor, CloseCursor, PoolInv, CallInv
    <2>2. CASE OpenSourceRows(r)
      <3>1. call' = [call EXCEPT ![r].outcome = "ok"] /\ rpc' = [rpc EXCEPT ![r] = "cursor"]
        BY <2>2 DEF OpenSourceRows, Goto
      <3>2. call'[r].outcome = "ok" /\ rpc'[r] = "cursor"
        BY <2>1, <3>1 DEF IsCall
      <3> QED BY <1>1, <2>1, <3>2 DEF ResultInv
    <2>3. CASE ~OpenSourceRows(r)
      <3>1. /\ rpc[r] = "cursor"
            /\ rpc' = rpc \/ rpc' = [rpc EXCEPT ![r] = "done"]
            /\ \/ call' = call
               \/ call' = [call EXCEPT ![r].hit = {"next"}]
               \/ call' = [call EXCEPT ![r].live = FALSE]
        BY <1>3, <2>3 DEF CursorStep, NextRow, NextEOF, NextFails, RowsOver, HasCursor, EndRows,
                          CancelCursor, CloseCursor, Goto, rvars
      <3>2. call'[r].outcome = call[r].outcome
        BY <2>1, <3>1 DEF IsCall
      <3>3. rpc'[r] \in {"cursor", "done"}
        BY <2>1, <3>1
      <3> QED BY <1>1, <3>1, <3>2, <3>3 DEF ResultInv
    <2> QED BY <2>1, <2>2, <2>3
  <1> QED
    BY <1>2, <1>3, <1>4 DEF ReadTurn, StepOf

\* Every step keeps the invariant.
LEMMA DatabaseInvStep ==
    ASSUME DatabaseInv, [DatabaseNext]_dvars
    PROVE  DatabaseInv'
  <1> USE SchemaReaderAssumption, SourceRowsAssumption
  <1>1. SharedInv'
    BY SharedInvStep DEF DatabaseInv
  <1>2. CASE UNCHANGED dvars
    <2>1. HandleInv' /\ CountInv'
      BY <1>2 DEF DatabaseInv, HandleInv, CountInv, dvars, poolVars, readerVars, world, handleVars
    <2>2. UNCHANGED <<rpc, on, lease, call, handles, late>>
      BY <1>2 DEF dvars, readerVars, handleVars
    <2> QED BY <1>1, <2>1, <2>2 DEF DatabaseInv, ResultInv, LateInv
  <1>3. CASE DatabaseNext
    <2>1. /\ HandleInv' /\ CountInv' /\ (shut => shut') /\ (handles # {} => handles' # {})
          /\ PoolInv /\ (shut => pool = "closed") /\ (late # {} => shut)
          /\ \A r \in Readers : ResultInv(r) /\ (rpc[r] # "idle" => handles # {})
          /\ \A r \in late : r \in Readers /\ LateInv(r)
      BY <1>3, HandleInvStep, CountStep DEF DatabaseInv, SharedInv, CursorInv, HandleInv
    <2>2. ASSUME \A r \in Readers : ResultInv(r)' /\ (rpc'[r] # "idle" => handles' # {}),
                 \A r \in late' : LateInv(r)'
          PROVE  DatabaseInv'
      BY <1>1, <2>1, <2>2 DEF DatabaseInv
    <2>3. ASSUME UNCHANGED <<rpc, on, lease, call, late>> PROVE DatabaseInv'
      BY <2>1, <2>2, <2>3 DEF ResultInv, LateInv
    <2>4. CASE \/ HandleStep \/ (\E k \in Checkers : CheckOn(k))
               \/ (\E k \in Checkers : CheckRun(k) /\ UNCHANGED <<readerVars, handleVars>>)
      BY <2>3, <2>4 DEF HandleStep, Open, Ping, PingFailed, LenientSchema, CallerOpens,
         NewSchemaReader, CallerCloses, Close, CheckOn, readerVars, handleVars
    <2>5. ASSUME NEW h \in handles, NEW r \in Readers, NEW q \in Requests, CallOn(h, r, q)
          PROVE  DatabaseInv'
      <3>1. Call(r, q) /\ late' = (IF shut THEN late \cup {r} ELSE late) /\ handles' = handles
        BY <2>5 DEF CallOn
      <3>2. /\ rpc[r] = "idle" /\ rpc' = [rpc EXCEPT ![r] = "next"]
            /\ call' = [call EXCEPT ![r] = NewCall(q)] /\ on' = on /\ lease' = lease
            /\ NewCall(q).outcome = "none"
        BY <3>1 DEF Call, Goto, NewCall
      <3> HIDE DEF NewCall
      <3>3. \A p \in Readers : ResultInv(p)' /\ (rpc'[p] # "idle" => handles' # {})
        BY <2>1, <3>1, <3>2 DEF PoolInv, ResultInv
      <3>4. LateInv(r)'
        BY <2>1, <3>1, LateCall
      <3>5. ASSUME NEW p \in late, p # r PROVE LateInv(p)'
        BY <2>1, <3>2, <3>5 DEF LateInv, Nameless
      <3> QED BY <2>2, <3>1, <3>3, <3>4, <3>5
    <2>6. ASSUME NEW r \in Readers, ReadTurn(r), UNCHANGED handleVars PROVE DatabaseInv'
      <3>1. UNCHANGED <<handles, late>>
        BY <2>6 DEF handleVars
      <3>2. (\A p \in Readers : ResultInv(p)') /\ rpc[r] # "idle"
        BY <2>1, <2>6, ResultStep
      <3>3. \A p \in Readers \ {r} :
              rpc'[p] = rpc[p] /\ on'[p] = on[p] /\ lease'[p] = lease[p] /\ call'[p] = call[p]
        BY <2>1, <2>6, OthersStay DEF ReadTurn
      <3>4. \A p \in Readers : rpc'[p] # "idle" => handles' # {}
        BY <2>1, <3>1, <3>2, <3>3
      <3>5. ASSUME NEW p \in late PROVE LateInv(p)'
        <4>1. p \in Readers /\ LateInv(p) /\ pool = "closed"
          BY <2>1
        <4>2. CASE p = r
          BY <2>1, <2>6, <4>1, <4>2, LateStep DEF ReadTurn
        <4>3. CASE p # r
          BY <3>3, <4>1, <4>3 DEF LateInv, Nameless
        <4> QED BY <4>2, <4>3
      <3> QED BY <2>2, <3>1, <3>2, <3>4, <3>5
    <2>7. CASE Commit /\ UNCHANGED handleVars
      <3>1. UNCHANGED <<handles, late>>
        BY <2>7 DEF handleVars
      <3>2. ASSUME NEW p \in Readers PROVE ResultInv(p)' /\ rpc'[p] = rpc[p]
        BY <2>1, <2>7, CommitSteps DEF ResultInv, Untouched
      <3>3. \A p \in late : LateInv(p)'
        BY <2>1, <2>7, LateCommit
      <3> QED BY <2>1, <2>2, <3>1, <3>2, <3>3
    <2> QED
      BY <1>3, <2>4, <2>5, <2>6, <2>7 DEF DatabaseNext, ReadersRun, ReadTurn
  <1> QED
    BY <1>2, <1>3

\* The invariant holds of every run of the driver over a pool.
LEMMA DatabaseInvAlways == DatabaseSpec => []DatabaseInv
  <1>1. DatabaseInit => DatabaseInv
    <2> SUFFICES ASSUME DatabaseInit PROVE DatabaseInv
      OBVIOUS
    <2>1. SharedInv
      BY SharedInvInit
    <2>2. HandleInv /\ late = {}
      BY DEF DatabaseInit, HandleInv
    <2>4. CountInv
      BY SchemaReaderAssumption DEF DatabaseInit, ReadersInit, CountInv, SchemaReaderAssumption
    <2>3. ASSUME NEW r \in Readers PROVE ResultInv(r) /\ rpc[r] = "idle"
      BY DEF DatabaseInit, ReadersInit, ResultInv
    <2> QED BY <2>1, <2>2, <2>3, <2>4 DEF DatabaseInv
  <1> QED
    BY <1>1, DatabaseInvStep, PTL DEF DatabaseSpec

-----------------------------------------------------------------------------
(* The theorems.                                                           *)

\* No connection serves two calls, and each call has at most the one it uses,
\* however reads, cursors, checks and handles interleave over the pool.
THEOREM ConnectionsApart == DatabaseSpec => []OneOwnerOneConn
  <1>1. ASSUME SharedInv, NEW r \in Readers
        PROVE  HeldBy(r) = {on[r], lease[r]} \ {NoConn} /\ Cardinality(HeldBy(r)) <= 1
    <2>1. /\ \A c \in Conns : owner[c] = r <=> c = on[r] \/ c = lease[r]
          /\ on[r] # NoConn /\ lease[r] # NoConn => on[r] = lease[r]
          /\ on[r] \in Conns \cup {NoConn} /\ lease[r] \in Conns \cup {NoConn}
      BY <1>1 DEF SharedInv, CursorInv, PoolInv, HoldingInv
    <2>2. HeldBy(r) = {on[r], lease[r]} \ {NoConn}
      BY <2>1, Apart DEF HeldBy
    <2>3. HeldBy(r) = {} \/ \E c \in Conns : HeldBy(r) = {c}
      BY <2>1, <2>2
    <2>4. CASE HeldBy(r) = {}
      BY <2>2, <2>4, FS_EmptySet
    <2>5. ASSUME NEW c \in Conns, HeldBy(r) = {c} PROVE Cardinality(HeldBy(r)) <= 1
      <3>1. Cardinality({c}) = 1
        BY FS_Singleton
      <3> QED BY <2>5, <3>1
    <2> QED
      BY <2>2, <2>3, <2>4, <2>5
  <1>2. ASSUME SharedInv, NEW k \in Checkers
        PROVE  HeldBy(k) = IF kpc[k] \in {"idle", "conn", "done"} THEN {} ELSE {conn[k]}
    <2>1. /\ \A c \in Conns : owner[c] = k <=> kpc[k] \in Holding /\ c = conn[k]
          /\ kpc[k] \in Holding => conn[k] \in Conns
          /\ kpc[k] \in Steps
      BY <1>2 DEF SharedInv, ChecksInv, CheckerInv, CheckTypeOK
    <2>2. kpc[k] \in Holding <=> kpc[k] \notin {"idle", "conn", "done"}
      BY <2>1 DEF Holding, Checking, Steps
    <2> QED BY <2>1, <2>2 DEF HeldBy
  <1>3. SharedInv => OneOwnerOneConn
    BY <1>1, <1>2 DEF OneOwnerOneConn
  <1> QED
    BY <1>3, SharedInvAlways, PTL

\* Whoever gets a connection, a schema read or a cursor too, finds its setting as it
\* was before any check, unless a check returned an error because it could not set
\* it.
THEOREM SharedSettingsRestored == DatabaseSpec => []SettingRestored
  <1>1. SharedInv => SettingRestored
    BY InvRestores DEF SharedInv
  <1> QED
    BY <1>1, SharedInvAlways, PTL

\* Among reads and cursors on the same pool too, a check that returns nil saw a file
\* without violations, and io.EOF is the end of the table or follows the caller's Close.
THEOREM SharedResultsSound == DatabaseSpec => [](NilMeansSound /\ EofIsComplete)
  <1>1. SharedInv => NilMeansSound /\ EofIsComplete
    BY DEF SharedInv, ChecksInv, CheckerInv, NilMeansSound, CursorInv, RowsInv, EofIsComplete
  <1> QED
    BY <1>1, SharedInvAlways, PTL

\* The state of the pool, of the handles and of every call is of its type; a call that
\* returned has a result, and only a caller with a handle has called.
THEOREM DatabaseTypeCorrect == DatabaseSpec => []DatabaseTypeOK
  <1>1. DatabaseInv => DatabaseTypeOK
    BY DEF DatabaseInv, SharedInv, CursorInv, PoolInv, ChecksInv, HandleInv, CountInv, ResultInv,
           DatabaseTypeOK, ReaderTypeOK
  <1> QED
    BY <1>1, DatabaseInvAlways, PTL

\* A read that begins after a Close, of the Database or of its lenient copy, through
\* either, or of the pool a borrowed reader was given, returns an error: every
\* operation sends a query whose failure it reports (database.go: "The two share one
\* connection pool, so closing either closes both").
THEOREM ClosedForAll == DatabaseSpec => []ClosingEitherClosesBoth
  <1>1. DatabaseInv => ClosingEitherClosesBoth
    BY DEF DatabaseInv, LateInv, InCall, ClosingEitherClosesBoth
  <1> QED
    BY <1>1, DatabaseInvAlways, PTL

=============================================================================
