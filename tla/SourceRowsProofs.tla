-------------------------- MODULE SourceRowsProofs --------------------------
(***************************************************************************)
(* A row cursor never takes cut rows for the end of a table, and leaves no *)
(* connection behind, for any readers, connections, catalogs and rows.     *)
(***************************************************************************)
EXTENDS SourceRows, SchemaReaderProofs

IsCursor(c) ==
    /\ c = [total |-> c.total, seen |-> c.seen, given |-> c.given, bad |-> c.bad,
            ended |-> c.ended, said |-> c.said]
    /\ c.total \in Nat /\ c.seen \in Nat /\ c.given \in Nat /\ c.bad \in Nat

\* The rows read are those given or reported; rows end after the last, and io.EOF is
\* said where they did or the caller closed them; rows that ended hold nothing.
RowsInv(r) ==
    /\ IsCursor(cursor[r])
    /\ cursor[r].given + cursor[r].bad = cursor[r].seen
    /\ cursor[r].ended = "end" => cursor[r].seen = cursor[r].total
    /\ cursor[r].said = "eof" => cursor[r].ended \in {"end", "closed"}
    /\ cursor[r].ended # "none" => on[r] = NoConn
    /\ rpc[r] \notin {"cursor", "done"} => cursor[r] = NoCursor

CursorInv ==
    /\ PoolInv
    /\ cursor = [r \in Readers |-> cursor[r]]
    /\ \A r \in Readers : RowsInv(r)

\* A call that has a cursor, or had one, takes no other step of a schema read.
LEMMA CursorsRest ==
    ASSUME PoolInv, [ReaderNext]_rvars, NEW p \in Readers, rpc[p] \in {"cursor", "done"}
    PROVE  rpc'[p] = rpc[p] /\ on'[p] = on[p]
  <1> USE DEF PoolInv
  <1>1. ASSUME NEW r \in Readers, NEW q \in Requests, Call(r, q)
        PROVE  rpc'[p] = rpc[p] /\ on'[p] = on[p]
    BY <1>1 DEF Call, Goto
  <1>2. ASSUME NEW r \in Readers, Progress(r) \/ Fault(r) \/ Cancel(r)
        PROVE  rpc'[p] = rpc[p] /\ on'[p] = on[p]
    <2>1. CASE Fault(r) \/ Interrupt(r)
      <3>1. Fail(r) /\ rpc[r] \in {"next", "rows"}
        BY <2>1 DEF Fault, Interrupt, Sending
      <3> QED BY <3>1 DEF Fail, Goto, CloseRows
    <2> QED
      BY <1>2, <2>1 DEF Progress, Begin, Drain, Refuse, HoldConn, FreeConn, Finish, Leave, Cancel,
                        Sending, Goto, CloseRows
  <1> QED
    BY <1>1, <1>2 DEF ReaderNext, ReadersRun, Commit, ClosePool, rvars

\* The schema reads keep the invariant.
LEMMA ReadersKeep ==
    ASSUME CursorInv, SchemaReaderAssumption, ConnPoolAssumption, [ReaderNext]_rvars, UNCHANGED cursor
    PROVE  CursorInv'
  <1>1. PoolInv'
    BY PoolInvStep DEF CursorInv
  <1>2. ASSUME NEW r \in Readers PROVE RowsInv(r)'
    <2>1. CASE rpc[r] \in {"cursor", "done"}
      <3>1. rpc'[r] = rpc[r] /\ on'[r] = on[r]
        BY <2>1, CursorsRest DEF CursorInv
      <3> QED BY <3>1 DEF CursorInv, RowsInv
    <2>2. CASE rpc[r] \notin {"cursor", "done"}
      BY <2>2 DEF CursorInv, RowsInv, NoCursor
    <2> QED BY <2>1, <2>2
  <1> QED
    BY <1>1, <1>2 DEF CursorInv

\* A step of the cursor of one call leaves the others to the invariant.
LEMMA CursorFrame ==
    ASSUME CursorInv, NEW r \in Readers, PoolInv', RowsInv(r)', cursor' = [p \in Readers |-> cursor'[p]],
           \A p \in Readers \ {r} : cursor'[p] = cursor[p] /\ on'[p] = on[p] /\ rpc'[p] = rpc[p]
    PROVE  CursorInv'
  BY DEF CursorInv, RowsInv

\* The rows of a cursor are closed, in whatever state they are.
LEMMA CursorRowsClosed ==
    ASSUME PoolInv, SchemaReaderAssumption, ConnPoolAssumption, NEW r \in Readers,
           rpc[r] = "cursor", CloseRows(r), pool' = pool, lease' = lease,
           NEW to \in {"cursor", "done"}, rpc' = [rpc EXCEPT ![r] = to],
           call' = call \/ call' = [call EXCEPT ![r].hit = {"next"}]
    PROVE  PoolInv'
  <1>1. /\ on' = [on EXCEPT ![r] = NoConn] /\ lease[r] = NoConn
        /\ owner' = [c \in Conns |-> IF c = on[r] THEN Nobody ELSE owner[c]]
    BY DEF CloseRows, GiveBack, PoolInv, HoldingInv
  <1>2. \A c \in Conns : owner[c] = r <=> c = on[r]
    BY <1>1 DEF PoolInv, HoldingInv, ConnPoolAssumption
  <1>3. IsCall(call'[r]) /\ call' = [p \in Readers |-> call'[p]]
    BY DEF PoolInv, CallInv, IsCall
  <1>4. Frame(r)
    BY <1>1, <1>2, <1>3 DEF PoolInv, Frame, PoolTypeOK, SchemaReaderAssumption, ConnPoolAssumption
  <1>5. HoldingInv(r)'
    BY <1>1, <1>2 DEF PoolInv, HoldingInv, PoolTypeOK, SchemaReaderAssumption, ConnPoolAssumption
  <1>6. CallInv(r)'
    BY <1>3 DEF CallInv, PoolInv
  <1> QED
    BY <1>4, <1>5, <1>6, FrameKeeps

\* The rows of OpenSourceRows stay open when it returns.
LEMMA OpenKeeps ==
    ASSUME CursorInv, SourceRowsAssumption, NEW r \in Readers, OpenSourceRows(r)
    PROVE  CursorInv'
  <1>1. /\ rpc[r] = "rows" /\ Query(r).kind = "sourceRows" /\ rpc' = [rpc EXCEPT ![r] = "cursor"]
        /\ call' = [call EXCEPT ![r].outcome = "ok"]
        /\ owner' = owner /\ pool' = pool /\ on' = on /\ lease' = lease
        /\ \E n \in 0..MaxRows : cursor' = [cursor EXCEPT ![r].total = n]
    BY DEF OpenSourceRows, Goto, poolVars
  <1>2. lease[r] = NoConn
    <2>1. call[r].todo # <<>> /\ QueueOK(call[r].todo, lease[r] # NoConn)
      BY <1>1 DEF CursorInv, PoolInv, CallInv
    <2>2. Query(r) \in Head(call[r].todo)
      BY <1>1, <2>1, QueryInHand DEF CursorInv
    <2>3. (lease[r] # NoConn) \in BOOLEAN
      OBVIOUS
    <2> QED
      BY <1>1, <2>1, <2>2, <2>3, NoLeaseForRows
  <1>3. Frame(r)
    BY <1>1, <1>2 DEF CursorInv, PoolInv, Frame, PoolTypeOK
  <1>7. HoldingInv(r)'
    BY <1>1, <1>2 DEF CursorInv, PoolInv, HoldingInv
  <1>4. CallInv(r)'
    BY <1>1 DEF CursorInv, PoolInv, CallInv, IsCall
  <1>5. PoolInv'
    BY <1>3, <1>4, <1>7, FrameKeeps DEF CursorInv
  <1>6. RowsInv(r)'
    <2>1. PICK n \in Nat : cursor'[r] = [NoCursor EXCEPT !.total = n]
      BY <1>1 DEF CursorInv, RowsInv, SourceRowsAssumption
    <2>2. rpc'[r] = "cursor"
      BY <1>1 DEF CursorInv, PoolInv
    <2>3. cursor'[r] = [total |-> n, seen |-> 0, given |-> 0, bad |-> 0,
                        ended |-> "none", said |-> "none"]
      BY <2>1 DEF NoCursor
    <2>4. IsCursor(cursor'[r])
      BY <2>3 DEF IsCursor
    <2>5. /\ cursor'[r].given + cursor'[r].bad = cursor'[r].seen
          /\ cursor'[r].ended = "none" /\ cursor'[r].said = "none"
      BY <2>3
    <2> QED BY <2>2, <2>4, <2>5 DEF RowsInv
  <1> QED
    BY <1>1, <1>5, <1>6, CursorFrame DEF CursorInv, PoolInv

\* Next reads a row.
LEMMA NextRowKeeps ==
    ASSUME CursorInv, NEW r \in Readers, NextRow(r)
    PROVE  CursorInv'
  <1>1. /\ rpc[r] = "cursor" /\ on[r] # NoConn /\ cursor[r].ended = "none"
        /\ rpc' = rpc /\ on' = on /\ owner' = owner /\ pool' = pool /\ lease' = lease /\ call' = call
    BY DEF NextRow, HasCursor, CursorInv, RowsInv, rvars, poolVars
  <1>2. PoolInv'
    BY <1>1, PoolInvStutters DEF CursorInv, PoolInv, PoolTypeOK
  <1>3. cursor' = [cursor EXCEPT ![r].seen = @ + 1, ![r].given = @ + 1]
        \/ cursor' = [cursor EXCEPT ![r].seen = @ + 1, ![r].bad = @ + 1]
    BY DEF NextRow
  <1>4. RowsInv(r)'
    <2>1. \/ cursor'[r] = [cursor[r] EXCEPT !.seen = @ + 1, !.given = @ + 1]
          \/ cursor'[r] = [cursor[r] EXCEPT !.seen = @ + 1, !.bad = @ + 1]
      BY <1>3 DEF CursorInv
    <2>2. /\ IsCursor(cursor[r]) /\ cursor[r].given + cursor[r].bad = cursor[r].seen
          /\ rpc'[r] = "cursor"
      BY <1>1 DEF CursorInv, RowsInv
    <2> DEFINE c == cursor[r]
               d == cursor'[r]
    <2>3. \/ d = [total |-> c.total, seen |-> c.seen + 1, given |-> c.given + 1, bad |-> c.bad,
                  ended |-> c.ended, said |-> c.said]
          \/ d = [total |-> c.total, seen |-> c.seen + 1, given |-> c.given, bad |-> c.bad + 1,
                  ended |-> c.ended, said |-> c.said]
      BY <2>1, <2>2 DEF IsCursor
    <2>4. c.given \in Nat /\ c.bad \in Nat /\ c.seen \in Nat /\ c.total \in Nat
      BY <2>2 DEF IsCursor
    <2> HIDE DEF c, d
    <2>5. IsCursor(d) /\ d.ended = c.ended /\ d.said = c.said
      BY <2>3, <2>4 DEF IsCursor
    <2>6. c.given + c.bad = c.seen
      BY <2>2 DEF c
    <2>7. d.given + d.bad = d.seen
      BY <2>3, <2>4, <2>6
    <2>8. c.ended = "none" /\ c.said # "eof"
      BY <1>1 DEF CursorInv, RowsInv, c
    <2> QED BY <1>1, <2>2, <2>5, <2>7, <2>8 DEF RowsInv, c, d
  <1> QED
    BY <1>1, <1>2, <1>3, <1>4, CursorFrame DEF CursorInv

\* The rows end, at the end of the table or before it.
LEMMA EndKeeps ==
    ASSUME CursorInv, SchemaReaderAssumption, ConnPoolAssumption, NEW r \in Readers,
           NextEOF(r) \/ NextFails(r) \/ RowsOver(r)
    PROVE  CursorInv'
  <1>1. PICK how \in {"end", "error"} :
          /\ rpc[r] = "cursor" /\ CloseRows(r) /\ pool' = pool /\ lease' = lease /\ rpc' = rpc
          /\ cursor' = [cursor EXCEPT ![r].ended = how,
                                       ![r].said = IF how = "end" THEN "eof" ELSE @]
          /\ how = "end" => cursor[r].seen = cursor[r].total
          /\ call' = call \/ call' = [call EXCEPT ![r].hit = {"next"}]
    BY DEF NextEOF, NextFails, RowsOver, HasCursor, EndRows
  <1>5. on[r] # NoConn
    BY DEF NextEOF, NextFails, RowsOver, HasCursor
  <1>2. rpc' = [rpc EXCEPT ![r] = "cursor"] /\ on' = [on EXCEPT ![r] = NoConn]
    BY <1>1 DEF CursorInv, PoolInv, CloseRows
  <1>3. PoolInv'
    BY <1>1, <1>2, CursorRowsClosed DEF CursorInv
  <1>4. RowsInv(r)'
    <2> DEFINE c == cursor[r]
               d == cursor'[r]
    <2>1. d = [c EXCEPT !.ended = how, !.said = IF how = "end" THEN "eof" ELSE @]
      BY <1>1 DEF CursorInv
    <2>2. IsCursor(c) /\ c.given + c.bad = c.seen /\ (how = "end" => c.seen = c.total)
      BY <1>1 DEF CursorInv, RowsInv
    <2>3. c.said = "eof" => c.ended \in {"end", "closed"}
      BY DEF CursorInv, RowsInv
    <2>4. rpc'[r] = "cursor" /\ on'[r] = NoConn /\ (c.ended # "none" => on[r] = NoConn)
      BY <1>1, <1>2 DEF CursorInv, PoolInv, RowsInv
    <2>5. c.ended = "none"
      BY <1>5, <2>4
    <2> HIDE DEF c, d
    <2>6. d = [total |-> c.total, seen |-> c.seen, given |-> c.given, bad |-> c.bad,
               ended |-> how, said |-> IF how = "end" THEN "eof" ELSE c.said]
      BY <2>1, <2>2 DEF IsCursor
    <2>7. IsCursor(d) /\ d.given + d.bad = d.seen /\ d.ended = how
          /\ (d.ended = "end" => d.seen = d.total) /\ (d.said = "eof" => d.ended = "end")
      BY <2>2, <2>3, <2>5, <2>6 DEF IsCursor
    <2> QED BY <2>4, <2>7 DEF RowsInv, d
  <1> QED
    BY <1>1, <1>2, <1>3, <1>4, CursorFrame DEF CursorInv, PoolInv

\* Close closes the rows, ended or not.
LEMMA CloseKeeps ==
    ASSUME CursorInv, SchemaReaderAssumption, ConnPoolAssumption, NEW r \in Readers, CloseCursor(r)
    PROVE  CursorInv'
  <1>1. /\ rpc[r] = "cursor" /\ CloseRows(r) /\ pool' = pool /\ lease' = lease
        /\ rpc' = [rpc EXCEPT ![r] = "done"] /\ call' = call /\ on' = [on EXCEPT ![r] = NoConn]
        /\ cursor' = [cursor EXCEPT ![r].ended = IF @ = "none" THEN "closed" ELSE @]
    BY DEF CloseCursor, Goto, CloseRows
  <1>2. PoolInv'
    BY <1>1, CursorRowsClosed DEF CursorInv
  <1>3. RowsInv(r)'
    BY <1>1 DEF CursorInv, RowsInv, IsCursor, PoolInv
  <1> QED
    BY <1>1, <1>2, <1>3, CursorFrame DEF CursorInv, PoolInv

\* Next is asked again after that.
LEMMA NextClosedKeeps ==
    ASSUME CursorInv, NEW r \in Readers, NextClosed(r)
    PROVE  CursorInv'
  <1>1. /\ cursor[r].ended = "closed" /\ cursor' = [cursor EXCEPT ![r].said = "eof"]
        /\ rpc[r] = "done" /\ UNCHANGED rvars
    BY DEF NextClosed
  <1>2. UNCHANGED <<pool, owner, rpc, on, lease, call>>
    BY <1>1 DEF rvars, poolVars
  <1>3. PoolInv'
    BY <1>2, PoolInvStutters DEF CursorInv, PoolInv, PoolTypeOK
  <1>4. RowsInv(r)'
    BY <1>1, <1>2 DEF CursorInv, RowsInv, IsCursor
  <1> QED
    BY <1>1, <1>2, <1>3, <1>4, CursorFrame DEF CursorInv

\* The context of the cursor ends.
LEMMA CancelCursorKeeps ==
    ASSUME CursorInv, NEW r \in Readers, CancelCursor(r)
    PROVE  CursorInv'
  <1>1. /\ rpc[r] = "cursor" /\ call' = [call EXCEPT ![r].live = FALSE] /\ rpc' = rpc /\ on' = on
        /\ lease' = lease /\ owner' = owner /\ pool' = pool /\ cursor' = cursor
    BY DEF CancelCursor, poolVars
  <1>2. Frame(r) /\ HoldingInv(r)'
    BY <1>1, ZenonT(40) DEF CursorInv, PoolInv, Frame, PoolTypeOK, HoldingInv
  <1>3. CallInv(r)'
    BY <1>1 DEF CursorInv, PoolInv, CallInv, IsCall
  <1>4. PoolInv'
    BY <1>2, <1>3, FrameKeeps DEF CursorInv
  <1> QED
    BY <1>1, <1>4 DEF CursorInv, RowsInv

\* The invariant holds of every run of the cursors and the schema reads.
LEMMA CursorInvAlways ==
    SourceSpec => []CursorInv
  <1> USE SchemaReaderAssumption, ConnPoolAssumption, SourceRowsAssumption
  <1>1. SourceInit => CursorInv
    <2> SUFFICES ASSUME SourceInit PROVE CursorInv
      OBVIOUS
    <2>1. PoolInv
      BY PoolInvInit DEF SourceInit, ReaderInit
    <2>2. \A r \in Readers : RowsInv(r)
      BY DEF SourceInit, ReaderInit, ReadersInit, RowsInv, IsCursor, NoCursor
    <2> QED BY <2>1, <2>2 DEF CursorInv, SourceInit
  <1>2. CursorInv /\ [SourceNext]_sourceVars => CursorInv'
    <2> SUFFICES ASSUME CursorInv, [SourceNext]_sourceVars PROVE CursorInv'
      OBVIOUS
    <2>1. CASE ReaderNext /\ UNCHANGED cursor
      BY <2>1, ReadersKeep
    <2>2. CASE UNCHANGED sourceVars
      BY <2>2, ReadersKeep DEF sourceVars
    <2>3. ASSUME NEW r \in Readers, CursorStep(r) PROVE CursorInv'
      BY <2>3, OpenKeeps, NextRowKeeps, EndKeeps, CloseKeeps, CancelCursorKeeps,
         NextClosedKeeps DEF CursorStep
    <2> QED
      BY <2>1, <2>2, <2>3 DEF SourceNext
  <1> QED
    BY <1>1, <1>2, PTL DEF SourceSpec

-----------------------------------------------------------------------------
\* Next says io.EOF only once every row was given or reported, or the caller closed the
\* rows itself (source_rows.go:117).
THEOREM CutRowsAreNoEnd ==
    SourceSpec => []EofIsComplete
  <1>1. CursorInv => EofIsComplete
    BY DEF CursorInv, RowsInv, EofIsComplete
  <1> QED
    BY <1>1, CursorInvAlways, PTL

\* A schema read that returned, and a cursor that was closed, hold no connection,
\* whatever ended the rows before (source_rows.go:171).
THEOREM ClosedCursorsFree ==
    SourceSpec => []ReturnedHoldsNothing
  <1>1. CursorInv => ReturnedHoldsNothing
    BY ConnPoolAssumption DEF CursorInv, PoolInv, HoldingInv, ReturnedHoldsNothing
  <1> QED
    BY <1>1, CursorInvAlways, PTL

=============================================================================
