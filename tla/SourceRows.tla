----------------------------- MODULE SourceRows -----------------------------
(***************************************************************************)
(* The cursor of source_rows.go: OpenSourceRows reads the columns of a     *)
(* table, then opens its rows and returns while they stay open; Next gives *)
(* one row after the other, Close ends them.  Until then, or until the     *)
(* rows or their context end, the cursor holds a connection of the pool.   *)
(*                                                                         *)
(* A row is only whether Next can convert it (a BOOLEAN other than 0 and   *)
(* 1, a decimal that is not finite, are errors).                           *)
(***************************************************************************)
EXTENDS SchemaReader

CONSTANT MaxRows   \* bound of the rows of a table

ASSUME SourceRowsAssumption == MaxRows \in Nat

VARIABLE cursor    \* of each call of OpenSourceRows that returned one

sourceVars == <<rvars, cursor>>

\* "total" rows when the query was opened, of which "seen" were read: "given" to
\* the caller or "bad"; "ended" is what ended the rows (their "end", an "error", or
\* the caller's Close: "closed"), "said" is "eof" once Next said io.EOF.
NoCursor == [total |-> 0, seen |-> 0, given |-> 0, bad |-> 0, ended |-> "none",
             said |-> "none"]

SourceInit == ReaderInit /\ cursor = [r \in Readers |-> NoCursor]

-----------------------------------------------------------------------------
\* OpenSourceRows returns with the rows open.
OpenSourceRows(r) ==
    /\ rpc[r] = "rows" /\ ~Refused(r) /\ Query(r).kind = "sourceRows"
    /\ Goto(r, "cursor")
    /\ \E n \in 0..MaxRows : cursor' = [cursor EXCEPT ![r].total = n]
    /\ call' = [call EXCEPT ![r].outcome = "ok"]
    /\ UNCHANGED <<poolVars, world, on, lease>>

HasCursor(r) == rpc[r] = "cursor" /\ on[r] # NoConn

NextRow(r) ==
    /\ HasCursor(r) /\ cursor[r].seen < cursor[r].total
    /\ \E result \in {"given", "bad"} :
         cursor' = [cursor EXCEPT ![r].seen = @ + 1, ![r][result] = @ + 1]
    /\ UNCHANGED rvars

\* database/sql closes rows that come to their end.
EndRows(r, how) ==
    /\ cursor' = [cursor EXCEPT ![r].ended = how,
                               ![r].said = IF how = "end" THEN "eof" ELSE @]
    /\ CloseRows(r)
    /\ UNCHANGED <<pool, cat, commits, rpc, lease>>

NextEOF(r) ==
    /\ HasCursor(r) /\ cursor[r].seen = cursor[r].total
    /\ EndRows(r, "end")
    /\ UNCHANGED <<faults, call>>

\* Mutant: Next takes the end of the rows for the end of the table.
NextFailsUnchecked(r) ==
    /\ HasCursor(r) /\ faults < MaxFaults /\ faults' = faults + 1
    /\ EndRows(r, "end")
    /\ call' = [call EXCEPT ![r].hit = {"next"}]

\* The rows fail: Next returns their error.
NextFails(r) ==
    /\ HasCursor(r) /\ faults < MaxFaults /\ faults' = faults + 1
    /\ EndRows(r, "error")
    /\ call' = [call EXCEPT ![r].hit = {"next"}]

\* database/sql closes the rows of a context that is over, whether or not the
\* caller ever comes back; Next then returns the error of the context.
RowsOver(r) ==
    /\ HasCursor(r) /\ ~call[r].live
    /\ EndRows(r, "error")
    /\ UNCHANGED <<faults, call>>

CancelCursor(r) ==
    /\ rpc[r] = "cursor" /\ call[r].live
    /\ call' = [call EXCEPT ![r].live = FALSE]
    /\ UNCHANGED <<poolVars, world, rpc, on, lease, cursor>>

\* Mutant: Close leaves rows to their end.
CloseAtEnd(r) ==
    /\ rpc[r] = "cursor" /\ Goto(r, "done")
    /\ IF cursor[r].ended = "none" /\ cursor[r].seen = 0 THEN UNCHANGED <<owner, on>>
       ELSE CloseRows(r)
    /\ cursor' = [cursor EXCEPT ![r].ended = IF @ = "none" THEN "closed" ELSE @]
    /\ UNCHANGED <<pool, world, lease, call>>

CloseCursor(r) ==
    /\ rpc[r] = "cursor" /\ Goto(r, "done")
    /\ CloseRows(r)
    /\ cursor' = [cursor EXCEPT ![r].ended = IF @ = "none" THEN "closed" ELSE @]
    /\ UNCHANGED <<pool, world, lease, call>>

\* Next of rows the caller closed finds neither a row nor an error, and says io.EOF,
\* whatever was left of the table; after another end it repeats itself.
NextClosed(r) ==
    /\ rpc[r] = "done" /\ cursor[r].ended = "closed"
    /\ cursor' = [cursor EXCEPT ![r].said = "eof"]
    /\ UNCHANGED rvars

CursorStep(r) ==
    \/ OpenSourceRows(r) \/ NextRow(r) \/ NextEOF(r) \/ NextFails(r)
    \/ RowsOver(r) \/ CancelCursor(r) \/ CloseCursor(r) \/ NextClosed(r)

SourceNext ==
    \/ ReaderNext /\ UNCHANGED cursor
    \/ \E r \in Readers : CursorStep(r)

\* Nobody has to read on, or to close a cursor.
SourceFairness ==
    \A r \in Readers :
        /\ WF_sourceVars(Progress(r) /\ UNCHANGED cursor)
        /\ WF_sourceVars(OpenSourceRows(r))
        /\ WF_sourceVars(RowsOver(r))

SourceSpec == SourceInit /\ [][SourceNext]_sourceVars /\ SourceFairness

-----------------------------------------------------------------------------
(* Properties.                                                             *)

\* Next says io.EOF only after every row of the table was given or reported by an
\* error: rows cut short by a fault or by the end of the context never pass for the
\* end of the table (source_rows.go:117).  Only a cursor its caller closed says it
\* with rows unread, for Close leaves no error behind.
EofIsComplete ==
    \A r \in Readers :
        cursor[r].said = "eof" =>
            \/ cursor[r].given + cursor[r].bad = cursor[r].total
            \/ cursor[r].ended = "closed"

=============================================================================
