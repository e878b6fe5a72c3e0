---------------------------- MODULE TableReadSpan ----------------------------
(***************************************************************************)
(* The pinned table read of table_read.go: openTableRead acquires a pool,  *)
(* a connection and a transaction one after the other and releases what it *)
(* holds when a later step fails; Close invalidates the span, then releases*)
(* everything, and may be called by several goroutines at any time; Facts  *)
(* and Session answer without SQL; the context may be cancelled at any     *)
(* time, and database/sql then rolls the transaction back on its own.      *)
(*                                                                         *)
(* One span is modelled.  "ctx" is its lifetime context: the parent given  *)
(* to OpenTableRead until the span derives its own from it, and cancelled  *)
(* by the parent or by Close.  The reads of a returned span appear only as *)
(* users of the transaction; TableReadSession models them.                 *)
(***************************************************************************)
EXTENDS Naturals

CONSTANTS
    Opener,      \* the goroutine that opens the span
    Closers,     \* goroutines that may close it
    Askers,      \* goroutines that may call Facts or Session
    Users,       \* reads that may use the transaction
    MaxBytes,    \* TableReadLimits.MaxBytes
    MaxColumns   \* TableReadLimits.MaxColumns

\* Other limits are refused by OpenStart; the profile's ceilings, 256 KiB and 128
\* columns, play no part in the algorithm.
ASSUME TableReadSpanAssumption ==
    /\ Opener \notin Closers
    /\ MaxBytes \in Nat \ {0}
    /\ MaxColumns \in Nat \ {0}

Threads == Closers \cup {Opener}

\* Integers and reals occupy at most eight bytes.
MinCellBytes == 8

VARIABLES
    opc,        \* the next step of openTableRead
    ctx,        \* live or cancelled
    closed,     \* TableReadSpan.closed
    db,         \* the private pool: none, open or closed
    conn,       \* its only connection
    tx,         \* none, active, claimed by Close or by database/sql, done
    queryOnly,  \* PRAGMA query_only of the connection
    length,     \* SQLITE_LIMIT_LENGTH of the connection, 0 while not set
    ncol,       \* number of columns of the table, 0 while not inspected
    cpc,        \* where each goroutine is in Close
    inUse,      \* the reads that hold the transaction
    apc,        \* where each asker is in Facts or Session
    invalid     \* the span was invalid when the asker called

resources == <<db, conn, tx>>
limits == <<queryOnly, length, ncol>>
asking == <<apc, invalid>>
vars == <<opc, ctx, closed, resources, limits, cpc, inUse, asking>>

OpenSteps == {"start", "open", "conn", "limits", "queryOnly", "begin", "inspect",
              "cells", "session", "live"}

TypeOK ==
    /\ opc \in OpenSteps \cup {"refused", "failing", "failed", "returned"}
    /\ ctx \in {"live", "cancelled"}
    /\ closed \in BOOLEAN
    /\ db \in {"none", "open", "closed"}
    /\ conn \in {"none", "open", "closed"}
    /\ tx \in {"none", "active", "byClose", "byWatcher", "done"}
    /\ queryOnly \in BOOLEAN
    /\ length \in Nat
    /\ ncol \in 0..MaxColumns
    /\ cpc \in [Threads -> {"idle", "cancel", "rollback", "rolling", "conn", "db", "returned"}]
    /\ inUse \subseteq Users
    /\ apc \in [Askers -> {"idle", "factsCtx", "factsFlag", "sessionFlag", "sessionCtx",
                           "ok", "error"}]
    /\ invalid \in [Askers -> BOOLEAN]

Init ==
    /\ opc = "start" /\ ctx = "live" /\ closed = FALSE
    /\ db = "none" /\ conn = "none" /\ tx = "none"
    /\ queryOnly = FALSE /\ length = 0 /\ ncol = 0
    /\ cpc = [t \in Threads |-> "idle"]
    /\ inUse = {}
    /\ apc = [a \in Askers |-> "idle"]
    /\ invalid = [a \in Askers |-> FALSE]

-----------------------------------------------------------------------------
(* openTableRead.                                                          *)

Live == ctx = "live"

Advance(from, to) == opc = from /\ opc' = to

\* A step that fails leaves through the deferred Close of the span.
FailFrom(from) ==
    /\ Advance(from, "failing")
    /\ UNCHANGED <<ctx, closed, resources, limits, cpc, inUse, asking>>

\* Arguments outside the profile and a context that is over are refused before
\* anything is acquired.
OpenStart ==
    /\ \/ Advance("start", "refused")
       \/ Live /\ Advance("start", "open")
    /\ UNCHANGED <<ctx, closed, resources, limits, cpc, inUse, asking>>

OpenDB ==
    \/ FailFrom("open")
    \/ /\ Advance("open", "conn")
       /\ db' = "open"
       /\ UNCHANGED <<ctx, closed, conn, tx, limits, cpc, inUse, asking>>

OpenConn ==
    \/ FailFrom("conn")
    \/ /\ Live /\ Advance("conn", "limits")
       /\ conn' = "open"
       /\ UNCHANGED <<ctx, closed, db, tx, limits, cpc, inUse, asking>>

\* SQLite may set another limit than the one it is asked for: it is read back.
SetLength(v, from, to) ==
    \E actual \in {v, v + 1} :
      /\ length' = actual
      /\ IF actual = v THEN Advance(from, to) ELSE Advance(from, "failing")

OpenLimits ==
    \/ FailFrom("limits")
    \/ /\ SetLength(MaxBytes, "limits", "queryOnly")
       /\ UNCHANGED <<ctx, closed, resources, queryOnly, ncol, cpc, inUse, asking>>

OpenQueryOnly ==
    \/ FailFrom("queryOnly")
    \/ /\ queryOnly' \in BOOLEAN
       /\ IF queryOnly' THEN Advance("queryOnly", "begin") ELSE Advance("queryOnly", "failing")
       /\ UNCHANGED <<ctx, closed, resources, length, ncol, cpc, inUse, asking>>

OpenBegin ==
    \/ FailFrom("begin")
    \/ /\ Advance("begin", "inspect")
       /\ tx' = "active"
       /\ UNCHANGED <<ctx, closed, db, conn, limits, cpc, inUse, asking>>

\* Mutant: one column too many is accepted.
OpenInspectOneMore ==
    \/ FailFrom("inspect")
    \/ /\ tx = "active" /\ Advance("inspect", "cells")
       /\ ncol' \in 1..(MaxColumns + 1)
       /\ UNCHANGED <<ctx, closed, resources, queryOnly, length, cpc, inUse, asking>>

\* inspectTableRead: the file and the table must fit the profile, and the
\* transaction must not have been rolled back by a cancellation.
OpenInspect ==
    \/ FailFrom("inspect")
    \/ /\ tx = "active" /\ Advance("inspect", "cells")
       /\ ncol' \in 1..MaxColumns
       /\ UNCHANGED <<ctx, closed, resources, queryOnly, length, cpc, inUse, asking>>

\* Mutant: the budget of a cell is rounded up.
CellBytesUp(n) == (MaxBytes + n - 1) \div n

CellBytes(n) == MaxBytes \div n

\* The budget of a row is divided among the cells and set as the length limit.
OpenCells ==
    \/ FailFrom("cells")
    \/ /\ opc = "cells" /\ CellBytes(ncol) >= MinCellBytes
       /\ SetLength(CellBytes(ncol), "cells", "session")
       /\ UNCHANGED <<ctx, closed, resources, queryOnly, ncol, cpc, inUse, asking>>

OpenSession ==
    \/ FailFrom("session")
    \/ /\ Advance("session", "live")
       /\ UNCHANGED <<ctx, closed, resources, limits, cpc, inUse, asking>>

\* The span is returned unless its context ended meanwhile.
OpenLive ==
    IF Live
    THEN /\ Advance("live", "returned")
         /\ UNCHANGED <<ctx, closed, resources, limits, cpc, inUse, asking>>
    ELSE FailFrom("live")

\* Mutant: the span is not closed when opening fails.
OpenFailedUnclosed ==
    /\ Advance("failing", "failed")
    /\ UNCHANGED <<ctx, closed, resources, limits, cpc, inUse, asking>>

OpenFailed ==
    /\ cpc[Opener] = "returned" /\ Advance("failing", "failed")
    /\ UNCHANGED <<ctx, closed, resources, limits, cpc, inUse, asking>>

Open == \/ OpenStart \/ OpenDB \/ OpenConn \/ OpenLimits \/ OpenQueryOnly \/ OpenBegin
        \/ OpenInspect \/ OpenCells \/ OpenSession \/ OpenLive \/ OpenFailed

-----------------------------------------------------------------------------
(* Close: by the opener when opening fails, by anyone once it returned.    *)
(* The errors of its native calls are collected and returned; they do not  *)
(* change what it does and are left out.                                   *)

MayClose(t) == IF t = Opener THEN opc = "failing" ELSE opc = "returned"

Goto(t, to) == cpc' = [cpc EXCEPT ![t] = to]

\* Mutant: the flag is set but its former value is not looked at.
CloseSet(t) ==
    /\ cpc[t] = "idle" /\ MayClose(t)
    /\ closed' = TRUE
    /\ Goto(t, "cancel")
    /\ UNCHANGED <<opc, ctx, resources, limits, inUse, asking>>

\* Only the first caller goes on; the others return nil at once.
CloseSwap(t) ==
    /\ cpc[t] = "idle" /\ MayClose(t)
    /\ closed' = TRUE
    /\ Goto(t, IF closed THEN "returned" ELSE "cancel")
    /\ UNCHANGED <<opc, ctx, resources, limits, inUse, asking>>

CloseCancel(t) ==
    /\ cpc[t] = "cancel"
    /\ ctx' = "cancelled"
    /\ Goto(t, "rollback")
    /\ UNCHANGED <<opc, closed, resources, limits, inUse, asking>>

\* Mutant: ErrTxDone skips the close of the connection.
CloseRollbackSkips(t) ==
    /\ cpc[t] = "rollback"
    /\ IF tx = "active" THEN tx' = "byClose" /\ Goto(t, "rolling")
                        ELSE UNCHANGED tx /\ Goto(t, "db")
    /\ UNCHANGED <<opc, ctx, closed, db, conn, limits, inUse, asking>>

\* Mutant: ErrTxDone is not tolerated, the roll back is tried again.
CloseRollbackRetries(t) ==
    /\ cpc[t] = "rollback" /\ tx = "active"
    /\ tx' = "byClose"
    /\ Goto(t, "rolling")
    /\ UNCHANGED <<opc, ctx, closed, db, conn, limits, inUse, asking>>

\* Tx.Rollback claims the transaction, or finds it claimed (ErrTxDone, ignored).
CloseRollback(t) ==
    /\ cpc[t] = "rollback"
    /\ IF tx = "active" THEN tx' = "byClose" /\ Goto(t, "rolling")
                        ELSE UNCHANGED tx /\ Goto(t, "conn")
    /\ UNCHANGED <<opc, ctx, closed, db, conn, limits, inUse, asking>>

\* The native roll back waits for the reads that hold the transaction.
CloseRolled(t) ==
    /\ cpc[t] = "rolling" /\ inUse = {}
    /\ tx' = "done"
    /\ Goto(t, "conn")
    /\ UNCHANGED <<opc, ctx, closed, db, conn, limits, inUse, asking>>

\* Conn.Close waits until the transaction, whoever ends it, gave the
\* connection back.
CloseConn(t) ==
    /\ cpc[t] = "conn"
    /\ \/ conn = "none" /\ UNCHANGED conn
       \/ conn = "open" /\ tx \in {"none", "done"} /\ conn' = "closed"
    /\ Goto(t, "db")
    /\ UNCHANGED <<opc, ctx, closed, db, tx, limits, inUse, asking>>

CloseDB(t) ==
    /\ cpc[t] = "db"
    /\ db' = IF db = "none" THEN db ELSE "closed"
    /\ Goto(t, "returned")
    /\ UNCHANGED <<opc, ctx, closed, conn, tx, limits, inUse, asking>>

Close(t) == \/ CloseSwap(t) \/ CloseCancel(t) \/ CloseRollback(t)
            \/ CloseRolled(t) \/ CloseConn(t) \/ CloseDB(t)

-----------------------------------------------------------------------------
(* The context, database/sql and the users of the transaction.             *)

\* The parent context is cancelled or reaches its deadline.
Cancel ==
    /\ Live /\ ctx' = "cancelled"
    /\ UNCHANGED <<opc, closed, resources, limits, cpc, inUse, asking>>

\* Mutant: the transaction does not begin under the span's context.
WatcherClaimLate ==
    /\ tx = "active" /\ closed /\ ctx = "cancelled"
    /\ tx' = "byWatcher"
    /\ UNCHANGED <<opc, ctx, closed, db, conn, limits, cpc, inUse, asking>>

\* The goroutine database/sql starts with a transaction: once the context is
\* over it claims the transaction, waits for its users and rolls it back.  It
\* keeps the error of that roll back to itself.
WatcherClaim ==
    /\ tx = "active" /\ ctx = "cancelled"
    /\ tx' = "byWatcher"
    /\ UNCHANGED <<opc, ctx, closed, db, conn, limits, cpc, inUse, asking>>

WatcherRolled ==
    /\ tx = "byWatcher" /\ inUse = {}
    /\ tx' = "done"
    /\ UNCHANGED <<opc, ctx, closed, db, conn, limits, cpc, inUse, asking>>

\* A read takes hold of the transaction; it cannot once it is claimed.
Use(u) ==
    /\ opc = "returned" /\ tx = "active" /\ u \notin inUse
    /\ inUse' = inUse \cup {u}
    /\ UNCHANGED <<opc, ctx, closed, resources, limits, cpc, asking>>

Unuse(u) ==
    /\ u \in inUse
    /\ inUse' = inUse \ {u}
    /\ UNCHANGED <<opc, ctx, closed, resources, limits, cpc, asking>>

-----------------------------------------------------------------------------
(* Facts looks at the contexts, the caller's first, then at the flag;      *)
(* Session at the flag first, and has no context of the caller.            *)

Ask(a) ==
    /\ apc[a] \in {"idle", "ok", "error"} /\ opc = "returned"
    /\ \E first \in {"factsCtx", "sessionFlag"} : apc' = [apc EXCEPT ![a] = first]
    /\ invalid' = [invalid EXCEPT ![a] = closed \/ ~Live]
    /\ UNCHANGED <<opc, ctx, closed, resources, limits, cpc, inUse>>

Answer(a, at, good, next) ==
    /\ apc[a] = at
    /\ apc' = [apc EXCEPT ![a] = IF good THEN next ELSE "error"]
    /\ UNCHANGED <<opc, ctx, closed, resources, limits, cpc, inUse, invalid>>

\* Mutant: Facts trusts the context alone.
FactsUnflagged(a) == \E callers \in BOOLEAN : Answer(a, "factsCtx", callers /\ Live, "ok")

\* The caller's own context may be over.
Facts(a) ==
    \/ \E callers \in BOOLEAN : Answer(a, "factsCtx", callers /\ Live, "factsFlag")
    \/ Answer(a, "factsFlag", ~closed, "ok")

Session(a) == Answer(a, "sessionFlag", ~closed, "sessionCtx") \/ Answer(a, "sessionCtx", Live, "ok")

-----------------------------------------------------------------------------
Watcher == WatcherClaim \/ WatcherRolled

Next ==
    \/ Open
    \/ \E t \in Threads : Close(t)
    \/ Cancel
    \/ Watcher
    \/ \E u \in Users : Use(u) \/ Unuse(u)
    \/ \E a \in Askers : Ask(a) \/ Facts(a) \/ Session(a)

\* openTableRead and a Close once begun go on, database/sql's goroutine runs,
\* and a read gives the transaction back (its context is cancelled with the
\* span's).  Nobody has to call Close, and no context has to end.
Fairness ==
    /\ WF_vars(Open)
    /\ \A t \in Threads : WF_vars(Close(t) /\ (cpc[t] # "idle" \/ t = Opener))
    /\ WF_vars(Watcher)
    /\ \A u \in Users : WF_vars(Unuse(u))
    /\ \A a \in Askers : WF_vars(Facts(a) \/ Session(a))

Spec == Init /\ [][Next]_vars /\ Fairness

-----------------------------------------------------------------------------
(* Properties.                                                             *)

Released == db # "open" /\ conn # "open" /\ tx \in {"none", "done"} /\ inUse = {}

\* The goroutine that owns the clean-up: it won the swap of the flag.
Cleaning(t) == cpc[t] \in {"cancel", "rollback", "rolling", "conn", "db"}

\* openTableRead that returns an error, at whichever of its steps and however
\* the context ended meanwhile, holds nothing: the deferred Close released all
\* that was acquired and nothing was acquired after it.
FailedOpenHoldsNothing == opc \in {"refused", "failed"} => Released

\* However many goroutines close the span, one of them cleans up, and when it
\* is through nothing is left open; concurrent calls of Close neither repeat
\* a native close nor leave a part of it to nobody.
OneCleanup ==
    /\ \A t, u \in Threads : Cleaning(t) /\ Cleaning(u) => t = u
    /\ closed /\ (\A t \in Threads : ~Cleaning(t)) => Released

\* The connection is closed only after the transaction on it was ended, by
\* Close or by the goroutine of database/sql that raced it, and the pool last.
CleanupOrder ==
    /\ conn = "closed" => tx \in {"none", "done"} /\ inUse = {}
    /\ db = "closed" => conn # "open"

\* The data of a returned span is read under query_only and under a length
\* limit whose sum over the columns stays within MaxBytes, with room for any
\* number in each cell (README: the sum of accepted native value bytes is
\* bounded by MaxBytes).
BoundedReads ==
    opc = "returned" =>
        queryOnly /\ length * ncol <= MaxBytes /\ length >= MinCellBytes

\* Facts and Session give no answer to a call made after the span was closed or
\* its context ended, also in the window where Close has set the flag and not
\* yet cancelled the context.
NoAnswerOnceInvalid == \A a \in Askers : apc[a] = "ok" => ~invalid[a]

\* A Close that began returns: the roll back it needs is done by itself or by
\* database/sql, and waiting for the reads ends.
CloseReturns == \A t \in Threads : Cleaning(t) ~> cpc[t] = "returned"

\* A cancelled span gives its transaction back even if nobody closes it.
CancelEndsTransaction == tx = "active" /\ ctx = "cancelled" ~> tx = "done"
=============================================================================
