--------------------------- MODULE SqliteDatabase ---------------------------
(***************************************************************************)
(* A pool and everything of this driver that runs over it: the handles of  *)
(* database.go (a Database, its LenientSchema copy) or the borrowed        *)
(* readers of schema_reader_borrowed.go, their schema reads (SchemaReader),*)
(* row cursors (SourceRows) and constraint checks (SourceConstraints).     *)
(*                                                                         *)
(* Either NewDatabase opens the pool, and any handle on it may close it;   *)
(* or the caller opened it, and only the caller closes it.                 *)
(***************************************************************************)
EXTENDS SourceRows, SourceConstraints

\* No call is both a read and a check.
ASSUME SqliteDatabaseAssumption == Readers \cap Checkers = {}

VARIABLES
    life,     \* none, ping, failing, failed, ours, callers
    handles,  \* what the caller got on the pool
    shut,     \* a Close of the pool's owners returned
    late      \* the schema reads that began after it

readerVars == <<world, rpc, on, lease, call, cursor>>
checkerVars == <<settings, kpc, locals>>
handleVars == <<life, handles, shut, late>>
dvars == <<poolVars, readerVars, checkerVars, handleVars>>

Databases == {"database", "lenient"}
Borrowed == {"borrowed", "borrowedLenient"}
IsLenient(h) == h \in {"lenient", "borrowedLenient"}

\* The five methods of dbschema.SchemaReader.
BorrowedOps == {"ListCollections", "DescribeCollection", "ListIndexes", "ListConstraints",
                "ListReferrers"}

DatabaseInit ==
    /\ pool = "none" /\ AllFree
    /\ ReadersInit /\ cursor = [r \in Readers |-> NoCursor]
    /\ CheckersInit
    /\ life = "none" /\ handles = {} /\ shut = FALSE /\ late = {}

-----------------------------------------------------------------------------
\* NewDatabaseWithOptions: sqlOpen connects to nothing yet and fails on a name it
\* cannot parse; the ping connects.
Open ==
    /\ life = "none"
    /\ \/ life' = "failed" /\ UNCHANGED pool
       \/ life' = "ping" /\ pool' = "open"
    /\ UNCHANGED <<owner, readerVars, checkerVars, handles, shut, late>>

Ping ==
    /\ life = "ping"
    /\ \/ life' = "failing" /\ UNCHANGED handles
       \/ life' = "ours" /\ handles' = {"database"}
    /\ UNCHANGED <<poolVars, readerVars, checkerVars, shut, late>>

\* Mutant: the pool of a file that does not answer is not closed.
PingFailedUnclosed ==
    /\ life = "failing" /\ life' = "failed"
    /\ UNCHANGED <<poolVars, readerVars, checkerVars, handles, shut, late>>

PingFailed ==
    /\ life = "failing" /\ life' = "failed"
    /\ pool' = "closed"
    /\ UNCHANGED <<owner, readerVars, checkerVars, handles, shut, late>>

\* The copy shares the pool.
LenientSchema ==
    /\ "database" \in handles /\ handles' = handles \cup {"lenient"}
    /\ UNCHANGED <<poolVars, readerVars, checkerVars, life, shut, late>>

\* The caller opens a pool of its own and borrows it to a reader.
CallerOpens ==
    /\ life = "none" /\ life' = "callers" /\ pool' = "open"
    /\ UNCHANGED <<owner, readerVars, checkerVars, handles, shut, late>>

NewSchemaReader ==
    /\ life = "callers" /\ \E h \in Borrowed : handles' = handles \cup {h}
    /\ UNCHANGED <<poolVars, readerVars, checkerVars, life, shut, late>>

\* Mutant: closing the copy leaves the pool to the original.
CloseOwn(h) ==
    /\ h \in handles \cap Databases
    /\ IF h = "database" THEN pool' = "closed" ELSE UNCHANGED pool
    /\ shut' = TRUE
    /\ UNCHANGED <<owner, readerVars, checkerVars, life, handles, late>>

\* Close of any handle closes the pool; closing it again does nothing.
Close(h) ==
    /\ h \in handles \cap Databases
    /\ pool' = "closed" /\ shut' = TRUE
    /\ UNCHANGED <<owner, readerVars, checkerVars, life, handles, late>>

CallerCloses ==
    /\ life = "callers" /\ pool = "open"
    /\ pool' = "closed" /\ shut' = TRUE
    /\ UNCHANGED <<owner, readerVars, checkerVars, life, handles, late>>

\* A schema read, or OpenSourceRows, of one of the handles.
CallOn(h, r, q) ==
    /\ q.lenient = IsLenient(h)
    /\ h \in Borrowed => q.op \in BorrowedOps
    /\ Call(r, q)
    /\ late' = IF shut THEN late \cup {r} ELSE late
    /\ UNCHANGED <<cursor, checkerVars, life, handles, shut>>

CheckOn(k) ==
    /\ handles \cap Databases # {}
    /\ Check(k)
    /\ UNCHANGED <<readerVars, handleVars>>

HandleStep ==
    \/ Open \/ Ping \/ PingFailed \/ LenientSchema \/ CallerOpens \/ NewSchemaReader \/ CallerCloses
    \/ \E h \in Databases : Close(h)

DatabaseNext ==
    \/ HandleStep
    \/ \E h \in handles, r \in Readers, q \in Requests : CallOn(h, r, q)
    \/ ReadersRun /\ UNCHANGED <<cursor, checkerVars, handleVars>>
    \/ \E r \in Readers : CursorStep(r) /\ UNCHANGED <<checkerVars, handleVars>>
    \/ \E k \in Checkers : CheckOn(k)
    \/ \E k \in Checkers : CheckRun(k) /\ UNCHANGED <<readerVars, handleVars>>

\* What has begun goes on: opening, the calls and the checks.
DatabaseFairness ==
    /\ WF_dvars(Ping \/ PingFailed)
    /\ \A r \in Readers :
         /\ WF_dvars(Progress(r) /\ UNCHANGED <<cursor, checkerVars, handleVars>>)
         /\ WF_dvars((OpenSourceRows(r) \/ RowsOver(r)) /\ UNCHANGED <<checkerVars, handleVars>>)
    /\ \A k \in Checkers : WF_dvars(CheckStep(k) /\ UNCHANGED <<readerVars, handleVars>>)

DatabaseSpec == DatabaseInit /\ [][DatabaseNext]_dvars /\ DatabaseFairness

-----------------------------------------------------------------------------
(* Properties.                                                             *)

DatabaseTypeOK ==
    /\ ReaderTypeOK /\ CheckTypeOK
    /\ life \in {"none", "ping", "failing", "failed", "ours", "callers"}
    /\ handles \subseteq Databases \cup Borrowed
    /\ late \subseteq Readers
    /\ \A r \in Readers : rpc[r] # "idle" => handles # {}

\* A NewDatabase that began ends with a handle on an open pool or without one: no
\* connections are left that nobody can close (database.go:118).
NoPoolWithoutHandle ==
    pool = "open" /\ life = "ping" ~> handles # {} \/ pool = "closed"

\* Closing the Database or its lenient copy closes both: a read that begins
\* after either Close, through either handle, returns an error (database.go: "The
\* two share one connection pool, so closing either closes both").
ClosingEitherClosesBoth ==
    \A r \in late : ~InCall(r) => rpc[r] = "done" /\ call[r].outcome = "error"

\* No connection serves two of the reads, cursors and checks that share the pool,
\* and each has at most the one it uses: none is left to a call that returned.
OneOwnerOneConn ==
    /\ \A r \in Readers : /\ Cardinality(HeldBy(r)) <= 1
                          /\ HeldBy(r) = {on[r], lease[r]} \ {NoConn}
    /\ \A k \in Checkers : HeldBy(k) = IF kpc[k] \in {"idle", "conn", "done"} THEN {} ELSE {conn[k]}

CursorsHoldAll == \A c \in Conns : \E r \in Readers : rpc[r] = "cursor" /\ on[r] = c

\* Reads and checks return unless open cursors hold every connection: only a
\* cursor its caller neither reads to the end, nor closes, nor cancels, keeps the
\* others waiting (source_rows.go:114).
ServedUnlessCursorsHoldAll ==
    /\ \A r \in Readers : InCall(r) ~> ~InCall(r) \/ CursorsHoldAll
    /\ \A k \in Checkers : kpc[k] # "idle" ~> kpc[k] = "done" \/ CursorsHoldAll

\* Once the pool is closed, all its connections come back but those of cursors.
ClosedPoolDrains ==
    pool = "closed" ~>
        \A c \in Conns : owner[c] = Nobody \/ \E r \in Readers : rpc[r] = "cursor" /\ on[r] = c

=============================================================================
