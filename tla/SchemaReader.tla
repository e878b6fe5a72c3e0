---------------------------- MODULE SchemaReader ----------------------------
(***************************************************************************)
(* The schema reads of a Database, or of a borrowed reader, running at the *)
(* same time over one pool: each sends the queries of CatalogQueries one   *)
(* after the other, every query on a connection it waits for, none in a    *)
(* transaction.  DDL of other connections commits between any two of them; *)
(* a query or its rows may fail; the caller's context may be cancelled;    *)
(* the pool may be closed.                                                 *)
(*                                                                         *)
(* The rows of a query show the catalog of the moment it was opened.       *)
(***************************************************************************)
EXTENDS CatalogQueries, ConnPool

CONSTANTS
    Readers,     \* calls of the schema reads
    Requests,    \* what they may ask: [op, name, lenient]
    Catalogs,    \* the catalogs DDL may leave
    MaxCommits,  \* bound of the commits of other connections
    MaxFaults    \* bound of the queries that fail

ASSUME SchemaReaderAssumption ==
    /\ Readers \subseteq Calls
    /\ \A q \in Requests : q.op \in Operations
    /\ MaxCommits \in Nat /\ MaxFaults \in Nat

ASSUME CatalogsAssumption == \A c \in Catalogs : SoundCatalog(c)

VARIABLES
    cat, commits, faults,
    rpc,     \* where a call is: idle, next (to send a query), rows, leaving, done,
             \* or cursor (SourceRows)
    on,      \* the connection of its open rows
    lease,   \* the connection of its sql.Conn (readForeignKeys)
    call     \* the rest of its state, see NewCall

world == <<cat, commits, faults>>
rvars == <<poolVars, world, rpc, on, lease, call>>

\* "from" and "since" are the catalog at the start of the call and the commits
\* since; "hit" is the kinds of its queries that failed, for whatever reason.
NewCall(r) ==
    [req |-> r, todo |-> Program(r), got |-> <<>>, answer |-> Nil, live |-> TRUE,
     outcome |-> "none", from |-> cat, since |-> 0, hit |-> {}]

ReadersInit ==
    /\ cat \in Catalogs /\ commits = 0 /\ faults = 0
    /\ rpc = [r \in Readers |-> "idle"]
    /\ on = [r \in Readers |-> NoConn]
    /\ lease = [r \in Readers |-> NoConn]
    /\ call = [r \in Readers |-> [outcome |-> "none"]]

ReaderInit == pool = "open" /\ AllFree /\ ReadersInit

-----------------------------------------------------------------------------
InCall(r) == rpc[r] \in {"next", "rows", "leaving"}

Query(r) == CHOOSE q \in Head(call[r].todo) : TRUE

\* A query is about to be sent; the sql.Conn is asked for and closed like one.
Sending(r) == rpc[r] = "next" /\ call[r].todo # <<>>

Goto(r, to) == rpc' = [rpc EXCEPT ![r] = to]

Call(r, q) ==
    /\ rpc[r] = "idle" /\ Goto(r, "next")
    /\ call' = [call EXCEPT ![r] = NewCall(q)]
    /\ UNCHANGED <<poolVars, world, on, lease>>

\* The query is opened: on the sql.Conn of the call, or on any connection of the
\* pool once one is free.
Begin(r) ==
    /\ Sending(r) /\ Query(r).kind \notin {"conn", "connClose"}
    /\ IF lease[r] # NoConn
       THEN on' = [on EXCEPT ![r] = lease[r]] /\ UNCHANGED owner
       ELSE /\ call[r].live
            /\ \E c \in Conns : Take(r, c) /\ on' = [on EXCEPT ![r] = c]
    /\ call' = [call EXCEPT ![r].answer = RowsOf(Query(r), cat)]
    /\ Goto(r, "rows")
    /\ UNCHANGED <<pool, world, lease>>

\* The queries of a loop that are still to be sent, if any.
Left(Q) == IF Q = {} THEN <<>> ELSE <<Q>>

\* The answers A with the one of q.
Learn(A, q, answer) == [p \in DOMAIN A \cup {q} |-> IF p = q THEN answer ELSE A[p]]

\* What a call knows, and has still to ask, once it has the answer of a query.
Answered(r, answer) ==
    LET q == Query(r)
        got == Learn(call[r].got, q, answer)
    IN [call EXCEPT ![r].got = got, ![r].answer = Nil,
                    ![r].todo = Left(Following(q, answer, got))
                                \o Left(Head(@) \ {q}) \o Tail(@)]

Refused(r) == Refuses(Query(r), call[r].answer, call[r].got, call[r].req.lenient)

CloseRows(r) ==
    /\ on' = [on EXCEPT ![r] = NoConn]
    /\ IF lease[r] = NoConn THEN GiveBack({on[r]}) ELSE UNCHANGED owner

\* Mutant: the rows of a listing stay open while its entries are asked about.
DrainOpen(r) ==
    /\ rpc[r] = "rows" /\ ~Refused(r) /\ Query(r).kind # "sourceRows"
    /\ call' = Answered(r, call[r].answer)
    /\ Goto(r, "next")
    /\ IF Query(r).kind = "indexList" THEN UNCHANGED <<owner, on>> ELSE CloseRows(r)
    /\ UNCHANGED <<pool, world, lease>>

\* The rows are read to their end and closed before the next query is sent; only
\* those of OpenSourceRows are left open, see SourceRows.
Drain(r) ==
    /\ rpc[r] = "rows" /\ ~Refused(r) /\ Query(r).kind # "sourceRows"
    /\ call' = Answered(r, call[r].answer)
    /\ Goto(r, "next")
    /\ CloseRows(r)
    /\ UNCHANGED <<pool, world, lease>>

\* Some row makes the operation return an error: its deferred calls are left.
Refuse(r) ==
    /\ rpc[r] = "rows" /\ Refused(r)
    /\ Goto(r, "leaving")
    /\ UNCHANGED <<poolVars, world, on, lease, call>>

\* Mutant: an error of the rows of an index list ends the list.
FailUnchecked(r) ==
    /\ call' = [(IF rpc[r] = "rows" /\ Query(r).kind = "indexList" THEN Answered(r, <<>>) ELSE call)
                  EXCEPT ![r].hit = @ \cup {Query(r).kind}]
    /\ IF rpc[r] = "rows" /\ Query(r).kind = "indexList"
       THEN Goto(r, "next") /\ CloseRows(r)
       ELSE Goto(r, "leaving") /\ UNCHANGED <<owner, on>>
    /\ UNCHANGED <<pool, lease, cat, commits>>

\* The query in hand fails, as it is sent or while its rows are read.
Fail(r) ==
    /\ IF Swallows(Query(r), rpc[r] = "rows")
       THEN /\ call' = [Answered(r, FALSE) EXCEPT ![r].hit = @ \cup {Query(r).kind}]
            /\ Goto(r, "next")
            /\ IF rpc[r] = "rows" THEN CloseRows(r) ELSE UNCHANGED <<owner, on>>
       ELSE /\ call' = [call EXCEPT ![r].hit = @ \cup {Query(r).kind}]
            /\ Goto(r, "leaving")
            /\ UNCHANGED <<owner, on>>
    /\ UNCHANGED <<pool, lease, cat, commits>>

\* SQLite, the file or the wire fails the query.
Fault(r) ==
    /\ (Sending(r) /\ Query(r).kind # "connClose") \/ rpc[r] = "rows"
    /\ faults < MaxFaults /\ faults' = faults + 1
    /\ Fail(r)

\* database/sql refuses a query under a context that is over or on a closed pool,
\* and ends rows whose context is over.
Interrupt(r) ==
    /\ \/ Sending(r) /\ Query(r).kind # "connClose"
            /\ (~call[r].live \/ (lease[r] = NoConn /\ pool = "closed"))
       \/ rpc[r] = "rows" /\ ~call[r].live
    /\ Fail(r)
    /\ UNCHANGED faults

\* readForeignKeys takes a connection of its own for its queries.
HoldConn(r) ==
    /\ Sending(r) /\ Query(r).kind = "conn" /\ call[r].live
    /\ \E c \in Conns : Take(r, c) /\ lease' = [lease EXCEPT ![r] = c]
    /\ call' = Answered(r, TRUE)
    /\ UNCHANGED <<pool, world, rpc, on>>

FreeConn(r) ==
    /\ Sending(r) /\ Query(r).kind = "connClose"
    /\ GiveBack({lease[r]})
    /\ lease' = [lease EXCEPT ![r] = NoConn]
    /\ call' = Answered(r, TRUE)
    /\ UNCHANGED <<pool, world, rpc, on>>

Describes(req) ==
    req.op = "DescribeCollection" \/ (req.op = "ListIndexes" /\ req.lenient)

\* OpenSourceRows of no table at all sends no query.
Nameless(req) == req.op = "OpenSourceRows" /\ req.name = Empty

\* Every query is answered: the operation returns what it read.
Finish(r) ==
    /\ rpc[r] = "next" /\ call[r].todo = <<>>
    /\ Goto(r, "done")
    /\ call' = [call EXCEPT ![r].outcome =
                  IF \/ Nameless(call[r].req)
                     \/ Describes(call[r].req) /\ SourceDiffers(call[r].got, call[r].req.name)
                  THEN "error" ELSE "ok"]
    /\ UNCHANGED <<poolVars, world, on, lease>>

\* Mutant: an error return closes the rows but not the sql.Conn.
LeaveLeased(r) ==
    /\ rpc[r] = "leaving" /\ Goto(r, "done")
    /\ IF lease[r] = NoConn THEN GiveBack({on[r]}) ELSE UNCHANGED owner
    /\ on' = [on EXCEPT ![r] = NoConn]
    /\ call' = [call EXCEPT ![r].outcome = "error"]
    /\ UNCHANGED <<pool, world, lease>>

\* The deferred Close of the rows, then of the sql.Conn.
Leave(r) ==
    /\ rpc[r] = "leaving" /\ Goto(r, "done")
    /\ GiveBack({on[r], lease[r]})
    /\ on' = [on EXCEPT ![r] = NoConn]
    /\ lease' = [lease EXCEPT ![r] = NoConn]
    /\ call' = [call EXCEPT ![r].outcome = "error"]
    /\ UNCHANGED <<pool, world>>

-----------------------------------------------------------------------------
\* The caller's context ends.
Cancel(r) ==
    /\ InCall(r) /\ call[r].live
    /\ call' = [call EXCEPT ![r].live = FALSE]
    /\ UNCHANGED <<poolVars, world, rpc, on, lease>>

\* DDL of another connection commits.
Commit ==
    /\ commits < MaxCommits /\ commits' = commits + 1
    /\ cat' \in Catalogs \ {cat}
    /\ call' = [r \in Readers |-> IF InCall(r) THEN [call[r] EXCEPT !.since = @ + 1] ELSE call[r]]
    /\ UNCHANGED <<poolVars, faults, rpc, on, lease>>

\* The owner of the pool closes it.
ClosePool ==
    /\ pool = "open" /\ pool' = "closed"
    /\ UNCHANGED <<owner, world, rpc, on, lease, call>>

\* What a call does by itself.
Progress(r) ==
    \/ Begin(r) \/ Drain(r) \/ Refuse(r) \/ Interrupt(r)
    \/ HoldConn(r) \/ FreeConn(r) \/ Finish(r) \/ Leave(r)

ReadersRun ==
    \/ \E r \in Readers : Progress(r) \/ Fault(r) \/ Cancel(r)
    \/ Commit

ReaderNext ==
    \/ \E r \in Readers, q \in Requests : Call(r, q)
    \/ ReadersRun
    \/ ClosePool

\* A call goes on once it has begun; nobody has to call, cancel, commit or close,
\* and no query has to fail.
ReaderFairness == \A r \in Readers : WF_rvars(Progress(r))

ReaderSpec == ReaderInit /\ [][ReaderNext]_rvars /\ ReaderFairness

-----------------------------------------------------------------------------
(* Properties.                                                             *)

ReaderTypeOK ==
    /\ PoolTypeOK
    /\ commits \in 0..MaxCommits /\ faults \in 0..MaxFaults
    /\ rpc \in [Readers -> {"idle", "next", "rows", "leaving", "cursor", "done"}]
    /\ on \in [Readers -> Conns \cup {NoConn}]
    /\ lease \in [Readers -> Conns \cup {NoConn}]
    /\ \A r \in Readers : /\ call[r].outcome \in {"none", "ok", "error"}
                          /\ rpc[r] = "done" => call[r].outcome # "none"

\* No schema read holds a connection while it waits for another: a pool limited
\* to one open connection serves every read (schema_reader.go: "a pool limited to
\* one open connection cannot serve a query while those rows still hold that
\* connection").
OneConnectionEach ==
    \A r \in Readers : \A c, d \in Conns : owner[c] = r /\ owner[d] = r => c = d

\* A read that returned, on whichever path, has given its connection back.
ReturnedHoldsNothing ==
    \A r \in Readers : rpc[r] \in {"idle", "done"} => \A c \in Conns : owner[c] # r

\* A read hit by a failing query, the end of its context or the close of the pool
\* returns an error (schema_reader_borrowed.go: "a fault is reported by the read
\* that hits it").
FaultIsReported ==
    \A r \in Readers : rpc[r] = "done" /\ call[r].hit # {} => call[r].outcome = "error"

\* The two probes that swallow their errors, of AUTOINCREMENT and of the primary
\* key, are the only exceptions: no other query of any read fails unreported.
OtherFaultsAreReported ==
    \A r \in Readers :
        rpc[r] = "done" /\ call[r].hit \ {"autoInc", "pkProbe"} # {} => call[r].outcome = "error"

=============================================================================
