-------------------------- MODULE TableReadSession --------------------------
(***************************************************************************)
(* The reads of a pinned table: tableReadSession and its readers of        *)
(* table_read_session.go, composed with the span they belong to.           *)
(*                                                                         *)
(* Each user makes one call: a point read (Exists, Get, GetMulti) or a     *)
(* query that yields a reader.  callContext links the caller's context to  *)
(* the span's; liveness is checked before and after every native call, by  *)
(* loads one after the other, and a failed check releases the call.  A     *)
(* reader is iterated by its user and may be closed by another goroutine   *)
(* at the same time.  The caller may cancel its own context.               *)
(*                                                                         *)
(* Native behaviour (database/sql): a statement and the rows it yields     *)
(* hold the transaction; rows are closed by a goroutine of database/sql    *)
(* once their context or the transaction's is over, though not during a    *)
(* Next.  Recordset and Cursor are left out: the one changes nothing, the  *)
(* other is Next without advancing.                                        *)
(***************************************************************************)
EXTENDS TableReadSpan

VARIABLES
    spc,      \* where the call of each user is
    kind,     \* what it is
    own,      \* the caller cancelled its own context
    linked,   \* the context linked to the caller's: none, live, cancelled
    armed,    \* the AfterFunc on the span's context is registered
    rows,     \* native rows: none, open, closed
    handed,   \* a reader was returned to the user
    rclosed,  \* tableReadReader.closed
    rpc,      \* where each end of a reader is in its Close
    ncloses,  \* how often the native reader was closed, counted up to two
    got,      \* what the last call or Next returned
    late      \* the read was invalid by the time its native result was there

sessionVars == <<spc, kind, own, linked, armed, rows, handed, rclosed, rpc,
                 ncloses, got, late>>
spanVars == <<opc, ctx, closed, resources, limits, cpc, asking>>
svars == <<vars, sessionVars>>

Ends == {"main", "other"}

\* The liveness checks, each a load of the contexts and one of the flags, and
\* what follows when they pass.
AfterContexts == [recheck |-> "recheckFlag", lateCheck |-> "lateFlag",
                  next |-> "nextFlag", nextLate |-> "nextLateFlag"]
AfterFlags == [recheckFlag |-> "native", nextFlag |-> "nextNative"]
CallChecks == {"recheck", "recheckFlag", "lateCheck", "lateFlag"}
ReaderChecks == {"next", "nextFlag", "nextLate", "nextLateFlag"}

SessionTypeOK ==
    /\ TypeOK
    /\ spc \in [Users -> {"idle", "enter", "enterCtx", "link", "native", "running",
                          "abort", "abortClose", "release", "reader", "nextNative",
                          "nextRunning", "closing", "done"} \cup CallChecks \cup ReaderChecks]
    /\ kind \in [Users -> {"point", "query"}]
    /\ own \in [Users -> BOOLEAN]
    /\ linked \in [Users -> {"none", "live", "cancelled"}]
    /\ armed \in [Users -> BOOLEAN]
    /\ rows \in [Users -> {"none", "open", "closed"}]
    /\ handed \in [Users -> BOOLEAN]
    /\ rclosed \in [Users -> BOOLEAN]
    /\ rpc \in [Users -> [Ends -> {"idle", "swap", "release", "native", "done"}]]
    /\ ncloses \in [Users -> 0..2]
    /\ got \in [Users -> {"none", "value", "error"}]
    /\ late \in [Users -> BOOLEAN]
    /\ \A u \in Users :
         spc[u] \in {"reader", "nextNative", "nextRunning", "closing"} \cup ReaderChecks =>
             handed[u] /\ kind[u] = "query" /\ rows[u] # "none"

SessionInit ==
    /\ Init
    /\ spc = [u \in Users |-> "idle"]
    /\ kind = [u \in Users |-> "point"]
    /\ own = [u \in Users |-> FALSE]
    /\ linked = [u \in Users |-> "none"]
    /\ armed = [u \in Users |-> FALSE]
    /\ rows = [u \in Users |-> "none"]
    /\ handed = [u \in Users |-> FALSE]
    /\ rclosed = [u \in Users |-> FALSE]
    /\ rpc = [u \in Users |-> [e \in Ends |-> "idle"]]
    /\ ncloses = [u \in Users |-> 0]
    /\ got = [u \in Users |-> "none"]
    /\ late = [u \in Users |-> FALSE]

-----------------------------------------------------------------------------
Step(u, from, to) == spc[u] = from /\ spc' = [spc EXCEPT ![u] = to]

Report(u, what) == got' = [got EXCEPT ![u] = what]

\* release(): the AfterFunc is stopped and the linked context cancelled.
Release(u) ==
    /\ linked' = [linked EXCEPT ![u] = "cancelled"]
    /\ armed' = [armed EXCEPT ![u] = FALSE]

\* The native reader is closed: its rows give the transaction back.
CloseRows(u) ==
    /\ rows' = [rows EXCEPT ![u] = "closed"]
    /\ inUse' = inUse \ {u}
    /\ ncloses' = [ncloses EXCEPT ![u] = IF @ < 2 THEN @ + 1 ELSE @]

Invalid(u) == closed \/ ~Live \/ linked[u] = "cancelled" \/ rclosed[u]

-----------------------------------------------------------------------------
(* callContext.                                                            *)

Call(u) ==
    /\ opc = "returned" /\ Step(u, "idle", "enter")
    /\ kind' \in {[kind EXCEPT ![u] = k] : k \in {"point", "query"}}
    /\ UNCHANGED <<spanVars, inUse, own, linked, armed, rows, handed, rclosed, rpc,
                   ncloses, got, late>>

EnterFlag(u) ==
    /\ IF closed THEN Step(u, "enter", "done") /\ Report(u, "error")
                 ELSE Step(u, "enter", "enterCtx") /\ UNCHANGED got
    /\ UNCHANGED <<spanVars, inUse, kind, own, linked, armed, rows, handed, rclosed, rpc,
                   ncloses, late>>

EnterCtx(u) ==
    /\ IF own[u] \/ ~Live THEN Step(u, "enterCtx", "done") /\ Report(u, "error")
                          ELSE Step(u, "enterCtx", "link") /\ UNCHANGED got
    /\ UNCHANGED <<spanVars, inUse, kind, own, linked, armed, rows, handed, rclosed, rpc,
                   ncloses, late>>

\* The linked context is a child of the caller's; an AfterFunc ties it to the
\* span's.
Link(u) ==
    /\ Step(u, "link", "recheck")
    /\ linked' = [linked EXCEPT ![u] = IF own[u] THEN "cancelled" ELSE "live"]
    /\ armed' = [armed EXCEPT ![u] = TRUE]
    /\ UNCHANGED <<spanVars, inUse, kind, own, rows, handed, rclosed, rpc, ncloses, got, late>>

\* The AfterFunc runs, in a goroutine of its own, after the span's context ended.
Fire(u) ==
    /\ armed[u] /\ ~Live
    /\ Release(u)
    /\ UNCHANGED <<spanVars, inUse, spc, kind, own, rows, handed, rclosed, rpc, ncloses,
                   got, late>>

CallerCancel(u) ==
    /\ spc[u] \notin {"idle", "done"} /\ ~own[u]
    /\ own' = [own EXCEPT ![u] = TRUE]
    /\ linked' = [linked EXCEPT ![u] = IF @ = "live" THEN "cancelled" ELSE @]
    /\ UNCHANGED <<spanVars, inUse, spc, kind, armed, rows, handed, rclosed, rpc, ncloses,
                   got, late>>

-----------------------------------------------------------------------------
(* liveError: the linked and the span's context, then the flags.           *)

Contexts(u) == linked[u] = "live" /\ Live
Flags(u) == ~closed /\ (spc[u] \in ReaderChecks => ~rclosed[u])

\* Mutant: a failed check of a query closes its reader, which there may not be yet.
CheckFailsAsReader(u, at) ==
    /\ Step(u, at, IF kind[u] = "query" THEN "closing" ELSE "abort")
    /\ rpc' = IF kind[u] = "query" THEN [rpc EXCEPT ![u]["main"] = "swap"] ELSE rpc
    /\ Report(u, "error")
    /\ UNCHANGED handed

\* A failed check ends the call, or closes the reader.
CheckFails(u, at) ==
    /\ Step(u, at, IF at \in ReaderChecks THEN "closing" ELSE "abort")
    /\ rpc' = IF at \in ReaderChecks THEN [rpc EXCEPT ![u]["main"] = "swap"] ELSE rpc
    /\ Report(u, "error")
    /\ UNCHANGED handed

CheckContexts(u) ==
    /\ spc[u] \in DOMAIN AfterContexts
    /\ IF Contexts(u)
       THEN Step(u, spc[u], AfterContexts[spc[u]]) /\ UNCHANGED <<rpc, got, handed>>
       ELSE CheckFails(u, spc[u])
    /\ UNCHANGED <<spanVars, inUse, kind, own, linked, armed, rows, rclosed, ncloses, late>>

\* The check before a native call.
CheckFlags(u) ==
    /\ spc[u] \in DOMAIN AfterFlags
    /\ IF Flags(u)
       THEN Step(u, spc[u], AfterFlags[spc[u]]) /\ UNCHANGED <<rpc, got, handed>>
       ELSE CheckFails(u, spc[u])
    /\ UNCHANGED <<spanVars, inUse, kind, own, linked, armed, rows, rclosed, ncloses, late>>

\* Mutant: the late check looks at the contexts alone.
DeliverUnflagged(u) ==
    /\ spc[u] \in {"lateFlag", "nextLateFlag"}
    /\ Step(u, spc[u], IF kind[u] = "point" THEN "release" ELSE "reader")
    /\ handed' = [handed EXCEPT ![u] = kind[u] = "query"]
    /\ Report(u, "value")
    /\ UNCHANGED <<spanVars, inUse, kind, own, linked, armed, rows, rclosed, rpc, ncloses, late>>

\* The check after it: its result is delivered.
Deliver(u) ==
    /\ spc[u] \in {"lateFlag", "nextLateFlag"}
    /\ IF Flags(u)
       THEN /\ Step(u, spc[u], IF kind[u] = "point" THEN "release" ELSE "reader")
            /\ handed' = [handed EXCEPT ![u] = kind[u] = "query"]
            /\ Report(u, "value")
            /\ UNCHANGED rpc
       ELSE CheckFails(u, spc[u])
    /\ UNCHANGED <<spanVars, inUse, kind, own, linked, armed, rows, rclosed, ncloses, late>>

-----------------------------------------------------------------------------
(* The native call.                                                        *)

\* Mutant: the statement does not go through the span's transaction.
NativeBeginOutside(u) ==
    /\ IF linked[u] = "live"
       THEN Step(u, "native", "running") /\ inUse' = inUse \cup {u}
       ELSE Step(u, "native", "abort") /\ UNCHANGED inUse
    /\ UNCHANGED <<spanVars, kind, own, linked, armed, rows, handed, rclosed, rpc, ncloses,
                   got, late>>

NativeBegin(u) ==
    /\ IF linked[u] = "live" /\ tx = "active"
       THEN Step(u, "native", "running") /\ inUse' = inUse \cup {u}
       ELSE Step(u, "native", "abort") /\ UNCHANGED inUse
    /\ UNCHANGED <<spanVars, kind, own, linked, armed, rows, handed, rclosed, rpc, ncloses,
                   got, late>>

NativeFails(u) ==
    /\ Step(u, "running", "abort")
    /\ inUse' = inUse \ {u}
    /\ UNCHANGED <<spanVars, kind, own, linked, armed, rows, handed, rclosed, rpc, ncloses,
                   got, late>>

NativeReturns(u) ==
    /\ Step(u, "running", "lateCheck")
    /\ late' = [late EXCEPT ![u] = Invalid(u)]
    /\ IF kind[u] = "point" THEN inUse' = inUse \ {u} /\ UNCHANGED rows
                            ELSE rows' = [rows EXCEPT ![u] = "open"] /\ UNCHANGED inUse
    /\ UNCHANGED <<spanVars, kind, own, linked, armed, handed, rclosed, rpc, ncloses, got>>

\* A query may return a reader along with its error.
NativeFailsWithReader(u) ==
    /\ kind[u] = "query" /\ Step(u, "running", "abort")
    /\ rows' = [rows EXCEPT ![u] = "open"]
    /\ UNCHANGED <<spanVars, inUse, kind, own, linked, armed, handed, rclosed, rpc, ncloses,
                   got, late>>

\* The deferred release of a point read that succeeded.
PointRelease(u) ==
    /\ Step(u, "release", "done") /\ Release(u)
    /\ UNCHANGED <<spanVars, inUse, kind, own, rows, handed, rclosed, rpc, ncloses, got, late>>

\* Mutant: an error path forgets the release.
AbortUnreleased(u) ==
    /\ Step(u, "abort", IF rows[u] = "none" THEN "done" ELSE "abortClose")
    /\ Report(u, "error")
    /\ UNCHANGED <<spanVars, inUse, kind, own, linked, armed, rows, handed, rclosed, rpc,
                   ncloses, late>>

\* A call that fails releases its context, then closes the reader it has.
Abort(u) ==
    /\ Step(u, "abort", IF rows[u] = "none" THEN "done" ELSE "abortClose")
    /\ Release(u) /\ Report(u, "error")
    /\ UNCHANGED <<spanVars, inUse, kind, own, rows, handed, rclosed, rpc, ncloses, late>>

AbortClose(u) ==
    /\ Step(u, "abortClose", "done")
    /\ CloseRows(u)
    /\ UNCHANGED <<spanVars, kind, own, linked, armed, handed, rclosed, rpc, got, late>>

\* Mutant: rows and transaction follow the caller's context, not the span's.
RowsOverCaller(u) ==
    /\ rows[u] = "open" /\ spc[u] # "nextRunning" /\ own[u]
    /\ rows' = [rows EXCEPT ![u] = "closed"]
    /\ inUse' = inUse \ {u}
    /\ UNCHANGED <<spanVars, spc, kind, own, linked, armed, handed, rclosed, rpc, ncloses,
                   got, late>>

\* database/sql closes rows whose context, or whose transaction's, is over.
RowsOver(u) ==
    /\ rows[u] = "open" /\ spc[u] # "nextRunning"
    /\ linked[u] = "cancelled" \/ ~Live \/ tx \in {"byClose", "byWatcher"}
    /\ rows' = [rows EXCEPT ![u] = "closed"]
    /\ inUse' = inUse \ {u}
    /\ UNCHANGED <<spanVars, spc, kind, own, linked, armed, handed, rclosed, rpc, ncloses,
                   got, late>>

-----------------------------------------------------------------------------
(* Readers.                                                                *)

ReaderNext(u) ==
    /\ Step(u, "reader", "next")
    /\ Report(u, "none")
    /\ UNCHANGED <<spanVars, inUse, kind, own, linked, armed, rows, handed, rclosed, rpc,
                   ncloses, late>>

\* An error or the end of the rows closes the reader.
NextFails(u, at) ==
    /\ Step(u, at, "closing")
    /\ rpc' = [rpc EXCEPT ![u]["main"] = "swap"]
    /\ Report(u, "error")

\* Mutant: Next waits on rows that were closed under it.
NextNativeWaits(u) ==
    /\ rows[u] = "open" /\ Step(u, "nextNative", "nextRunning")
    /\ UNCHANGED <<spanVars, inUse, kind, own, linked, armed, rows, handed, rclosed, rpc,
                   ncloses, got, late>>

NextNative(u) ==
    /\ IF rows[u] = "open" THEN Step(u, "nextNative", "nextRunning") /\ UNCHANGED <<rpc, got>>
                           ELSE NextFails(u, "nextNative")
    /\ UNCHANGED <<spanVars, inUse, kind, own, linked, armed, rows, handed, rclosed, ncloses, late>>

NextReturns(u) ==
    /\ \/ /\ Step(u, "nextRunning", "nextLate")
          /\ late' = [late EXCEPT ![u] = Invalid(u)]
          /\ UNCHANGED <<rpc, got>>
       \/ NextFails(u, "nextRunning") /\ UNCHANGED late
    /\ UNCHANGED <<spanVars, inUse, kind, own, linked, armed, rows, handed, rclosed, ncloses>>

\* The user closes its reader, or another goroutine does, once or again.
ReaderClose(u, e) ==
    /\ handed[u] /\ rpc[u][e] \in {"idle", "done"}
    /\ IF e = "main" THEN Step(u, "reader", "closing") ELSE UNCHANGED spc
    /\ rpc' = [rpc EXCEPT ![u][e] = "swap"]
    /\ UNCHANGED <<spanVars, inUse, kind, own, linked, armed, rows, handed, rclosed, ncloses,
                   got, late>>

\* Mutant: a second Close of the reader closes the native one again.
ReaderSet(u, e) ==
    /\ rpc[u][e] = "swap"
    /\ rclosed' = [rclosed EXCEPT ![u] = TRUE]
    /\ rpc' = [rpc EXCEPT ![u][e] = "release"]
    /\ UNCHANGED <<spanVars, inUse, spc, kind, own, linked, armed, rows, handed, ncloses,
                   got, late>>

ReaderSwap(u, e) ==
    /\ rpc[u][e] = "swap"
    /\ rclosed' = [rclosed EXCEPT ![u] = TRUE]
    /\ rpc' = [rpc EXCEPT ![u][e] = IF rclosed[u] THEN "done" ELSE "release"]
    /\ UNCHANGED <<spanVars, inUse, spc, kind, own, linked, armed, rows, handed, ncloses,
                   got, late>>

ReaderRelease(u, e) ==
    /\ rpc[u][e] = "release"
    /\ Release(u)
    /\ rpc' = [rpc EXCEPT ![u][e] = "native"]
    /\ UNCHANGED <<spanVars, inUse, spc, kind, own, rows, handed, rclosed, ncloses, got, late>>

\* Closing the native rows waits for a Next that runs.
ReaderCloseNative(u, e) ==
    /\ rpc[u][e] = "native" /\ spc[u] # "nextRunning"
    /\ CloseRows(u)
    /\ rpc' = [rpc EXCEPT ![u][e] = "done"]
    /\ UNCHANGED <<spanVars, spc, kind, own, linked, armed, handed, rclosed, got, late>>

ReaderDone(u) ==
    /\ rpc[u]["main"] = "done" /\ Step(u, "closing", "done")
    /\ UNCHANGED <<spanVars, inUse, kind, own, linked, armed, rows, handed, rclosed, rpc,
                   ncloses, got, late>>

-----------------------------------------------------------------------------
CallStep(u) ==
    \/ EnterFlag(u) \/ EnterCtx(u) \/ Link(u)
    \/ CheckContexts(u) \/ CheckFlags(u) \/ Deliver(u)
    \/ NativeBegin(u) \/ NativeFails(u) \/ NativeReturns(u) \/ NativeFailsWithReader(u)
    \/ PointRelease(u) \/ Abort(u) \/ AbortClose(u)
    \/ NextNative(u) \/ NextReturns(u) \/ ReaderDone(u)

CloseStep(u, e) == ReaderSwap(u, e) \/ ReaderRelease(u, e) \/ ReaderCloseNative(u, e)

SpanStep ==
    /\ \/ Open
       \/ \E t \in Threads : Close(t)
       \/ Cancel
       \/ Watcher
       \/ \E a \in Askers : Ask(a) \/ Facts(a) \/ Session(a)
    /\ UNCHANGED sessionVars

SessionNext ==
    \/ SpanStep
    \/ \E u \in Users :
         \/ Call(u) \/ CallStep(u) \/ CallerCancel(u)
         \/ Fire(u) \/ RowsOver(u)
         \/ ReaderNext(u)
         \/ \E e \in Ends : ReaderClose(u, e) \/ CloseStep(u, e)

\* What has begun goes on and the goroutines of the libraries run; nobody has
\* to read, to iterate, to close a reader or to close the span.
SessionFairness ==
    /\ WF_svars(Open /\ UNCHANGED sessionVars)
    /\ \A t \in Threads :
         WF_svars(Close(t) /\ (cpc[t] # "idle" \/ t = Opener) /\ UNCHANGED sessionVars)
    /\ WF_svars(Watcher /\ UNCHANGED sessionVars)
    /\ \A u \in Users :
         /\ WF_svars(CallStep(u)) /\ WF_svars(Fire(u)) /\ WF_svars(RowsOver(u))
         /\ \A e \in Ends : WF_svars(CloseStep(u, e))

SessionSpec == SessionInit /\ [][SessionNext]_svars /\ SessionFairness

-----------------------------------------------------------------------------
(* Properties.                                                             *)

\* The reads use the transaction the way the span expects of its users: the
\* composition behaves as TableReadSpan does.
SpanSafety == Init /\ [][Next]_vars

\* The other end of the reader is not in the middle of a Close.
Quiet(u) == \A e \in Ends : rpc[u][e] \in {"idle", "done"}

\* No value is delivered of a read that the span's Close, the end of either
\* context or the reader's Close had invalidated by the time the native result
\* was there, however the loads of the checks interleave with them.
NoStaleValue == \A u \in Users : got[u] = "value" => ~late[u]

\* A call that is over, with its reader, leaves no AfterFunc on the span's
\* context and no live context behind, on any of its error paths.
NoContextLeak ==
    \A u \in Users : spc[u] = "done" /\ Quiet(u) => ~armed[u] /\ linked[u] # "live"

\* The native reader of a query is closed exactly once: by the call that
\* failed, or by the first of the goroutines that close the reader.
NativeClosedOnce ==
    \A u \in Users :
        /\ ncloses[u] <= 1
        /\ spc[u] = "done" /\ Quiet(u) /\ rows[u] # "none" => ncloses[u] = 1

\* Every call of the session, of Next and of a reader's Close returns.
ReadsReturn ==
    \A u \in Users : spc[u] \notin {"idle", "reader", "done"} ~> spc[u] \in {"reader", "done"}

\* Close of the span never waits for the host to close its readers: rows left
\* open are closed once the span is invalid, and the transaction is given back.
AbandonedReaderEnds ==
    \A u \in Users : rows[u] = "open" /\ ~Live ~> u \notin inUse
=============================================================================
