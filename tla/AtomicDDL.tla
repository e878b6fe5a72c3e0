------------------------------ MODULE AtomicDDL ------------------------------
(***************************************************************************)
(* What the DDL calls of concurrent callers promise: a call that returns   *)
(* nil changed the committed catalog at one instant between its start and  *)
(* its return, by the whole of what it was asked for; a call that returns  *)
(* an error left no trace.  There are no statements, transactions, locks   *)
(* and cancellations here.                                                 *)
(*                                                                         *)
(* The instant of a call that changes something is its return.  A call     *)
(* that found nothing to change may return later, when other calls have    *)
(* changed the catalog.                                                    *)
(***************************************************************************)
CONSTANTS
    Callers, Requests, InitCatalogs, None,
    Outcomes(_, _)  \* the catalogs a request that succeeds may leave of one

VARIABLES
    db,      \* the committed catalog
    status,  \* idle, pending, ok or error, by caller
    req,     \* the call each caller made last
    moot     \* at some instant of that call there was nothing to change

vars == <<db, status, req, moot>>

Init ==
    /\ db \in InitCatalogs
    /\ status = [p \in Callers |-> "idle"]
    /\ req = [p \in Callers |-> None]
    /\ moot = [p \in Callers |-> FALSE]

\* A pending call may be found moot while it is, and stays so until it returns.
Settle ==
    \A p \in Callers : moot'[p] =>
        /\ status'[p] = "pending"
        /\ moot[p] \/ (status[p] = "pending" /\ db \in Outcomes(req[p], db))

\* A call is made; one whose SQL cannot be built is refused at once.
Invoke(p, r) ==
    /\ status[p] # "pending"
    /\ req' = [req EXCEPT ![p] = r]
    /\ \E s \in {"pending", "error"} : status' = [status EXCEPT ![p] = s]
    /\ UNCHANGED db

\* The call takes effect as a whole, or had nothing to change, and returns nil.
Succeed(p) ==
    /\ status[p] = "pending"
    /\ db' \in Outcomes(req[p], db) \/ (moot[p] /\ db' = db)
    /\ status' = [status EXCEPT ![p] = "ok"]
    /\ UNCHANGED req

\* The call returns an error.
Refuse(p) ==
    /\ status[p] = "pending"
    /\ status' = [status EXCEPT ![p] = "error"]
    /\ UNCHANGED <<db, req>>

Next ==
    /\ Settle
    /\ \/ \E p \in Callers : (\E r \in Requests : Invoke(p, r)) \/ Succeed(p) \/ Refuse(p)
       \/ UNCHANGED <<db, status, req>>

Spec == Init /\ [][Next]_vars

=============================================================================
