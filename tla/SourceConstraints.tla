------------------------- MODULE SourceConstraints -------------------------
(***************************************************************************)
(* CheckSourceConstraints of source_constraints.go: on one connection it   *)
(* turns ignore_check_constraints off if it is on, runs integrity_check    *)
(* and foreign_key_check, and its deferred calls close the rows, turn the  *)
(* setting on again and give the connection back.  The setting belongs to  *)
(* the connection, which the pool hands to others afterwards.              *)
(*                                                                         *)
(* A statement that sets the setting may report an error after it took     *)
(* effect.  The file does not change during a check.                       *)
(***************************************************************************)
EXTENDS ConnPool, Naturals, FiniteSets

CONSTANTS
    Checkers,        \* calls of CheckSourceConstraints
    Settings,        \* what ignore_check_constraints of a connection may be
    Violations,      \* what a file may violate
    MaxCheckFaults   \* bound of the statements that fail

ASSUME SourceConstraintsAssumption ==
    /\ Checkers \subseteq Calls
    /\ Settings \subseteq BOOLEAN
    /\ Violations \subseteq {"check", "other", "foreignKey"}
    /\ MaxCheckFaults \in Nat

VARIABLES
    ignore,     \* ignore_check_constraints of each connection
    initial,    \* its value before any check, a history variable
    unsound,    \* what the file violates: CHECK clauses, other, foreign keys
    kpc,        \* the next step of a call
    conn,       \* its connection
    krows,      \* foreign_key_check's rows are open
    restore,    \* the deferred restore is due
    klive,      \* its context
    kres,       \* what it returns: none, ok, error
    kfailed,    \* a statement that sets the setting failed
    kfaults

settings == <<ignore, initial, unsound>>
locals == <<conn, krows, restore, klive, kres, kfailed, kfaults>>
kvars == <<poolVars, settings, kpc, locals>>

Steps == {"idle", "conn", "read", "off", "integrity", "foreignKeys", "found",
          "closeRows", "restore", "closeConn", "done"}

CheckTypeOK ==
    /\ PoolTypeOK
    /\ ignore \in [Conns -> BOOLEAN] /\ initial \in [Conns -> BOOLEAN]
    /\ unsound \subseteq Violations
    /\ kpc \in [Checkers -> Steps]
    /\ conn \in [Checkers -> Conns \cup {NoConn}]
    /\ krows \in [Checkers -> BOOLEAN] /\ restore \in [Checkers -> BOOLEAN]
    /\ klive \in [Checkers -> BOOLEAN] /\ kfailed \in [Checkers -> BOOLEAN]
    /\ kres \in [Checkers -> {"none", "ok", "error"}]
    /\ kfaults \in 0..MaxCheckFaults
    /\ \A k \in Checkers : kpc[k] = "done" => kres[k] # "none"

CheckersInit ==
    /\ ignore \in [Conns -> Settings] /\ initial = ignore
    /\ unsound \in SUBSET Violations
    /\ kpc = [k \in Checkers |-> "idle"]
    /\ conn = [k \in Checkers |-> NoConn]
    /\ krows = [k \in Checkers |-> FALSE]
    /\ restore = [k \in Checkers |-> FALSE]
    /\ klive = [k \in Checkers |-> TRUE]
    /\ kres = [k \in Checkers |-> "none"]
    /\ kfailed = [k \in Checkers |-> FALSE]
    /\ kfaults = 0

CheckInit == pool = "open" /\ AllFree /\ CheckersInit

-----------------------------------------------------------------------------
At(k, from, to) == kpc[k] = from /\ kpc' = [kpc EXCEPT ![k] = to]

Returning(k, result) == kres' = [kres EXCEPT ![k] = result]

\* A statement fails, or its context is over: the call returns an error.
Broken(k) ==
    \/ ~klive[k] /\ UNCHANGED kfaults
    \/ kfaults < MaxCheckFaults /\ kfaults' = kfaults + 1

Check(k) ==
    /\ At(k, "idle", "conn")
    /\ UNCHANGED <<poolVars, settings, locals>>

CheckConn(k) ==
    /\ klive[k] /\ At(k, "conn", "read")
    /\ \E c \in Conns : Take(k, c) /\ conn' = [conn EXCEPT ![k] = c]
    /\ UNCHANGED <<pool, settings, krows, restore, klive, kres, kfailed, kfaults>>

CheckConnFails(k) ==
    /\ At(k, "conn", "done") /\ Returning(k, "error")
    /\ Broken(k) \/ (pool = "closed" /\ UNCHANGED kfaults)
    /\ UNCHANGED <<poolVars, settings, conn, krows, restore, klive, kfailed>>

\* Mutant: the setting is not turned off.
CheckReadOnly(k) ==
    /\ At(k, "read", "integrity")
    /\ UNCHANGED <<poolVars, settings, locals>>

CheckRead(k) ==
    /\ kpc[k] = "read" /\ At(k, "read", IF ignore[conn[k]] THEN "off" ELSE "integrity")
    /\ UNCHANGED <<poolVars, settings, locals>>

CheckOff(k) ==
    /\ At(k, "off", "integrity")
    /\ ignore' = [ignore EXCEPT ![conn[k]] = FALSE]
    /\ restore' = [restore EXCEPT ![k] = TRUE]
    /\ UNCHANGED <<poolVars, initial, unsound, conn, krows, klive, kres, kfailed, kfaults>>

\* The restore is deferred only once the setting is off.
CheckOffFails(k) ==
    /\ At(k, "off", "closeConn") /\ Returning(k, "error") /\ Broken(k)
    /\ ignore' \in {ignore, [ignore EXCEPT ![conn[k]] = FALSE]}
    /\ kfailed' = [kfailed EXCEPT ![k] = TRUE]
    /\ UNCHANGED <<poolVars, initial, unsound, conn, krows, restore, klive>>

\* integrity_check says nothing of CHECK clauses while they are ignored.
Seen(k) == unsound \cap (IF ignore[conn[k]] THEN {"other"} ELSE {"check", "other"})

CheckIntegrity(k) ==
    /\ At(k, "integrity", "foreignKeys") /\ Seen(k) = {}
    /\ UNCHANGED <<poolVars, settings, locals>>

\* Mutant: a violation ends the check without a result.
IntegrityUnreturned(k) ==
    /\ At(k, "integrity", "restore") /\ Seen(k) # {}
    /\ UNCHANGED <<poolVars, settings, locals>>

IntegrityViolated(k) ==
    /\ At(k, "integrity", "restore") /\ Seen(k) # {} /\ Returning(k, "error")
    /\ UNCHANGED <<poolVars, settings, conn, krows, restore, klive, kfailed, kfaults>>

CheckForeignKeys(k) ==
    /\ At(k, "foreignKeys", "found")
    /\ krows' = [krows EXCEPT ![k] = TRUE]
    /\ UNCHANGED <<poolVars, settings, conn, restore, klive, kres, kfailed, kfaults>>

\* Mutant: a violation is returned before the Close of the rows is deferred.
ForeignKeysUnclosed(k) ==
    /\ At(k, "found", IF "foreignKey" \in unsound THEN "restore" ELSE "closeRows")
    /\ Returning(k, IF "foreignKey" \in unsound THEN "error" ELSE "ok")
    /\ UNCHANGED <<poolVars, settings, conn, krows, restore, klive, kfailed, kfaults>>

ForeignKeysRead(k) ==
    /\ At(k, "found", "closeRows")
    /\ Returning(k, IF "foreignKey" \in unsound THEN "error" ELSE "ok")
    /\ UNCHANGED <<poolVars, settings, conn, krows, restore, klive, kfailed, kfaults>>

\* Reading the setting, or either check, fails.
CheckFails(k) ==
    /\ \/ At(k, "read", "closeConn")
       \/ At(k, "integrity", "restore")
       \/ At(k, "foreignKeys", "restore")
       \/ At(k, "found", "closeRows")
    /\ Returning(k, "error") /\ Broken(k)
    /\ UNCHANGED <<poolVars, settings, conn, krows, restore, klive, kfailed>>

\* Mutant: the connection is given back with the rows, before the restore.
CloseRowsAndConn(k) ==
    /\ At(k, "closeRows", "restore")
    /\ krows' = [krows EXCEPT ![k] = FALSE]
    /\ GiveBack({conn[k]})
    /\ UNCHANGED <<pool, settings, conn, restore, klive, kres, kfailed, kfaults>>

\* The deferred calls, last in first out.
CloseCheckRows(k) ==
    /\ At(k, "closeRows", "restore")
    /\ krows' = [krows EXCEPT ![k] = FALSE]
    /\ UNCHANGED <<poolVars, settings, conn, restore, klive, kres, kfailed, kfaults>>

\* Mutant: the restore runs under the context of the call.
RestoreLive(k) ==
    /\ At(k, "restore", "closeConn")
    /\ ignore' = IF restore[k] /\ klive[k] THEN [ignore EXCEPT ![conn[k]] = TRUE] ELSE ignore
    /\ UNCHANGED <<poolVars, initial, unsound, locals>>

\* The restore runs under a context of its own.
Restore(k) ==
    /\ At(k, "restore", "closeConn")
    /\ ignore' = IF restore[k] THEN [ignore EXCEPT ![conn[k]] = TRUE] ELSE ignore
    /\ UNCHANGED <<poolVars, initial, unsound, locals>>

\* Mutant: its error is reported by nobody.
RestoreFailsSilently(k) ==
    /\ restore[k] /\ At(k, "restore", "closeConn")
    /\ kfaults < MaxCheckFaults /\ kfaults' = kfaults + 1
    /\ ignore' \in {ignore, [ignore EXCEPT ![conn[k]] = TRUE]}
    /\ kfailed' = [kfailed EXCEPT ![k] = TRUE]
    /\ UNCHANGED <<poolVars, initial, unsound, conn, krows, restore, klive, kres>>

\* Its error is the call's unless a check failed before it.
RestoreFails(k) ==
    /\ restore[k] /\ At(k, "restore", "closeConn") /\ Returning(k, "error")
    /\ kfaults < MaxCheckFaults /\ kfaults' = kfaults + 1
    /\ ignore' \in {ignore, [ignore EXCEPT ![conn[k]] = TRUE]}
    /\ kfailed' = [kfailed EXCEPT ![k] = TRUE]
    /\ UNCHANGED <<poolVars, initial, unsound, conn, krows, restore, klive>>

\* sql.Conn.Close waits for rows that are open on it.
CloseCheckConn(k) ==
    /\ ~krows[k] /\ At(k, "closeConn", "done")
    /\ GiveBack({conn[k]})
    /\ UNCHANGED <<pool, settings, locals>>

CancelCheck(k) ==
    /\ kpc[k] \notin {"idle", "done"} /\ klive[k]
    /\ klive' = [klive EXCEPT ![k] = FALSE]
    /\ UNCHANGED <<poolVars, settings, kpc, conn, krows, restore, kres, kfailed, kfaults>>

CheckStep(k) ==
    \/ CheckConn(k) \/ CheckRead(k) \/ CheckOff(k) \/ CheckIntegrity(k)
    \/ IntegrityViolated(k) \/ CheckForeignKeys(k) \/ ForeignKeysRead(k)
    \/ CloseCheckRows(k) \/ Restore(k) \/ CloseCheckConn(k)
    \/ (~klive[k] \/ pool = "closed") /\ CheckConnFails(k)

CheckRun(k) ==
    \/ CheckStep(k) \/ CancelCheck(k)
    \/ CheckConnFails(k) \/ CheckOffFails(k) \/ CheckFails(k) \/ RestoreFails(k)

CheckNext == \E k \in Checkers : Check(k) \/ CheckRun(k)

\* A call goes on once it has begun; no statement has to fail.
CheckFairness == \A k \in Checkers : WF_kvars(CheckStep(k))

CheckSpec == CheckInit /\ [][CheckNext]_kvars /\ CheckFairness

-----------------------------------------------------------------------------
(* Properties.                                                             *)

\* A statement that sets the setting of connection c failed, and its check told.
Reported(c) == \E k \in Checkers : kfailed[k] /\ conn[k] = c /\ kres[k] = "error"

\* Whoever gets a connection from the pool finds the setting as it was before any
\* check, on every path out of the check and whatever was cancelled, unless a
\* check returned an error because it could not set it (source_constraints.go:30).
SettingRestored ==
    \A c \in Conns :
        ignore[c] # initial[c] => Reported(c) \/ \E k \in Checkers : owner[c] = k

\* A check that returns nil saw a file that violates nothing, CHECK clauses
\* included, whatever the setting of the connection it got.
NilMeansSound ==
    \A k \in Checkers : kpc[k] = "done" /\ kres[k] = "ok" => unsound = {}

=============================================================================
