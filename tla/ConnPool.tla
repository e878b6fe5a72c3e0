------------------------------ MODULE ConnPool ------------------------------
(***************************************************************************)
(* The pool of connections of database/sql (sql.DB) as the schema reads,   *)
(* the row cursors and the constraint check of this driver use it.  A      *)
(* query takes a free connection, or waits for one; the connection is its  *)
(* owner's until its rows, or the sql.Conn that holds it, are closed.      *)
(* Closing the pool refuses every later query, wakes those that wait with  *)
(* an error, and leaves the connections in use to their owners.            *)
(*                                                                         *)
(* Conns are the connections the pool may open (SetMaxOpenConns): one that *)
(* was never opened and one that is idle are the same to a caller.         *)
(***************************************************************************)
CONSTANTS
    Conns,   \* the connections of the pool
    Calls,   \* who uses them: calls of the driver's operations
    Nobody,  \* the owner of a free connection
    NoConn   \* the connection of a call that holds none

ASSUME ConnPoolAssumption == Nobody \notin Calls /\ NoConn \notin Conns

VARIABLES
    pool,   \* none, open or closed
    owner   \* of each connection

poolVars == <<pool, owner>>

PoolTypeOK ==
    /\ pool \in {"none", "open", "closed"}
    /\ owner \in [Conns -> Calls \cup {Nobody}]

AllFree == owner = [c \in Conns |-> Nobody]

HeldBy(p) == {c \in Conns : owner[c] = p}

\* DB.conn: connection c is free and p gets it.
Take(p, c) ==
    /\ pool = "open" /\ owner[c] = Nobody
    /\ owner' = [owner EXCEPT ![c] = p]

\* The rows, or the sql.Conn, that hold the connections C are closed.
GiveBack(C) == owner' = [c \in Conns |-> IF c \in C THEN Nobody ELSE owner[c]]

=============================================================================
