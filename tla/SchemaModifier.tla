--------------------------- MODULE SchemaModifier ---------------------------
(***************************************************************************)
(* CreateCollection, DropCollection and AlterCollection of                 *)
(* schema_modifier.go, run by several callers over one database file.      *)
(*                                                                         *)
(* A call builds its SQL, begins a deferred transaction and executes its   *)
(* statements one at a time on a private view of the catalog; inTx commits *)
(* it, or rolls it back on the first error of a statement that is not      *)
(* ignored.  An error of the commit is returned as it is: a transaction    *)
(* SQLite refused to commit stays open on its connection, with its lock,   *)
(* until the pool closes the connection.  A caller's context may be        *)
(* cancelled at any moment: database/sql then rolls the transaction back   *)
(* from a goroutine of its own, racing the call.                           *)
(*                                                                         *)
(* SQLite is modelled by its file locks: a transaction reads under a       *)
(* shared lock and takes the one reserved lock at its first write; a       *)
(* refused lock is an error at once (no busy timeout is configured).  Wal  *)
(* tells the two journal modes apart: with a rollback journal a commit is  *)
(* refused while another transaction reads, and from then on keeps new     *)
(* readers out; with WAL a reader keeps its snapshot and may no longer     *)
(* write once another transaction committed.                               *)
(***************************************************************************)
EXTENDS DDLEffects

CONSTANTS
    Callers,       \* goroutines calling the Database
    Tables,        \* the collections the callers name
    Requests,      \* the calls the callers make
    InitCatalogs,  \* the files the database may be opened on
    MaxCalls,      \* bound on the number of calls
    Wal,           \* the file is in WAL mode
    Faults         \* where SQLite may fail for reasons of its own

FaultPoints == {"begin", "statement", "bestEffort", "read", "commit"}

AlterOp ==
         [kind : {"addField", "modifyField"}, field : Columns, def : FieldDef]
    \cup [kind : {"dropField"}, field : Columns]
    \cup [kind : {"renameField"}, field : Columns, new : Columns]
    \cup [kind : {"addIndex"}, idx : IndexDef, ifNot : BOOLEAN]
    \cup [kind : {"dropIndexOp"}, name : IndexNames, ifExists : BOOLEAN]

Request ==
         [op : {"create"}, name : Tables, def : CollectionDef, ifNot : BOOLEAN]
    \cup [op : {"drop"}, name : Tables, ifExists : BOOLEAN]
    \cup [op : {"alter"}, name : Tables, ops : Seq(AlterOp)]

ASSUME SchemaModifierAssumption ==
    /\ Tables \subseteq Names
    /\ Scratch \in [Tables -> Names]
    /\ \A t \in Tables : Scratch[t] # t
    /\ Requests \subseteq Request
    /\ InitCatalogs \subseteq Catalog /\ \A c \in InitCatalogs : WellFormed(c)
    /\ MaxCalls \in Nat
    /\ Wal \in BOOLEAN
    /\ Faults \subseteq FaultPoints

VARIABLES
    db,         \* the committed catalog
    pc,         \* where each caller is
    req,        \* its current or last call
    todo,       \* alter operations and statements the call still has to do
    tx,         \* its transaction: none, open, being rolled back by database/sql, or
                \* left open on its connection by a refused commit
    lock,       \* the file lock of that transaction
    stale,      \* another transaction committed under its WAL snapshot
    view,       \* the catalog that transaction sees
    cancelled,  \* the caller's context is cancelled
    result,     \* what the last call returned
    calls       \* number of calls made so far

vars == <<db, pc, req, todo, tx, lock, stale, view, cancelled, result, calls>>
txVars == <<tx, lock, stale, view>>

-----------------------------------------------------------------------------
(* Programs: what each call has to execute.                                *)

TimeColumnsOf(def) == {f \in FieldsOf(def) : def.fields[f].type = "Time"}

\* The sidecar table is created, then the time columns are marked in it.
MarkTime(name, cols) ==
    IF cols = {} THEN <<>>
    ELSE << [kind |-> "sidecar"], [kind |-> "mark", name |-> name, cols |-> cols] >>

BuildFails(r) ==
    /\ r.op = "create"
    /\ \/ CreateTableFails(r.def)
       \/ \E i \in DOMAIN r.def.indexes : CreateIndexFails(r.def.indexes[i])

CreateCollection(r) ==
    <<CreateTable(r.name, r.def, r.ifNot)>>
      \o [i \in 1..Len(r.def.indexes) |-> CreateIndex(r.def.indexes[i], r.name, r.ifNot)]
      \o MarkTime(r.name, TimeColumnsOf(r.def))

\* Mutant: the markers of a dropped collection are left behind.
DropCollectionOnly(r) == <<DropTable(r.name, r.ifExists)>>

DropCollection(r) ==
    <<DropTable(r.name, r.ifExists), [kind |-> "unmarkTable", name |-> r.name]>>

\* AlterCollection applies its operations in order.
Program(r) ==
    CASE r.op = "create" -> CreateCollection(r)
      [] r.op = "drop"   -> DropCollection(r)
      [] r.op = "alter"  -> r.ops

OpKinds == {"addField", "modifyField", "dropField", "renameField", "addIndex", "dropIndexOp"}

\* The columns of a key that were read, in the order of the key.
KeyRead(pk, seen) ==
    LET upTo[n \in 0..Len(pk)] ==
          IF n = 0 THEN <<>>
          ELSE IF pk[n] \in seen THEN Append(upTo[n-1], pk[n]) ELSE upTo[n-1]
    IN upTo[Len(pk)]

\* The definition ModifyField rebuilds the table from, given the columns its
\* introspection read: types come back through the declared keyword (String
\* when it is unrecognised) and AUTOINCREMENT is not read.
ReadCollectionDefViaTx(tb, seen) ==
    [fields |-> [f \in Columns |->
        IF f \notin seen THEN None
        ELSE [type |-> LET k == DbschemaTypeFromSQLite(tb.cols[f].decl)
                       IN  IF k = "Null" THEN "String" ELSE k,
              nullable |-> ~tb.cols[f].notnull /\ f \notin KeyOf(tb),
              autoInc |-> FALSE]],
     pk |-> KeyRead(tb.pk, seen),
     indexes |-> <<>>]

ModifiedDef(current, field, def) == [current EXCEPT !.fields[field] = def]

\* The table to create: what its owner wants of the other columns is unchanged.
ModifiedTable(tb, field, def, seen) ==
    LET new == TableFor(ModifiedDef(ReadCollectionDefViaTx(tb, seen), field, def))
    IN  [new EXCEPT !.cols = [f \in Columns |->
            IF f = field \/ new.cols[f] = None THEN new.cols[f]
            ELSE [new.cols[f] EXCEPT !.want = tb.cols[f].want]]]

\* Mutant: the new table is put in place without the rows of the old one.
ApplyModifyFieldNoCopy(name, o, tb, seen) ==
    << [kind |-> "createTable", name |-> Scratch[name],
        body |-> ModifiedTable(tb, o.field, o.def, seen), ifNot |-> FALSE],
       DropTable(name, FALSE),
       [kind |-> "renameTable", name |-> Scratch[name], new |-> name] >>

ApplyModifyField(name, o, tb, seen) ==
    << [kind |-> "createTable", name |-> Scratch[name],
        body |-> ModifiedTable(tb, o.field, o.def, seen), ifNot |-> FALSE],
       [kind |-> "copyRows", name |-> Scratch[name], from |-> name, cols |-> seen],
       DropTable(name, FALSE),
       [kind |-> "renameTable", name |-> Scratch[name], new |-> name] >>

ApplyAddField(name, o) ==
    <<AddColumn(name, o.field, o.def)>>
      \o MarkTime(name, IF o.def.type = "Time" THEN {o.field} ELSE {})

\* Mutant: the marker of a dropped column is left behind.
ApplyDropFieldOnly(name, o) == <<DropColumn(name, o.field)>>

ApplyDropField(name, o) ==
    <<DropColumn(name, o.field), [kind |-> "unmark", name |-> name, col |-> o.field]>>

ApplyRenameField(name, o) ==
    <<RenameColumn(name, o.field, o.new),
      [kind |-> "remark", name |-> name, col |-> o.field, new |-> o.new]>>

ApplyAddIndex(name, o) == <<CreateIndex(o.idx, name, o.ifNot)>>

ApplyDropIndex(name, o) == <<DropIndex(o.name, o.ifExists)>>

\* The statements of one operation other than ModifyField.
ApplyOp(name, o) ==
    CASE o.kind = "addField"    -> ApplyAddField(name, o)
      [] o.kind = "dropField"   -> ApplyDropField(name, o)
      [] o.kind = "renameField" -> ApplyRenameField(name, o)
      [] o.kind = "addIndex"    -> ApplyAddIndex(name, o)
      [] o.kind = "dropIndexOp" -> ApplyDropIndex(name, o)

\* The SQL of the operation cannot be built.
OpBuildFails(o) ==
    \/ o.kind = "addField" /\ ~Renderable(o.def)
    \/ o.kind = "addIndex" /\ CreateIndexFails(o.idx)

-----------------------------------------------------------------------------
(* Transactions and locks.                                                 *)

Alive(p) == tx[p] = "open" /\ ~cancelled[p]

\* What a statement of p's transaction sees: a deferred transaction takes its
\* snapshot at its first statement.
Seen(p) == IF lock[p] = "none" THEN db ELSE view[p]

MayWrite(p) == ~stale[p] /\ \A q \in Callers \ {p} : lock[q] # "reserved"

\* A commit that was refused for a reader waits for it (a pending lock): with
\* a rollback journal nobody begins to read.
MayRead(p) ==
    lock[p] # "none" \/ Wal \/ \A q \in Callers : tx[q] = "left" => lock[q] # "reserved"

Release(p) ==
    /\ tx' = [tx EXCEPT ![p] = "none"]
    /\ lock' = [lock EXCEPT ![p] = "none"]
    /\ stale' = [stale EXCEPT ![p] = FALSE]
    /\ view' = [view EXCEPT ![p] = None]

\* The connection goes back to the pool as it is, its transaction open.
LeftOpen(p) ==
    /\ tx' = [tx EXCEPT ![p] = "left"]
    /\ UNCHANGED <<lock, stale, view>>

Finish(p, r) ==
    /\ pc' = [pc EXCEPT ![p] = "idle"]
    /\ result' = [result EXCEPT ![p] = r]
    /\ todo' = [todo EXCEPT ![p] = <<>>]

Fail(p) ==
    /\ pc' = [pc EXCEPT ![p] = "failed"]
    /\ todo' = [todo EXCEPT ![p] = <<>>]

-----------------------------------------------------------------------------
TypeOK ==
    /\ db \in Catalog
    /\ pc \in [Callers -> {"idle", "begin", "run", "failed"}]
    /\ req \in [Callers -> Requests \cup {None}]
    /\ todo \in [Callers -> Seq(Statement \cup AlterOp)]
    /\ tx \in [Callers -> {"none", "open", "rolling", "left"}]
    /\ lock \in [Callers -> {"none", "shared", "reserved"}]
    /\ stale \in [Callers -> BOOLEAN]
    /\ view \in [Callers -> Catalog \cup {None}]
    /\ cancelled \in [Callers -> BOOLEAN]
    /\ result \in [Callers -> {"none", "ok", "error"}]
    /\ calls \in 0..MaxCalls

Init ==
    /\ db \in InitCatalogs
    /\ pc = [p \in Callers |-> "idle"]
    /\ req = [p \in Callers |-> None]
    /\ todo = [p \in Callers |-> <<>>]
    /\ tx = [p \in Callers |-> "none"]
    /\ lock = [p \in Callers |-> "none"]
    /\ stale = [p \in Callers |-> FALSE]
    /\ view = [p \in Callers |-> None]
    /\ cancelled = [p \in Callers |-> FALSE]
    /\ result = [p \in Callers |-> "none"]
    /\ calls = 0

\* A caller calls the Database: SQL that cannot be built is refused at once.
\* The transaction of its previous call is over (another caller plays the
\* part of one that calls again before that).
Start(p) ==
    /\ pc[p] = "idle" /\ tx[p] = "none" /\ calls < MaxCalls
    /\ calls' = calls + 1
    /\ cancelled' = [cancelled EXCEPT ![p] = FALSE]
    /\ \E r \in Requests :
         /\ req' = [req EXCEPT ![p] = r]
         /\ IF BuildFails(r)
            THEN Finish(p, "error")
            ELSE /\ pc' = [pc EXCEPT ![p] = "begin"]
                 /\ todo' = [todo EXCEPT ![p] = Program(r)]
                 /\ result' = [result EXCEPT ![p] = "none"]
    /\ UNCHANGED <<db, txVars>>

Begin(p) ==
    /\ pc[p] = "begin" /\ ~cancelled[p]
    /\ pc' = [pc EXCEPT ![p] = "run"]
    /\ tx' = [tx EXCEPT ![p] = "open"]
    /\ UNCHANGED <<db, req, todo, lock, stale, view, cancelled, result, calls>>

\* Mutant: a call waits for its transaction without its context.
BeginFailsUncancelled(p) ==
    /\ pc[p] = "begin"
    /\ "begin" \in Faults \/ \E q \in Callers : tx[q] = "left"
    /\ Finish(p, "error")
    /\ UNCHANGED <<db, req, txVars, cancelled, calls>>

\* BeginTx fails of its own, under a cancelled context, or because the pool
\* gives it a connection that is still in a transaction.
BeginFails(p) ==
    /\ pc[p] = "begin"
    /\ cancelled[p] \/ "begin" \in Faults \/ \E q \in Callers : tx[q] = "left"
    /\ Finish(p, "error")
    /\ UNCHANGED <<db, req, txVars, cancelled, calls>>

\* The next operation of an AlterCollection, other than ModifyField, builds
\* its statements.
Dispatch(p) ==
    /\ pc[p] = "run" /\ todo[p] # <<>>
    /\ LET o == Head(todo[p]) IN
       /\ o.kind \in OpKinds \ {"modifyField"}
       /\ IF OpBuildFails(o) THEN Fail(p)
          ELSE /\ todo' = [todo EXCEPT ![p] = ApplyOp(req[p].name, o) \o Tail(todo[p])]
               /\ UNCHANGED pc
    /\ UNCHANGED <<db, req, txVars, cancelled, result, calls>>

\* ModifyField reads the table through the transaction and prepares its four
\* statements.  The loop over the rows of pragma_table_info stops at an
\* iteration error without reporting it: the columns not yet read are missing.
Introspect(p) ==
    /\ pc[p] = "run" /\ todo[p] # <<>> /\ Head(todo[p]).kind = "modifyField"
    /\ Alive(p) /\ MayRead(p)
    /\ LET o == Head(todo[p])
           name == req[p].name
           c == Seen(p)
           all == IF HasTable(c, name) THEN ColumnsOf(c.table[name]) ELSE {} IN
       \E seen \in IF "read" \in Faults THEN SUBSET all ELSE {all} :
         /\ IF o.field \notin seen \/ ~Renderable(o.def) THEN Fail(p)
            ELSE /\ todo' = [todo EXCEPT ![p] =
                       ApplyModifyField(name, o, c.table[name], seen) \o Tail(todo[p])]
                 /\ UNCHANGED pc
         /\ view' = [view EXCEPT ![p] = c]
         /\ lock' = [lock EXCEPT ![p] = IF @ = "none" THEN "shared" ELSE @]
    /\ UNCHANGED <<db, req, tx, stale, cancelled, result, calls>>

IntrospectFails(p) ==
    /\ pc[p] = "run" /\ todo[p] # <<>> /\ Head(todo[p]).kind = "modifyField"
    /\ ~Alive(p) \/ ~MayRead(p) \/ "read" \in Faults
    /\ Fail(p)
    /\ UNCHANGED <<db, req, txVars, cancelled, result, calls>>

IsStatement(p) == pc[p] = "run" /\ todo[p] # <<>> /\ Head(todo[p]).kind \notin OpKinds

\* SQLite executes the next statement of the call.
Execute(p) ==
    /\ IsStatement(p) /\ Alive(p) /\ MayRead(p)
    /\ LET s == Head(todo[p]) IN
       /\ Legal(s, Seen(p)) /\ (Noop(s, Seen(p)) \/ MayWrite(p))
       /\ view' = [view EXCEPT ![p] = Apply(s, Seen(p))]
       /\ lock' = [lock EXCEPT ![p] = IF ~Noop(s, Seen(p)) THEN "reserved"
                                      ELSE IF @ = "none" THEN "shared" ELSE @]
    /\ todo' = [todo EXCEPT ![p] = Tail(@)]
    /\ UNCHANGED <<db, pc, req, tx, stale, cancelled, result, calls>>

\* The next statement fails: the sidecar clean-ups ignore it, every other
\* statement ends the transaction.
ExecuteFails(p) ==
    /\ IsStatement(p)
    /\ LET s == Head(todo[p])
           best == s.kind \in BestEffortKinds IN
       /\ \/ ~Alive(p) \/ ~MayRead(p)
          \/ ~Legal(s, Seen(p))
          \/ ~Noop(s, Seen(p)) /\ ~MayWrite(p)
          \/ (IF best THEN "bestEffort" ELSE "statement") \in Faults
       /\ IF best THEN /\ todo' = [todo EXCEPT ![p] = Tail(@)]
                       /\ UNCHANGED pc
          ELSE Fail(p)
    /\ UNCHANGED <<db, req, txVars, cancelled, result, calls>>

Done(p) == pc[p] = "run" /\ todo[p] = <<>>

\* With a rollback journal, a commit waits for no reader: it is refused.
MayCommit(p) == lock[p] = "reserved" /\ ~Wal => \A q \in Callers \ {p} : lock[q] = "none"

\* The transactions left with an old snapshot once p has committed.
Overtaken(p) ==
    [q \in Callers |-> q # p /\ (stale[q] \/ (lock[p] = "reserved" /\ lock[q] = "shared"))]

Commit(p) ==
    /\ Done(p) /\ Alive(p) /\ MayCommit(p)
    /\ db' = IF lock[p] = "reserved" THEN view[p] ELSE db
    /\ tx' = [tx EXCEPT ![p] = "none"]
    /\ lock' = [lock EXCEPT ![p] = "none"]
    /\ view' = [view EXCEPT ![p] = None]
    /\ stale' = Overtaken(p)
    /\ Finish(p, "ok")
    /\ UNCHANGED <<req, cancelled, calls>>

\* The commit fails and inTx returns its error without a roll back.  A refused
\* commit leaves the transaction open; another fault may end it or not.
\* Tx.Commit gives the connection back to the pool in either case.
CommitFails(p) ==
    /\ Done(p) /\ Alive(p)
    /\ \/ ~MayCommit(p) /\ LeftOpen(p)
       \/ "commit" \in Faults /\ (Release(p) \/ LeftOpen(p))
    /\ Finish(p, "error")
    /\ UNCHANGED <<db, req, cancelled, calls>>

\* Tx.Commit on a transaction whose context is cancelled returns an error and
\* leaves the roll back to the goroutine of database/sql.
CommitCancelled(p) ==
    /\ Done(p) /\ ~Alive(p)
    /\ Finish(p, "error")
    /\ UNCHANGED <<db, req, txVars, cancelled, calls>>

\* Mutant: inTx returns the error and forgets to roll back.
RollbackForgotten(p) ==
    /\ pc[p] = "failed"
    /\ Finish(p, "error")
    /\ UNCHANGED <<db, req, txVars, cancelled, calls>>

\* Mutant: inTx commits what was done before the error.
RollbackCommits(p) ==
    /\ pc[p] = "failed"
    /\ IF tx[p] = "open" THEN Release(p) ELSE UNCHANGED txVars
    /\ db' = IF tx[p] = "open" /\ lock[p] = "reserved" THEN view[p] ELSE db
    /\ Finish(p, "error")
    /\ UNCHANGED <<req, cancelled, calls>>

\* inTx rolls back after an error and ignores what Rollback returns: nothing
\* is left to do if database/sql has begun to.
Rollback(p) ==
    /\ pc[p] = "failed"
    /\ IF tx[p] = "open" THEN Release(p) ELSE UNCHANGED txVars
    /\ Finish(p, "error")
    /\ UNCHANGED <<db, req, cancelled, calls>>

Cancel(p) ==
    /\ pc[p] # "idle" /\ ~cancelled[p]
    /\ cancelled' = [cancelled EXCEPT ![p] = TRUE]
    /\ UNCHANGED <<db, pc, req, todo, txVars, result, calls>>

\* database/sql sees the cancelled context: it claims the transaction ...
AutoRollback(p) ==
    /\ cancelled[p] /\ tx[p] = "open"
    /\ tx' = [tx EXCEPT ![p] = "rolling"]
    /\ UNCHANGED <<db, pc, req, todo, lock, stale, view, cancelled, result, calls>>

\* ... and rolls it back, whether or not the call has returned.
AutoRollbackDone(p) ==
    /\ tx[p] = "rolling"
    /\ Release(p)
    /\ UNCHANGED <<db, pc, req, todo, cancelled, result, calls>>

\* The pool closes an idle connection: SQLite rolls back what was left on it.
ConnCloses(p) ==
    /\ tx[p] = "left"
    /\ Release(p)
    /\ UNCHANGED <<db, pc, req, todo, cancelled, result, calls>>

CallerStep(p) ==
    \/ Begin(p) \/ BeginFails(p)
    \/ Dispatch(p) \/ Introspect(p) \/ IntrospectFails(p)
    \/ Execute(p) \/ ExecuteFails(p)
    \/ Commit(p) \/ CommitFails(p) \/ CommitCancelled(p)
    \/ Rollback(p)

Watcher(p) == AutoRollback(p) \/ AutoRollbackDone(p)

Next ==
    \E p \in Callers :
      \/ Start(p)
      \/ CallerStep(p)
      \/ Cancel(p)
      \/ Watcher(p)
      \/ ConnCloses(p)

\* A call that has begun goes on, and the goroutine of database/sql runs.
Fairness == \A p \in Callers : WF_vars(CallerStep(p)) /\ WF_vars(Watcher(p))

Spec == Init /\ [][Next]_vars /\ Fairness

-----------------------------------------------------------------------------
(* What a call that failed leaves of its transaction.                      *)

\* A call that returned an error has rolled its transaction back, unless its
\* context is over: then the goroutine of database/sql does (schema_modifier.go:
\* "On any error, the transaction rolls back").
ErrorsRollBack ==
    \A p \in Callers :
        pc[p] = "idle" /\ result[p] = "error" /\ ~cancelled[p] => tx[p] = "none"

-----------------------------------------------------------------------------
(* The calls as AtomicDDL sees them.                                       *)

Status == [p \in Callers |-> IF pc[p] # "idle" THEN "pending"
                             ELSE IF result[p] = "none" THEN "idle" ELSE result[p]]

\* A transaction on a snapshot that was overtaken has nothing to change, or fails.
Moot == [p \in Callers |-> pc[p] = "run" /\ stale[p] /\ view[p] \in Outcomes(req[p], view[p])]

Atomic == INSTANCE AtomicDDL WITH status <- Status, moot <- Moot

\* Every DDL call is all or nothing (schema_modifier.go: "On any error, the
\* transaction rolls back and no schema state remains"; "Partial failures roll
\* back and leave the collection untouched"): whatever statements fail, locks
\* are refused, contexts are cancelled and callers interleave, the committed
\* catalog changes only by the whole effect of a call that returns nil.
AtomicSpec == Atomic!Spec

-----------------------------------------------------------------------------
(* What a commit leaves.                                                   *)

Committed(p) == pc[p] = "run" /\ pc'[p] = "idle" /\ result'[p] = "ok"

\* A Bool is declared INTEGER, which is read back as Int.
StoredType(t) == IF t = "Bool" THEN "Int" ELSE t

\* A committed column is described by DescribeCollection with the type it was
\* created with (Int for a Bool), through any sequence of creations, drops, renames and
\* re-creations: its time marker is neither lost nor left behind for a later
\* column of the same name (type_mapping.go, the sidecar table).
DescribedAsDeclared ==
    \A t \in Names, f \in Columns :
        HasColumn(db, t, f) => DescribedType(db, t, f) = StoredType(db.table[t].cols[f].want)

Creates(p) == Committed(p) /\ req[p].op = "create" /\ ~req[p].ifNot

\* A field as it is read back: a column beside a composite key is always nullable.
Stored(def, f) ==
    [def.fields[f] EXCEPT
       !.type = StoredType(@),
       !.nullable = @ \/ (Len(def.pk) > 1 /\ f \notin {def.pk[i] : i \in DOMAIN def.pk})]

\* Whatever a collection of the same name left in the file before it, a collection
\* is described, the moment its creation commits, as it was requested, but for
\* what Stored says is lost.
CreateRoundTrips ==
    [][\A p \in Callers :
        LET r == req[p] IN
        Creates(p) => DescribeFields(db', r.name) =
                        [f \in Columns |-> IF f \in FieldsOf(r.def) THEN Stored(r.def, f) ELSE None]]_vars

Removed(o) == IF o.kind \in {"dropField", "renameField"} THEN {o.field} ELSE {}

\* An AlterCollection that commits removes no column it was not asked to
\* remove, and no row (ApplyModifyField rebuilds the table from what it read).
AlterKeepsTheRest ==
    [][\A p \in Callers :
        LET r == req[p] IN
        Committed(p) /\ r.op = "alter" /\ HasTable(db, r.name) =>
          /\ HasTable(db', r.name)
          /\ db'.table[r.name].rows = db.table[r.name].rows
          /\ ColumnsOf(db.table[r.name])
               \ UNION {Removed(r.ops[i]) : i \in DOMAIN r.ops}
             \subseteq ColumnsOf(db'.table[r.name])]_vars

=============================================================================
