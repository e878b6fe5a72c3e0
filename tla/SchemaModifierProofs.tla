------------------------ MODULE SchemaModifierProofs ------------------------
(***************************************************************************)
(* What concurrent DDL calls leave of their transactions, and the types of *)
(* their state, for any number of callers and any requests.                *)
(*                                                                         *)
(* LockInv is what the lemmas of AtomicDDLProofs need of the locks: one    *)
(* transaction writes, one that may write has read what is committed, a    *)
(* lock belongs to a transaction and only a reader can be stale.           *)
(*                                                                         *)
(* TypeInv adds to TypeOK that what is seen is a schema SQLite can hold:   *)
(* without it a statement could be legal on a catalog and leave none.      *)
(***************************************************************************)
EXTENDS SchemaModifier, TLAPS, WellFoundedInduction

\* The part of TypeOK the argument needs.
TxTypes ==
    /\ tx \in [Callers -> {"none", "open", "rolling", "left"}]
    /\ lock \in [Callers -> {"none", "shared", "reserved"}]
    /\ stale \in [Callers -> BOOLEAN]
    /\ DOMAIN view = Callers
    /\ view = [p \in Callers |-> view[p]]

\* One transaction at most writes, and one that may still write has read the
\* committed catalog of now.
Isolation ==
    /\ \A p, q \in Callers : lock[p] = "reserved" /\ lock[q] = "reserved" => p = q
    /\ \A p \in Callers : lock[p] = "shared" /\ ~stale[p] => view[p] = db

LockInv ==
    /\ TxTypes
    /\ Isolation
    /\ \A p \in Callers : tx[p] = "none" => lock[p] = "none"
    /\ \A p \in Callers : stale[p] => lock[p] = "shared"

-----------------------------------------------------------------------------
\* A statement that only reads leaves the catalog it saw.
LEMMA NoopApply ==
    ASSUME NEW s, NEW c, Noop(s, c)
    PROVE  Apply(s, c) = c
  BY DEF Apply

\* Giving up a transaction, by whichever path, keeps the others isolated.
LEMMA ReleaseStep ==
    ASSUME LockInv, NEW p \in Callers, Release(p), db' = db
    PROVE  LockInv'
  BY DEF LockInv, TxTypes, Isolation, Release

LEMMA ExecuteStep ==
    ASSUME LockInv, NEW p \in Callers, Execute(p)
    PROVE  LockInv'
<1> DEFINE s == Head(todo[p])
<1>1. CASE Noop(s, Seen(p))
  <2>1. view' = [view EXCEPT ![p] = Seen(p)]
    BY <1>1, NoopApply DEF Execute
  <2>2. lock' = [lock EXCEPT ![p] = IF @ = "none" THEN "shared" ELSE @]
    BY <1>1 DEF Execute
  <2>3. UNCHANGED <<db, tx, stale>> /\ tx[p] = "open"
    BY DEF Execute, Alive
  <2> QED
    BY <2>1, <2>2, <2>3 DEF LockInv, TxTypes, Isolation, Seen
<1>2. CASE ~Noop(s, Seen(p))
  <2>1. MayWrite(p) /\ lock' = [lock EXCEPT ![p] = "reserved"]
    BY <1>2 DEF Execute
  <2>2. UNCHANGED <<db, tx, stale>> /\ tx[p] = "open"
    BY DEF Execute, Alive
  <2>3. PICK v : view' = [view EXCEPT ![p] = v]
    BY DEF Execute
  <2> QED
    BY <2>1, <2>2, <2>3 DEF LockInv, TxTypes, Isolation, MayWrite
<1> QED
  BY <1>1, <1>2

LEMMA IntrospectStep ==
    ASSUME LockInv, NEW p \in Callers, Introspect(p)
    PROVE  LockInv'
<1>1. /\ view' = [view EXCEPT ![p] = Seen(p)]
      /\ lock' = [lock EXCEPT ![p] = IF @ = "none" THEN "shared" ELSE @]
      /\ UNCHANGED <<db, tx, stale>> /\ tx[p] = "open"
  BY DEF Introspect, Alive
<1> QED
  BY <1>1 DEF LockInv, TxTypes, Isolation, Seen

\* A commit that publishes a catalog makes every reader of the old one stale.
LEMMA CommitStep ==
    ASSUME LockInv, NEW p \in Callers, Commit(p)
    PROVE  LockInv'
<1>1. /\ tx' = [tx EXCEPT ![p] = "none"]
      /\ lock' = [lock EXCEPT ![p] = "none"]
      /\ view' = [view EXCEPT ![p] = None]
      /\ stale' = Overtaken(p)
      /\ lock[p] # "reserved" => db' = db
  BY DEF Commit
<1>2. TxTypes'
  BY <1>1 DEF LockInv, TxTypes, Overtaken
<1>3. Isolation'
  BY <1>1 DEF LockInv, TxTypes, Isolation, Overtaken
<1> QED
  BY <1>1, <1>2, <1>3 DEF LockInv, TxTypes, Overtaken

LEMMA LockStep ==
    ASSUME LockInv, [Next]_vars
    PROVE  LockInv'
<1>1. CASE UNCHANGED vars
  BY <1>1 DEF vars, LockInv, TxTypes, Isolation
<1>2. ASSUME NEW p \in Callers,
             Start(p) \/ CallerStep(p) \/ Cancel(p) \/ Watcher(p) \/ ConnCloses(p)
      PROVE  LockInv'
  <2>1. CASE UNCHANGED <<db, txVars>>
    BY <2>1 DEF txVars, LockInv, TxTypes, Isolation
  <2>2. CASE Start(p) \/ Cancel(p)
    BY <2>1, <2>2 DEF Start, Cancel
  <2>3. CASE Begin(p)
    BY <2>3 DEF Begin, LockInv, TxTypes, Isolation
  <2>4. CASE BeginFails(p) \/ Dispatch(p) \/ IntrospectFails(p) \/ ExecuteFails(p)
                \/ CommitCancelled(p)
    BY <2>1, <2>4 DEF BeginFails, Dispatch, IntrospectFails, ExecuteFails, CommitCancelled
  <2>5. CASE Execute(p) \/ Introspect(p) \/ Commit(p)
    BY <2>5, ExecuteStep, IntrospectStep, CommitStep
  <2>6. CASE AutoRollbackDone(p) \/ ConnCloses(p)
    BY <2>6, ReleaseStep DEF AutoRollbackDone, ConnCloses
  <2>9. CASE CommitFails(p)
    <3>1. CASE LeftOpen(p)
      BY <2>9, <3>1 DEF CommitFails, LeftOpen, LockInv, TxTypes, Isolation
    <3> QED
      BY <2>9, <3>1, ReleaseStep DEF CommitFails
  <2>7. CASE Rollback(p)
    BY <2>1, <2>7, ReleaseStep DEF Rollback
  <2>8. CASE AutoRollback(p)
    BY <2>8 DEF AutoRollback, LockInv, TxTypes, Isolation
  <2> QED
    BY <1>2, <2>2, <2>3, <2>4, <2>5, <2>6, <2>7, <2>8, <2>9 DEF CallerStep, Watcher
<1> QED
  BY <1>1, <1>2 DEF Next

-----------------------------------------------------------------------------
(* A transaction behind an error.                                          *)

\* A call has a transaction open while it runs and none before and after,
\* unless its context is over.
TxOfItsCall ==
    \A p \in Callers :
        cancelled[p] \/ tx[p] = IF pc[p] \in {"run", "failed"} THEN "open" ELSE "none"

TxInv ==
    /\ tx \in [Callers -> {"none", "open", "rolling", "left"}]
    /\ DOMAIN pc = Callers /\ DOMAIN cancelled = Callers
    /\ TxOfItsCall

LEMMA TxStep ==
    ASSUME Wal, "commit" \notin Faults, TxInv, [Next]_vars
    PROVE  TxInv'
<1>1. CASE UNCHANGED vars
  BY <1>1 DEF vars, TxInv, TxOfItsCall
<1>2. ASSUME NEW p \in Callers,
             Start(p) \/ CallerStep(p) \/ Cancel(p) \/ Watcher(p) \/ ConnCloses(p)
      PROVE  TxInv'
  <2>1. CASE Start(p)
    BY <2>1 DEF Start, Finish, txVars, TxInv, TxOfItsCall
  <2>2. CASE Begin(p) \/ BeginFails(p)
    BY <2>2 DEF Begin, BeginFails, Finish, txVars, TxInv, TxOfItsCall
  <2>3. CASE Dispatch(p) \/ IntrospectFails(p) \/ ExecuteFails(p)
    BY <2>3 DEF Dispatch, IntrospectFails, ExecuteFails, IsStatement, Fail, txVars, TxInv, TxOfItsCall
  <2>4. CASE Introspect(p) \/ Execute(p)
    <3>1. UNCHANGED <<tx, cancelled>> /\ (UNCHANGED pc \/ Fail(p)) /\ pc[p] = "run"
      BY <2>4 DEF Introspect, Execute, IsStatement
    <3> QED BY <3>1 DEF Fail, TxInv, TxOfItsCall
  <2>5. CASE Commit(p) \/ CommitCancelled(p)
    BY <2>5 DEF Commit, CommitCancelled, Done, Alive, Finish, txVars, TxInv, TxOfItsCall
  <2>6. CASE CommitFails(p)
    BY <2>6 DEF CommitFails, MayCommit
  <2>7. CASE Rollback(p)
    BY <2>7 DEF Rollback, Release, Finish, txVars, TxInv, TxOfItsCall
  <2>8. CASE Cancel(p) \/ Watcher(p) \/ ConnCloses(p)
    BY <2>8 DEF Cancel, Watcher, AutoRollback, AutoRollbackDone, ConnCloses, Release, txVars,
                TxInv, TxOfItsCall
  <2> QED
    BY <1>2, <2>1, <2>2, <2>3, <2>4, <2>5, <2>6, <2>7, <2>8 DEF CallerStep
<1> QED
  BY <1>1, <1>2 DEF Next

\* "On any error, the transaction rolls back": the commit inTx does not follow by
\* a roll back is the only exception.  Where commits are not refused (WAL, and no
\* fault of a commit) no call returns an error and leaves its transaction open,
\* whichever statement failed and however a cancellation raced it.
THEOREM OnlyRefusedCommitsStay ==
    ASSUME Wal, "commit" \notin Faults
    PROVE  Spec => []ErrorsRollBack
<1>1. Init => TxInv
  BY DEF Init, TxInv, TxOfItsCall
<1>2. TxInv /\ [Next]_vars => TxInv'
  BY TxStep
<1>3. TxInv => ErrorsRollBack
  BY DEF TxInv, TxOfItsCall, ErrorsRollBack
<1> QED
  BY <1>1, <1>2, <1>3, PTL DEF Spec

-----------------------------------------------------------------------------
(* What statements are and leave.                                          *)

\* A statement by its kind, with the fields of that kind.
LEMMA StatementKinds ==
    ASSUME NEW s \in Statement
    PROVE  \/ s.kind = "createTable" /\ s \in [kind : {"createTable"}, name : Names, body : Table, ifNot : BOOLEAN]
           \/ s.kind = "createIndex" /\ s \in [kind : {"createIndex"}, name : IndexNames, on : Names,
                       fields : SUBSET Columns, ifNot : BOOLEAN]
           \/ s.kind = "dropTable" /\ s \in [kind : {"dropTable"}, name : Names, ifExists : BOOLEAN]
           \/ s.kind = "dropIndex" /\ s \in [kind : {"dropIndex"}, name : IndexNames, ifExists : BOOLEAN]
           \/ s.kind = "addColumn" /\ s \in [kind : {"addColumn"}, name : Names, col : Columns, body : Column]
           \/ s.kind = "dropColumn" /\ s \in [kind : {"dropColumn"}, name : Names, col : Columns]
           \/ s.kind = "renameColumn" /\ s \in [kind : {"renameColumn"}, name : Names, col : Columns, new : Columns]
           \/ s.kind = "copyRows" /\ s \in [kind : {"copyRows"}, name : Names, from : Names, cols : SUBSET Columns]
           \/ s.kind = "renameTable" /\ s \in [kind : {"renameTable"}, name : Names, new : Names]
           \/ s.kind = "sidecar"
           \/ s.kind = "mark" /\ s \in [kind : {"mark"}, name : Names, cols : SUBSET Columns]
           \/ s.kind = "unmarkTable" /\ s \in [kind : {"unmarkTable"}, name : Names]
           \/ s.kind = "unmark" /\ s \in [kind : {"unmark"}, name : Names, col : Columns]
           \/ s.kind = "remark" /\ s \in [kind : {"remark"}, name : Names, col : Columns, new : Columns]
  BY DEF Statement

\* A table of a schema may be replaced by another whose key is of its columns.
LEMMA TableReplaced ==
    ASSUME NEW c \in Catalog, WellFormed(c), NEW t \in Names, c.table[t] \in Table,
           NEW tb \in Table, KeyOf(tb) \subseteq ColumnsOf(tb)
    PROVE  [c EXCEPT !.table[t] = tb] \in Catalog /\ WellFormed([c EXCEPT !.table[t] = tb])
<1> DEFINE e == [c EXCEPT !.table[t] = tb]
<1>1. e \in Catalog /\ e.table = [c.table EXCEPT ![t] = tb] /\ e.index = c.index
  BY DEF Catalog
<1>2. c.table \in [Names -> Table \cup {None}]
  BY DEF Catalog
<1> HIDE DEF e
<1>3. WellFormed(e)
  BY <1>1, <1>2, NoneAssumption DEF WellFormed, HasTable
<1> QED BY <1>1, <1>3 DEF e

\* RENAME COLUMN leaves a table whose key is still of its columns.
LEMMA RenamedTyped ==
    ASSUME NEW tb \in Table, NEW old \in ColumnsOf(tb), NEW new \in Columns
    PROVE  LET rn == RenamedColumn(tb, old, new) IN
           rn \in Table /\ (KeyOf(tb) \subseteq ColumnsOf(tb) => KeyOf(rn) \subseteq ColumnsOf(rn))
<1> DEFINE rn == RenamedColumn(tb, old, new)
           cl == [f \in Columns |-> IF f = new THEN tb.cols[old]
                                           ELSE IF f = old THEN None
                                           ELSE tb.cols[f]]
           pk == [i \in DOMAIN tb.pk |-> IF tb.pk[i] = old THEN new ELSE tb.pk[i]]
<1>1. cl \in [Columns -> Column \cup {None}]
  BY DEF Table, ColumnsOf
<1>2. pk \in Seq(Columns) /\ DOMAIN pk = DOMAIN tb.pk
  <2>1. tb.pk \in Seq(Columns)
    BY DEF Table
  <2>2. pk \in [1..Len(tb.pk) -> Columns]
    BY <2>1
  <2> QED BY <2>1, <2>2
<1>3. rn = [tb EXCEPT !.cols = cl, !.pk = pk]
  BY DEF RenamedColumn
<1>4. rn \in Table /\ rn.cols = cl /\ rn.pk = pk
  <2> HIDE DEF rn, cl, pk
  <2> QED BY <1>1, <1>2, <1>3 DEF Table
<1>5. ASSUME KeyOf(tb) \subseteq ColumnsOf(tb) PROVE KeyOf(rn) \subseteq ColumnsOf(rn)
  <2> HIDE DEF rn
  <2>1. SUFFICES ASSUME NEW i \in DOMAIN pk PROVE pk[i] \in ColumnsOf(rn)
    BY <1>4 DEF KeyOf
  <2>2. tb.pk[i] \in ColumnsOf(tb)
    BY <1>2, <1>5 DEF KeyOf
  <2> QED BY <2>2, <1>2, <1>4 DEF ColumnsOf
<1> HIDE DEF rn
<1> QED BY <1>4, <1>5 DEF rn

\* A legal statement leaves a catalog, and one that SQLite can hold.
LEMMA EffectiveTyped ==
    ASSUME NEW c \in Catalog, NEW s \in Statement, Legal(s, c), ~Noop(s, c), WellFormed(c)
    PROVE  Effective(s, c) \in Catalog /\ WellFormed(Effective(s, c))
<1> DEFINE e == Effective(s, c)
<1> SUFFICES e \in Catalog /\ WellFormed(e)
  OBVIOUS
<1>0. /\ c.table \in [Names -> Table \cup {None}] /\ c.index \in [IndexNames -> Index \cup {None}]
      /\ c.sidecar \in BOOLEAN /\ c.markers \in SUBSET (Names \X Columns)
  BY DEF Catalog
<1>1. CASE s.kind = "createTable"
  <2>1. s.name \in Names /\ s.body \in Table /\ KeyOf(s.body) \subseteq ColumnsOf(s.body) /\ ~HasTable(c, s.name)
    BY <1>1, StatementKinds DEF Legal, Noop
  <2>2. e = [c EXCEPT !.table[s.name] = s.body]
    BY <1>1 DEF Effective
  <2>3. e.table = [c.table EXCEPT ![s.name] = s.body] /\ e.index = c.index
    BY <2>2 DEF Catalog
  <2>4. e \in Catalog
    BY <2>1, <2>2 DEF Catalog
  <2>5. WellFormed(e)
    BY <2>1, <2>3, <1>0, NoneAssumption DEF WellFormed, HasTable
  <2> QED BY <2>4, <2>5
<1>2. CASE s.kind = "createIndex"
  <2>1. s.name \in IndexNames /\ s.on \in Names /\ s.fields \subseteq Columns /\ HasTable(c, s.on)
    BY <1>2, StatementKinds DEF Legal, Noop
  <2>2. e = [c EXCEPT !.index[s.name] = [on |-> s.on, fields |-> s.fields]]
    BY <1>2 DEF Effective
  <2>4. e \in Catalog
    BY <2>1, <2>2 DEF Catalog, Index
  <2>3. e.table = c.table /\ e.index = [c.index EXCEPT ![s.name] = [on |-> s.on, fields |-> s.fields]]
    BY <2>2 DEF Catalog
  <2>5. WellFormed(e)
    <3> HIDE DEF e
    <3>1. \A x \in IndexNames : IF x = s.name THEN e.index[x].on = s.on ELSE e.index[x] = c.index[x]
      BY <2>1, <2>3, <1>0
    <3> QED BY <2>1, <2>3, <3>1 DEF WellFormed, HasTable
  <2> QED BY <2>4, <2>5
<1>3. CASE s.kind = "dropTable"
  <2>1. s.name \in Names
    BY <1>3, StatementKinds
  <2>2. e = [c EXCEPT !.table[s.name] = None,
                      !.index = [x \in IndexNames |->
                                   IF x \in IndexesOn(c, s.name) THEN None ELSE c.index[x]]]
    BY <1>3 DEF Effective
  <2>3. /\ e.table = [c.table EXCEPT ![s.name] = None]
        /\ e.index = [x \in IndexNames |-> IF x \in IndexesOn(c, s.name) THEN None ELSE c.index[x]]
    BY <2>2 DEF Catalog
  <2>4. e \in Catalog
    <3> HIDE DEF e
    <3>1. e = [table |-> e.table, index |-> e.index, sidecar |-> c.sidecar, markers |-> c.markers]
      BY <2>2, <2>3 DEF Catalog
    <3>2. e.table \in [Names -> Table \cup {None}] /\ e.index \in [IndexNames -> Index \cup {None}]
      BY <2>1, <2>3, <1>0
    <3> QED BY <3>1, <3>2, <1>0 DEF Catalog
  <2>5. WellFormed(e)
    BY <2>1, <2>3, <1>0 DEF WellFormed, HasTable, IndexesOn
  <2> QED BY <2>4, <2>5
<1>4. CASE s.kind = "dropIndex"
  <2>1. e = [c EXCEPT !.index[s.name] = None]
    BY <1>4 DEF Effective
  <2>2. e \in Catalog /\ e.table = c.table /\ e.index = [c.index EXCEPT ![s.name] = None]
    BY <2>1 DEF Catalog
  <2> QED BY <2>2, <1>0 DEF WellFormed, HasTable
<1>5. CASE s.kind = "addColumn"
  <2>1. s.name \in Names /\ s.col \in Columns /\ s.body \in Column /\ c.table[s.name] \in Table
    BY <1>5, <1>0, StatementKinds DEF Legal, Noop, HasTable
  <2>2. e = [c EXCEPT !.table[s.name].cols[s.col] = s.body]
    BY <1>5 DEF Effective
  <2> DEFINE tb == [c.table[s.name] EXCEPT !.cols[s.col] = s.body]
  <2>3. tb \in Table /\ tb.pk = c.table[s.name].pk /\ tb.cols = [c.table[s.name].cols EXCEPT ![s.col] = s.body]
    BY <2>1 DEF Table
  <2>4. e \in Catalog /\ e.table = [c.table EXCEPT ![s.name] = tb] /\ e.index = c.index
    <3> HIDE DEF e
    <3>1. e = [c EXCEPT !.table[s.name] = tb]
      BY <2>2
    <3> HIDE DEF tb
    <3> QED BY <3>1, <2>1, <2>3 DEF Catalog
  <2>5. ColumnsOf(c.table[s.name]) \subseteq ColumnsOf(tb) /\ KeyOf(tb) = KeyOf(c.table[s.name])
    BY <2>1, <2>3, NoneAssumption DEF ColumnsOf, KeyOf, Table
  <2>6. WellFormed(e)
    <3> HIDE DEF e, tb
    <3> QED BY <2>1, <2>3, <2>4, <2>5, <1>0, NoneAssumption, SMTT(30) DEF WellFormed, HasTable
  <2> QED BY <2>4, <2>6
<1>6. CASE s.kind = "dropColumn"
  <2>1. s.name \in Names /\ s.col \in Columns /\ c.table[s.name] \in Table /\ s.col \notin KeyOf(c.table[s.name])
    BY <1>6, <1>0, StatementKinds DEF Legal, Noop, HasTable, HasColumn
  <2>2. e = [c EXCEPT !.table[s.name].cols[s.col] = None]
    BY <1>6 DEF Effective
  <2> DEFINE tb == [c.table[s.name] EXCEPT !.cols[s.col] = None]
  <2>3. tb \in Table /\ tb.pk = c.table[s.name].pk /\ tb.cols = [c.table[s.name].cols EXCEPT ![s.col] = None]
    BY <2>1 DEF Table
  <2>5. ColumnsOf(c.table[s.name]) \ {s.col} \subseteq ColumnsOf(tb) /\ KeyOf(tb) = KeyOf(c.table[s.name])
    BY <2>1, <2>3, NoneAssumption, SMTT(30) DEF ColumnsOf, KeyOf, Table
  <2>6. e = [c EXCEPT !.table[s.name] = tb]
    BY <2>2
  <2>7. KeyOf(tb) \subseteq ColumnsOf(tb)
    BY <2>1, <2>5, NoneAssumption DEF WellFormed, HasTable
  <2> HIDE DEF e, tb
  <2> QED BY <2>1, <2>3, <2>6, <2>7, TableReplaced
<1>7. CASE s.kind = "renameColumn"
  <2> DEFINE tb == RenamedColumn(c.table[s.name], s.col, s.new)
             ix == [x \in IndexNames |->
                           IF x \in IndexesOn(c, s.name) /\ s.col \in c.index[x].fields
                           THEN [c.index[x] EXCEPT !.fields = (@ \ {s.col}) \cup {s.new}]
                           ELSE c.index[x]]
  <2>1. s.name \in Names /\ s.col \in Columns /\ s.new \in Columns
    BY <1>7, StatementKinds
  <2>2. c.table[s.name] \in Table /\ s.col \in ColumnsOf(c.table[s.name])
    BY <1>7, <2>1, <1>0 DEF Legal, Noop, HasTable, HasColumn
  <2>3. e = [c EXCEPT !.table[s.name] = tb, !.index = ix]
    BY <1>7 DEF Effective
  <2>4. tb \in Table /\ (KeyOf(c.table[s.name]) \subseteq ColumnsOf(c.table[s.name]) => KeyOf(tb) \subseteq ColumnsOf(tb))
    BY <2>1, <2>2, RenamedTyped
  <2>5. ix \in [IndexNames -> Index \cup {None}] /\ \A x \in IndexNames : ix[x] # None => c.index[x] # None /\ ix[x].on = c.index[x].on
    BY <2>1, <1>0, NoneAssumption DEF Index, IndexesOn
  <2>6. KeyOf(tb) \subseteq ColumnsOf(tb)
    BY <2>1, <2>2, <2>4, NoneAssumption DEF WellFormed, HasTable
  <2> HIDE DEF e, tb, ix
  <2>7. e \in Catalog /\ e.table = [c.table EXCEPT ![s.name] = tb] /\ e.index = ix
    BY <2>1, <2>3, <2>4, <2>5 DEF Catalog
  <2>8. WellFormed(e)
    BY <2>1, <2>4, <2>5, <2>6, <2>7, <1>0, NoneAssumption, SMTT(30) DEF WellFormed, HasTable
  <2> QED BY <2>7, <2>8
<1>8. CASE s.kind = "copyRows"
  <2>1. s.name \in Names /\ c.table[s.name] \in Table /\ c.table[s.from] \in Table
    BY <1>8, <1>0, StatementKinds DEF Legal, Noop, HasTable
  <2>2. e = [c EXCEPT !.table[s.name].rows = @ \cup c.table[s.from].rows]
    BY <1>8 DEF Effective
  <2> DEFINE tb == [c.table[s.name] EXCEPT !.rows = @ \cup c.table[s.from].rows]
  <2>3. tb \in Table /\ tb.pk = c.table[s.name].pk /\ tb.cols = c.table[s.name].cols
    BY <2>1 DEF Table
  <2>4. KeyOf(tb) = KeyOf(c.table[s.name]) /\ ColumnsOf(tb) = ColumnsOf(c.table[s.name])
    BY <2>3 DEF KeyOf, ColumnsOf
  <2>5. e = [c EXCEPT !.table[s.name] = tb]
    BY <2>2
  <2>6. KeyOf(tb) \subseteq ColumnsOf(tb)
    BY <2>1, <2>4, NoneAssumption DEF WellFormed, HasTable
  <2> HIDE DEF e, tb
  <2> QED BY <2>1, <2>3, <2>5, <2>6, TableReplaced
<1>9. CASE s.kind = "renameTable"
  <2> DEFINE tab == [n \in Names |-> IF n = s.new THEN c.table[s.name]
                                     ELSE IF n = s.name THEN None ELSE c.table[n]]
             ix == [x \in IndexNames |->
                           IF x \in IndexesOn(c, s.name)
                           THEN [c.index[x] EXCEPT !.on = s.new] ELSE c.index[x]]
  <2>1. s.name \in Names /\ s.new \in Names /\ HasTable(c, s.name) /\ ~HasTable(c, s.new)
    BY <1>9, StatementKinds DEF Legal, Noop
  <2>2. e = [c EXCEPT !.table = tab, !.index = ix]
    BY <1>9 DEF Effective
  <2>3. tab \in [Names -> Table \cup {None}]
    BY <2>1, <1>0
  <2>4. ix \in [IndexNames -> Index \cup {None}]
    BY <2>1, <1>0 DEF Index, IndexesOn
  <2>5. \A x \in IndexNames : ix[x] # None => c.index[x] # None /\ ix[x].on = IF c.index[x].on = s.name THEN s.new ELSE c.index[x].on
    BY <2>1, <1>0, NoneAssumption DEF Index, IndexesOn
  <2>6. \A n \in Names : tab[n] = IF n = s.new THEN c.table[s.name] ELSE IF n = s.name THEN None ELSE c.table[n]
    OBVIOUS
  <2>7. \A x \in IndexNames : c.index[x] # None => c.index[x].on \in Names
    BY <1>0 DEF Index
  <2> HIDE DEF e, tab, ix
  <2>8. e \in Catalog /\ e.table = tab /\ e.index = ix
    BY <2>2, <2>3, <2>4 DEF Catalog
  <2>9. WellFormed(e)
    BY <2>1, <2>5, <2>6, <2>7, <2>8 DEF WellFormed, HasTable
  <2> QED BY <2>8, <2>9
<1>10. CASE s.kind \in {"sidecar", "mark", "unmarkTable", "unmark", "remark"}
  <2>1. e \in Catalog /\ e.table = c.table /\ e.index = c.index
    <3>1. CASE s.kind = "sidecar"
      BY <3>1 DEF Effective, Catalog
    <3>2. CASE s.kind = "mark"
      BY <3>2, StatementKinds DEF Effective, Catalog
    <3>3. CASE s.kind = "unmarkTable"
      BY <3>3, StatementKinds DEF Effective, Catalog
    <3>4. CASE s.kind = "unmark"
      BY <3>4, StatementKinds DEF Effective, Catalog
    <3>5. CASE s.kind = "remark"
      BY <3>5, StatementKinds DEF Effective, Catalog
    <3> QED BY <1>10, <3>1, <3>2, <3>3, <3>4, <3>5
  <2> HIDE DEF e
  <2> QED BY <2>1 DEF WellFormed, HasTable
<1> QED
  BY <1>1, <1>2, <1>3, <1>4, <1>5, <1>6, <1>7, <1>8, <1>9, <1>10, StatementKinds

-----------------------------------------------------------------------------
(* What a definition reads, by induction on the length of its key.         *)

\* A non-empty set of numbers has a least element.
LEMMA LeastNat ==
    ASSUME NEW T, T \subseteq Nat, T # {}
    PROVE  \E x \in T : \A y \in T : ~(y < x)
<1>1. \E x \in T : \A y \in T : ~(<<y, x>> \in OpToRel(<, Nat))
  BY NatLessThanWellFounded, WFMin
<1>2. PICK x \in T : \A y \in T : ~(<<y, x>> \in OpToRel(<, Nat))
  BY <1>1
<1>3. ASSUME NEW y \in T PROVE ~(y < x)
  BY <1>2 DEF OpToRel
<1> QED BY <1>3

\* Induction up to n, on the set of the numbers a fact holds of.
LEMMA SetInduction ==
    ASSUME NEW n \in Nat, NEW S, 0 \in S, \A i \in 0..(n-1) : i \in S => i + 1 \in S
    PROVE  0..n \subseteq S
<1> DEFINE T == (0..n) \ S
<1>1. SUFFICES ASSUME T # {} PROVE FALSE
  OBVIOUS
<1>2. PICK x \in T : \A y \in T : ~(y < x)
  <2> HIDE DEF T
  <2>1. T \subseteq Nat
    BY DEF T
  <2> QED BY <1>1, <2>1, LeastNat
<1>3. x # 0 /\ x - 1 \in 0..(n-1) /\ x - 1 \notin T
  BY <1>2
<1> QED BY <1>3


\* The key ModifyField reads is a sequence of columns, of those it has read.
LEMMA KeyReadTyped ==
    ASSUME NEW pk \in Seq(Columns), NEW seen
    PROVE  /\ KeyRead(pk, seen) \in Seq(Columns)
           /\ (\A i \in DOMAIN pk : pk[i] \in seen) => KeyRead(pk, seen) = pk
<1> DEFINE n == Len(pk)
           Step(x, i) == IF pk[i] \in seen THEN Append(x, pk[i]) ELSE x
           Is(f, m) == f = [i \in 0..m |-> IF i = 0 THEN <<>> ELSE Step(f[i-1], i)]
           S == {m \in Nat : \E f : Is(f, m)}
<1>0. n \in Nat
  OBVIOUS
<1>1. 0 \in S
  <2>1. Is([i \in 0..0 |-> <<>>], 0)
    OBVIOUS
  <2> QED BY <2>1
<1> HIDE DEF n
<1>2. ASSUME NEW m \in 0..(n-1), m \in S PROVE m + 1 \in S
  <2> HIDE DEF Step
  <2>1. PICK f : Is(f, m)
    BY <1>2
  <2> DEFINE h == [i \in 0..(m+1) |-> IF i = m + 1 THEN Step(f[m], m+1) ELSE f[i]]
  <2>2. ASSUME NEW i \in 0..(m+1) PROVE h[i] = IF i = 0 THEN <<>> ELSE Step(h[i-1], i)
    <3>1. CASE i = m + 1
      <4>1. h[i-1] = f[m] /\ h[i] = Step(f[m], m+1) /\ i # 0
        BY <1>0, <3>1
      <4> QED BY <4>1, <3>1
    <3>2. CASE i # m + 1
      <4>0. i \in 0..m
        BY <1>0, <3>2
      <4>1. h[i] = f[i] /\ f[i] = IF i = 0 THEN <<>> ELSE Step(f[i-1], i)
        BY <2>1, <4>0
      <4>2. i # 0 => h[i-1] = f[i-1]
        BY <4>0
      <4> QED BY <4>1, <4>2
    <3> QED BY <3>1, <3>2
  <2>3. h = [i \in 0..(m+1) |-> h[i]]
    OBVIOUS
  <2> HIDE DEF h
  <2>4. Is(h, m + 1)
    BY <2>2, <2>3
  <2> QED BY <1>0, <2>4
<1>3. n \in S
  <2> HIDE DEF S
  <2>1. 0..n \subseteq S
    BY <1>0, <1>1, <1>2, SetInduction
  <2> QED BY <1>0, <2>1
<1> DEFINE f == CHOOSE f : Is(f, n)
<1>4. Is(f, n)
  <2>1. \E h : Is(h, n)
    BY <1>3
  <2> HIDE DEF Is
  <2> QED BY <2>1
<1>5. KeyRead(pk, seen) = f[n]
  BY DEF KeyRead, n
<1> HIDE DEF f
<1>6. f[0] = <<>> /\ \A i \in 1..n : f[i] = Step(f[i-1], i)
  <2> HIDE DEF Step
  <2>1. \A i \in 0..n : f[i] = IF i = 0 THEN <<>> ELSE Step(f[i-1], i)
    BY <1>4
  <2> HIDE DEF Is
  <2> QED BY <1>0, <2>1
<1> DEFINE U == {i \in 0..n : f[i] \in Seq(Columns) /\
                   ((\A j \in DOMAIN pk : pk[j] \in seen) => f[i] = SubSeq(pk, 1, i))}
<1>7. 0 \in U
  <2>1. SubSeq(pk, 1, 0) = <<>> /\ <<>> \in Seq(Columns)
    OBVIOUS
  <2>2. 0 \in 0..n /\ f[0] = <<>>
    BY <1>0, <1>6
  <2> HIDE DEF f, n
  <2> QED BY <2>1, <2>2
<1>8. ASSUME NEW i \in 0..(n-1), i \in U PROVE i + 1 \in U
  <2>1. i + 1 \in 1..n /\ (i + 1) - 1 = i /\ i + 1 \in DOMAIN pk /\ i \in Nat
    BY <1>0 DEF n
  <2>2. f[i+1] = Step(f[i], i+1)
    BY <1>6, <2>1
  <2>3. f[i] \in Seq(Columns) /\ pk[i+1] \in Columns
    BY <1>8, <2>1
  <2>4. f[i + 1] \in Seq(Columns)
    BY <2>2, <2>3
  <2>5. ASSUME \A j \in DOMAIN pk : pk[j] \in seen PROVE f[i+1] = SubSeq(pk, 1, i+1)
    <3>1. f[i] = SubSeq(pk, 1, i) /\ f[i+1] = Append(f[i], pk[i+1])
      BY <1>8, <2>1, <2>2, <2>5
    <3>2. Append(SubSeq(pk, 1, i), pk[i+1]) = SubSeq(pk, 1, i+1)
      BY <2>1 DEF n
    <3> QED BY <3>1, <3>2
  <2> QED BY <1>0, <2>1, <2>4, <2>5
<1>9. n \in U
  <2> HIDE DEF U
  <2>1. 0..n \subseteq U
    BY <1>0, <1>7, <1>8, SetInduction
  <2> QED BY <1>0, <2>1
<1>10. SubSeq(pk, 1, n) = pk
  BY DEF n
<1> QED BY <1>5, <1>9, <1>10

-----------------------------------------------------------------------------
(* What calls and operations have to execute.                              *)

\* A portable type has a SQLite keyword.
LEMMA SqliteTypeTyped ==
    ASSUME NEW t \in Creatable
    PROVE  SqliteTypeFor(t) \in Keywords
  BY DEF SqliteTypeFor, Creatable, Types, Keywords

\* A keyword is read as a portable type, an unrecognised one as Null.
LEMMA ReadTypeTyped ==
    ASSUME NEW k \in Keywords
    PROVE  DbschemaTypeFromSQLite(k) \in Types /\ (DbschemaTypeFromSQLite(k) = "Null" <=> k = "OTHER")
  BY DEF DbschemaTypeFromSQLite, Types, Keywords

\* A definition that can be rendered declares a column.
LEMMA ColumnDeclTyped ==
    ASSUME NEW f \in FieldDef, Renderable(f), NEW i \in BOOLEAN, NEW c \in BOOLEAN, NEW k \in BOOLEAN
    PROVE  ColumnDecl(f, i, c, k) \in Column
<1>1. f.type \in Creatable /\ f.type \in Types /\ f.nullable \in BOOLEAN /\ f.autoInc \in BOOLEAN
  BY DEF FieldDef, Renderable, Creatable
<1>2. SqliteTypeFor(f.type) \in Keywords
  BY <1>1, SqliteTypeTyped
<1> QED BY <1>1, <1>2 DEF ColumnDecl, Column

\* A definition CREATE TABLE accepts makes a table.
LEMMA TableForTyped ==
    ASSUME NEW def \in CollectionDef, ~CreateTableFails(def)
    PROVE  TableFor(def) \in Table
<1>1. ASSUME NEW f \in Columns, def.fields[f] # None
      PROVE  def.fields[f] \in FieldDef /\ Renderable(def.fields[f])
  BY <1>1 DEF CollectionDef, CreateTableFails, FieldsOf
<1>2. ASSUME NEW f \in Columns, def.fields[f] # None
      PROVE  ColumnDecl(def.fields[f], InlinePK(def) /\ f = def.pk[1], Len(def.pk) > 1,
                        f \in {def.pk[i] : i \in DOMAIN def.pk}) \in Column
  <2> DEFINE i == InlinePK(def) /\ f = def.pk[1]
             c == Len(def.pk) > 1
             k == f \in {def.pk[j] : j \in DOMAIN def.pk}
  <2>1. i \in BOOLEAN /\ c \in BOOLEAN /\ k \in BOOLEAN
    BY DEF InlinePK
  <2> HIDE DEF i, c, k
  <2>2. ColumnDecl(def.fields[f], i, c, k) \in Column
    BY <1>1, <1>2, <2>1, ColumnDeclTyped
  <2> QED BY <2>2 DEF i, c, k
<1> DEFINE cols == [f \in Columns |->
                 IF def.fields[f] = None THEN None
                 ELSE ColumnDecl(def.fields[f],
                                 InlinePK(def) /\ f = def.pk[1],
                                 Len(def.pk) > 1,
                                 f \in {def.pk[i] : i \in DOMAIN def.pk})]
<1>3. cols \in [Columns -> Column \cup {None}]
  <2> SUFFICES ASSUME NEW f \in Columns PROVE cols[f] \in Column \cup {None}
    OBVIOUS
  <2> QED BY <1>2
<1>4. TableFor(def) = [cols |-> cols, pk |-> def.pk, rows |-> {}]
  BY DEF TableFor
<1>5. def.pk \in Seq(Columns)
  BY DEF CollectionDef
<1> HIDE DEF cols
<1> QED BY <1>3, <1>4, <1>5 DEF Table

\* A request by its operation.
LEMMA RequestKinds ==
    ASSUME NEW r \in Request
    PROVE  /\ r.name \in Tables
           /\ \/ r.op = "create" /\ r.def \in CollectionDef /\ r.ifNot \in BOOLEAN
              \/ r.op = "drop" /\ r.ifExists \in BOOLEAN
              \/ r.op = "alter" /\ r.ops \in Seq(AlterOp)
  BY DEF Request

\* An operation of an AlterCollection by its kind.
LEMMA AlterOpKinds ==
    ASSUME NEW o \in AlterOp
    PROVE  \/ o.kind \in {"addField", "modifyField"} /\ o.field \in Columns /\ o.def \in FieldDef
           \/ o.kind = "dropField" /\ o.field \in Columns
           \/ o.kind = "renameField" /\ o.field \in Columns /\ o.new \in Columns
           \/ o.kind = "addIndex" /\ o.idx \in IndexDef /\ o.ifNot \in BOOLEAN
           \/ o.kind = "dropIndexOp" /\ o.name \in IndexNames /\ o.ifExists \in BOOLEAN
  BY DEF AlterOp

\* CREATE INDEX is a statement.
LEMMA CreateIndexTyped ==
    ASSUME NEW idx \in IndexDef, NEW t \in Names, NEW ifNot \in BOOLEAN
    PROVE  CreateIndex(idx, t, ifNot) \in Statement
<1>1. CreateIndex(idx, t, ifNot) \in [kind : {"createIndex"}, name : IndexNames, on : Names,
          fields : SUBSET Columns, ifNot : BOOLEAN]
  BY DEF CreateIndex, IndexDef
<1> QED BY <1>1 DEF Statement

\* Marking time columns takes statements only.
LEMMA MarkTimeTyped ==
    ASSUME NEW t \in Names, NEW cols \in SUBSET Columns
    PROVE  MarkTime(t, cols) \in Seq(Statement)
<1>1. [kind |-> "sidecar"] \in Statement
  BY DEF Statement
<1>2. [kind |-> "mark", name |-> t, cols |-> cols] \in Statement
  BY DEF Statement
<1> QED BY <1>1, <1>2 DEF MarkTime

\* CreateCollection executes statements only.
LEMMA CreateTyped ==
    ASSUME NEW r \in Request, r.op = "create", ~BuildFails(r)
    PROVE  CreateCollection(r) \in Seq(Statement)
<1>1. r.name \in Names /\ r.def \in CollectionDef /\ r.ifNot \in BOOLEAN
  BY RequestKinds, SchemaModifierAssumption
<1>2. TableFor(r.def) \in Table
  BY <1>1, TableForTyped DEF BuildFails
<1>3. CreateTable(r.name, r.def, r.ifNot) \in Statement
  BY <1>1, <1>2 DEF CreateTable, Statement
<1>4. [i \in 1..Len(r.def.indexes) |-> CreateIndex(r.def.indexes[i], r.name, r.ifNot)] \in Seq(Statement)
  <2>1. r.def.indexes \in Seq(IndexDef)
    BY <1>1 DEF CollectionDef
  <2>2. \A i \in 1..Len(r.def.indexes) : CreateIndex(r.def.indexes[i], r.name, r.ifNot) \in Statement
    BY <1>1, <2>1, CreateIndexTyped
  <2>3. Len(r.def.indexes) \in Nat
    BY <2>1
  <2> QED BY <2>2, <2>3
<1>5. MarkTime(r.name, TimeColumnsOf(r.def)) \in Seq(Statement)
  BY <1>1, MarkTimeTyped DEF TimeColumnsOf, FieldsOf
<1>6. <<CreateTable(r.name, r.def, r.ifNot)>> \in Seq(Statement)
  BY <1>3
<1> DEFINE x == <<CreateTable(r.name, r.def, r.ifNot)>>
           y == [i \in 1..Len(r.def.indexes) |-> CreateIndex(r.def.indexes[i], r.name, r.ifNot)]
           z == MarkTime(r.name, TimeColumnsOf(r.def))
<1>7. CreateCollection(r) = x \o y \o z
  BY DEF CreateCollection
<1> HIDE DEF x, y, z
<1>8. x \in Seq(Statement) /\ y \in Seq(Statement) /\ z \in Seq(Statement)
  BY <1>4, <1>5, <1>6 DEF x, y, z
<1> QED BY <1>7, <1>8

\* DropCollection executes statements only.
LEMMA DropTyped ==
    ASSUME NEW r \in Request, r.op = "drop"
    PROVE  DropCollection(r) \in Seq(Statement)
<1>1. r.name \in Names /\ r.ifExists \in BOOLEAN
  BY RequestKinds, SchemaModifierAssumption
<1>2. DropTable(r.name, r.ifExists) \in Statement /\ [kind |-> "unmarkTable", name |-> r.name] \in Statement
  BY <1>1 DEF DropTable, Statement
<1> QED BY <1>2 DEF DropCollection

\* Whatever a call has to do is a statement or an operation.
LEMMA ProgramTyped ==
    ASSUME NEW r \in Request, ~BuildFails(r)
    PROVE  Program(r) \in Seq(Statement \cup AlterOp)
  BY RequestKinds, CreateTyped, DropTyped DEF Program

\* An operation other than ModifyField becomes statements.
LEMMA ApplyOpTyped ==
    ASSUME NEW o \in AlterOp, o.kind # "modifyField", ~OpBuildFails(o), NEW t \in Names
    PROVE  ApplyOp(t, o) \in Seq(Statement)
<1>1. CASE o.kind = "addField"
  <2>1. o.field \in Columns /\ o.def \in FieldDef /\ Renderable(o.def)
    BY <1>1, AlterOpKinds DEF OpBuildFails
  <2>2. ColumnDecl(o.def, FALSE, FALSE, FALSE) \in Column
    BY <2>1, ColumnDeclTyped
  <2>3. AddColumn(t, o.field, o.def) \in Statement
    BY <2>1, <2>2 DEF AddColumn, Statement
  <2>4. MarkTime(t, IF o.def.type = "Time" THEN {o.field} ELSE {}) \in Seq(Statement)
    BY <2>1, MarkTimeTyped
  <2>5. ApplyAddField(t, o) \in Seq(Statement)
    BY <2>3, <2>4 DEF ApplyAddField
  <2> QED BY <1>1, <2>5 DEF ApplyOp
<1>2. CASE o.kind = "dropField"
  <2>1. DropColumn(t, o.field) \in Statement /\ [kind |-> "unmark", name |-> t, col |-> o.field] \in Statement
    BY <1>2, AlterOpKinds DEF DropColumn, Statement
  <2> QED BY <1>2, <2>1 DEF ApplyOp, ApplyDropField
<1>3. CASE o.kind = "renameField"
  <2>1. RenameColumn(t, o.field, o.new) \in Statement /\ [kind |-> "remark", name |-> t, col |-> o.field, new |-> o.new] \in Statement
    BY <1>3, AlterOpKinds DEF RenameColumn, Statement
  <2> QED BY <1>3, <2>1 DEF ApplyOp, ApplyRenameField
<1>4. CASE o.kind = "addIndex"
  <2>1. CreateIndex(o.idx, t, o.ifNot) \in Statement
    BY <1>4, AlterOpKinds, CreateIndexTyped
  <2> QED BY <1>4, <2>1 DEF ApplyOp, ApplyAddIndex
<1>5. CASE o.kind = "dropIndexOp"
  <2>1. DropIndex(o.name, o.ifExists) \in Statement
    BY <1>5, AlterOpKinds DEF DropIndex, Statement
  <2> QED BY <1>5, <2>1 DEF ApplyOp, ApplyDropIndex
<1> QED BY <1>1, <1>2, <1>3, <1>4, <1>5, AlterOpKinds

\* ModifyField rebuilds a table, however few columns its introspection read.
LEMMA ModifiedTableTyped ==
    ASSUME NEW tb \in Table, NEW seen \in SUBSET ColumnsOf(tb), NEW field \in seen,
           NEW def \in FieldDef, Renderable(def)
    PROVE  ModifiedTable(tb, field, def, seen) \in Table
<1> DEFINE cur == ReadCollectionDefViaTx(tb, seen)
           mod == ModifiedDef(cur, field, def)
           new == TableFor(mod)
<1>1. ASSUME NEW f \in seen
      PROVE  f \in Columns /\ tb.cols[f] \in Column
  BY <1>1 DEF ColumnsOf, Table
<1> DEFINE fs == [f \in Columns |->
        IF f \notin seen THEN None
        ELSE [type |-> LET k == DbschemaTypeFromSQLite(tb.cols[f].decl)
                       IN  IF k = "Null" THEN "String" ELSE k,
              nullable |-> ~tb.cols[f].notnull /\ f \notin KeyOf(tb),
              autoInc |-> FALSE]]
<1>2. fs \in [Columns -> FieldDef \cup {None}] /\ \A f \in seen : fs[f] \in FieldDef /\ Renderable(fs[f])
  <2> SUFFICES ASSUME NEW f \in Columns
               PROVE /\ fs[f] \in FieldDef \cup {None}
                     /\ f \in seen => fs[f] \in FieldDef /\ Renderable(fs[f])
    BY <1>1
  <2>1. CASE f \notin seen
    BY <2>1
  <2>2. CASE f \in seen
    <3>1. DbschemaTypeFromSQLite(tb.cols[f].decl) \in Types
      BY <1>1, <2>2, ReadTypeTyped DEF Column
    <3>2. "String" \in Types /\ "String" # "Null"
      BY DEF Types
    <3>3. (~tb.cols[f].notnull /\ f \notin KeyOf(tb)) \in BOOLEAN
      OBVIOUS
    <3> QED BY <2>2, <3>1, <3>2, <3>3 DEF FieldDef, Renderable
  <2> QED BY <2>1, <2>2
<1>3. cur = [fields |-> fs, pk |-> KeyRead(tb.pk, seen), indexes |-> <<>>]
  BY DEF ReadCollectionDefViaTx
<1>4. KeyRead(tb.pk, seen) \in Seq(Columns)
  BY KeyReadTyped DEF Table
<1> HIDE DEF cur, fs
<1>5. mod = [fields |-> [fs EXCEPT ![field] = def], pk |-> KeyRead(tb.pk, seen), indexes |-> <<>>]
  BY <1>3 DEF ModifiedDef
<1>6. mod \in CollectionDef
  <2>1. [fs EXCEPT ![field] = def] \in [Columns -> FieldDef \cup {None}]
    BY <1>2
  <2>2. <<>> \in Seq(IndexDef)
    OBVIOUS
  <2> QED BY <1>4, <1>5, <2>1, <2>2 DEF CollectionDef
<1>7. ~CreateTableFails(mod)
  <2>1. SUFFICES ASSUME NEW f \in Columns, mod.fields[f] # None PROVE Renderable(mod.fields[f])
    BY DEF CreateTableFails, FieldsOf
  <2>2. mod.fields = [fs EXCEPT ![field] = def]
    BY <1>5
  <2>3. CASE f = field
    BY <1>1, <1>2, <2>2, <2>3
  <2>4. CASE f # field /\ f \in seen
    BY <1>2, <2>2, <2>4
  <2>5. CASE f # field /\ f \notin seen
    <3>1. fs[f] = None
      BY <2>5 DEF fs
    <3>2. mod.fields[f] = fs[f]
      BY <2>2, <2>5, <1>2
    <3> QED BY <2>1, <3>1, <3>2
  <2> QED BY <2>3, <2>4, <2>5
<1> HIDE DEF mod
<1>8. new \in Table
  BY <1>6, <1>7, TableForTyped
<1>9. ASSUME NEW f \in Columns, new.cols[f] # None PROVE f \in seen
  <2>1. mod.fields[f] # None
    BY <1>9 DEF TableFor
  <2>2. f = field \/ fs[f] # None
    BY <1>2, <1>5, <2>1
  <2> QED BY <2>2 DEF fs
<1> DEFINE cols == [f \in Columns |->
            IF f = field \/ new.cols[f] = None THEN new.cols[f]
            ELSE [new.cols[f] EXCEPT !.want = tb.cols[f].want]]
<1> HIDE DEF new
<1>10. cols \in [Columns -> Column \cup {None}]
  <2> SUFFICES ASSUME NEW f \in Columns PROVE cols[f] \in Column \cup {None}
    OBVIOUS
  <2>1. new.cols[f] \in Column \cup {None}
    BY <1>8 DEF Table
  <2>2. CASE f = field \/ new.cols[f] = None
    BY <2>1, <2>2
  <2>3. CASE ~(f = field \/ new.cols[f] = None)
    <3>1. tb.cols[f].want \in Types
      BY <1>1, <1>9, <2>3 DEF Column
    <3>2. [new.cols[f] EXCEPT !.want = tb.cols[f].want] \in Column
      BY <2>1, <2>3, <3>1 DEF Column
    <3> QED BY <2>3, <3>2
  <2> QED BY <2>2, <2>3
<1>11. ModifiedTable(tb, field, def, seen) = [new EXCEPT !.cols = cols]
  BY DEF ModifiedTable, new, mod, cur
<1> HIDE DEF cols
<1> QED BY <1>8, <1>10, <1>11 DEF Table

\* ModifyField becomes statements.
LEMMA ModifyTyped ==
    ASSUME NEW o \in AlterOp, o.kind = "modifyField", NEW t \in Tables, NEW tb \in Table,
           NEW seen \in SUBSET ColumnsOf(tb), o.field \in seen, Renderable(o.def)
    PROVE  ApplyModifyField(t, o, tb, seen) \in Seq(Statement)
<1>1. t \in Names /\ Scratch[t] \in Names
  BY SchemaModifierAssumption
<1>2. ModifiedTable(tb, o.field, o.def, seen) \in Table
  BY AlterOpKinds, ModifiedTableTyped
<1>3. [kind |-> "createTable", name |-> Scratch[t],
        body |-> ModifiedTable(tb, o.field, o.def, seen), ifNot |-> FALSE] \in Statement
  BY <1>1, <1>2 DEF Statement
<1>4. [kind |-> "copyRows", name |-> Scratch[t], from |-> t, cols |-> seen] \in Statement
  BY <1>1 DEF Statement, ColumnsOf
<1>5. DropTable(t, FALSE) \in Statement
  BY <1>1 DEF DropTable, Statement
<1>6. [kind |-> "renameTable", name |-> Scratch[t], new |-> t] \in Statement
  BY <1>1 DEF Statement
<1>7. \A a, b, c, d \in Statement : <<a, b, c, d>> \in Seq(Statement)
  OBVIOUS
<1> QED BY <1>3, <1>4, <1>5, <1>6, <1>7 DEF ApplyModifyField

-----------------------------------------------------------------------------
(* The type invariant.                                                     *)

\* TypeOK, with what it needs of a transaction: it is run for a request, and sees
\* a schema that SQLite could hold.
TypeInv ==
    /\ TypeOK
    /\ WellFormed(db)
    /\ \A p \in Callers : pc[p] # "idle" => req[p] \in Requests
    /\ \A p \in Callers : lock[p] # "none" => view[p] \in Catalog /\ WellFormed(view[p])

\* A statement sees a schema, of the snapshot or of the committed catalog.
LEMMA SeenTyped ==
    ASSUME TypeInv, NEW p \in Callers
    PROVE  Seen(p) \in Catalog /\ WellFormed(Seen(p))
  BY DEF TypeInv, TypeOK, Seen

\* A call that is over has nothing left to do.
LEMMA NothingToDo == <<>> \in Seq(Statement \cup AlterOp)
  OBVIOUS

\* Giving up a transaction, with or without returning, keeps the types.
LEMMA ReleaseTyped ==
    ASSUME TypeInv, NEW p \in Callers, Release(p), UNCHANGED <<db, req, calls>>,
           cancelled' = cancelled,
           UNCHANGED <<pc, todo, result>> \/ Finish(p, "error")
    PROVE  TypeInv'
<1>1. CASE UNCHANGED <<pc, todo, result>>
  BY <1>1 DEF TypeInv, TypeOK, Release
<1>2. CASE Finish(p, "error")
  BY <1>2, NothingToDo DEF TypeInv, TypeOK, Release, Finish
<1> QED BY <1>1, <1>2

\* A new call keeps the types.
LEMMA StartTyped ==
    ASSUME TypeInv, NEW p \in Callers, Start(p)
    PROVE  TypeInv'
<1> USE DEF TypeInv, TypeOK
<1>1. PICK r \in Requests :
         /\ req' = [req EXCEPT ![p] = r]
         /\ IF BuildFails(r)
            THEN Finish(p, "error")
            ELSE /\ pc' = [pc EXCEPT ![p] = "begin"]
                 /\ todo' = [todo EXCEPT ![p] = Program(r)]
                 /\ result' = [result EXCEPT ![p] = "none"]
  BY DEF Start
<1>2. calls' = calls + 1 /\ calls < MaxCalls /\ cancelled' = [cancelled EXCEPT ![p] = FALSE]
      /\ UNCHANGED <<db, tx, lock, stale, view>>
  BY DEF Start, txVars
<1>3. r \in Request /\ MaxCalls \in Nat
  BY SchemaModifierAssumption
<1>4. calls' \in 0..MaxCalls
  BY <1>2, <1>3
<1>5. CASE BuildFails(r)
  BY <1>1, <1>2, <1>4, <1>5, NothingToDo, ZenonT(40) DEF Finish
<1>6. CASE ~BuildFails(r)
  <2>1. Program(r) \in Seq(Statement \cup AlterOp)
    BY <1>3, <1>6, ProgramTyped
  <2> QED BY <1>1, <1>2, <1>4, <1>6, <2>1, ZenonT(40)
<1> QED BY <1>5, <1>6

\* What is next is a statement or an operation, and so is the rest.
LEMMA HeadTyped ==
    ASSUME TypeInv, NEW p \in Callers, todo[p] # <<>>
    PROVE  /\ Tail(todo[p]) \in Seq(Statement \cup AlterOp)
           /\ Head(todo[p]).kind \in OpKinds => Head(todo[p]) \in AlterOp
           /\ Head(todo[p]).kind \notin OpKinds => Head(todo[p]) \in Statement
<1>1. todo[p] \in Seq(Statement \cup AlterOp)
  BY DEF TypeInv, TypeOK
<1>2. Head(todo[p]) \in Statement \cup AlterOp /\ Tail(todo[p]) \in Seq(Statement \cup AlterOp)
  BY <1>1
<1>3. \A s \in Statement : s.kind \notin OpKinds
  BY StatementKinds DEF OpKinds
<1>4. \A o \in AlterOp : o.kind \in OpKinds
  BY AlterOpKinds DEF OpKinds
<1> QED BY <1>2, <1>3, <1>4

\* Turning an operation into its statements keeps the types.
LEMMA DispatchTyped ==
    ASSUME TypeInv, NEW p \in Callers, Dispatch(p)
    PROVE  TypeInv'
<1> DEFINE o == Head(todo[p])
<1>1. /\ pc[p] = "run" /\ todo[p] # <<>> /\ o.kind \in OpKinds \ {"modifyField"}
      /\ IF OpBuildFails(o) THEN Fail(p)
          ELSE /\ todo' = [todo EXCEPT ![p] = ApplyOp(req[p].name, o) \o Tail(todo[p])]
               /\ UNCHANGED pc
      /\ UNCHANGED <<db, req, tx, lock, stale, view, cancelled, result, calls>>
  BY DEF Dispatch, txVars
<1>2. o \in AlterOp /\ Tail(todo[p]) \in Seq(Statement \cup AlterOp)
  BY <1>1, HeadTyped
<1>3. req[p].name \in Names
  <2>1. req[p] \in Request
    BY <1>1, SchemaModifierAssumption DEF TypeInv
  <2> QED BY <2>1, RequestKinds, SchemaModifierAssumption
<1> HIDE DEF o
<1>4. CASE OpBuildFails(o)
  BY <1>1, <1>4, NothingToDo DEF TypeInv, TypeOK, Fail
<1>5. CASE ~OpBuildFails(o)
  <2>1. ApplyOp(req[p].name, o) \in Seq(Statement \cup AlterOp)
    <3>1. ApplyOp(req[p].name, o) \in Seq(Statement)
      BY <1>1, <1>2, <1>3, <1>5, ApplyOpTyped
    <3> QED BY <3>1
  <2>2. ApplyOp(req[p].name, o) \o Tail(todo[p]) \in Seq(Statement \cup AlterOp)
    BY <1>2, <2>1
  <2> QED BY <1>1, <1>5, <2>2 DEF TypeInv, TypeOK
<1> QED BY <1>4, <1>5

\* Turning ModifyField into its statements keeps the types.
LEMMA IntrospectTyped ==
    ASSUME TypeInv, NEW p \in Callers, Introspect(p)
    PROVE  TypeInv'
<1> DEFINE o == Head(todo[p])
           name == req[p].name
           c == Seen(p)
           all == IF HasTable(c, name) THEN ColumnsOf(c.table[name]) ELSE {}
<1>0. pc[p] = "run" /\ todo[p] # <<>> /\ o.kind = "modifyField"
  BY DEF Introspect
<1>1. PICK seen \in SUBSET all :
         /\ IF o.field \notin seen \/ ~Renderable(o.def) THEN Fail(p)
            ELSE /\ todo' = [todo EXCEPT ![p] =
                       ApplyModifyField(name, o, c.table[name], seen) \o Tail(todo[p])]
                 /\ UNCHANGED pc
         /\ view' = [view EXCEPT ![p] = c]
         /\ lock' = [lock EXCEPT ![p] = IF @ = "none" THEN "shared" ELSE @]
  BY DEF Introspect
<1>2. UNCHANGED <<db, req, tx, stale, cancelled, result, calls>>
  BY DEF Introspect
<1>3. c \in Catalog /\ WellFormed(c)
  BY SeenTyped
<1>4. o \in AlterOp /\ Tail(todo[p]) \in Seq(Statement \cup AlterOp)
  BY <1>0, HeadTyped DEF OpKinds
<1>5. name \in Tables /\ name \in Names
  <2>1. req[p] \in Request
    BY <1>0, SchemaModifierAssumption DEF TypeInv
  <2> QED BY <2>1, RequestKinds, SchemaModifierAssumption
<1>6. CASE o.field \notin seen \/ ~Renderable(o.def)
  <2>1. /\ pc' = [pc EXCEPT ![p] = "failed"]
        /\ todo' = [todo EXCEPT ![p] = <<>>]
    BY <1>1, <1>6 DEF Fail
  <2> HIDE DEF o, name, c, all
  <2> QED BY <1>0, <1>1, <1>2, <1>3, <2>1, NothingToDo DEF TypeInv, TypeOK
<1>7. CASE ~(o.field \notin seen \/ ~Renderable(o.def))
  <2>1. HasTable(c, name) /\ seen \in SUBSET ColumnsOf(c.table[name])
    BY <1>7
  <2>2. c.table[name] \in Table
    BY <1>3, <1>5, <2>1 DEF Catalog, HasTable
  <2> HIDE DEF o, name, c, all
  <2>3. ApplyModifyField(name, o, c.table[name], seen) \in Seq(Statement \cup AlterOp)
    <3>1. ApplyModifyField(name, o, c.table[name], seen) \in Seq(Statement)
      BY <1>0, <1>4, <1>5, <1>7, <2>1, <2>2, ModifyTyped
    <3> QED BY <3>1
  <2>4. ApplyModifyField(name, o, c.table[name], seen) \o Tail(todo[p]) \in Seq(Statement \cup AlterOp)
    BY <1>4, <2>3
  <2> QED BY <1>1, <1>2, <1>3, <1>7, <2>4 DEF TypeInv, TypeOK
<1> QED BY <1>6, <1>7

\* Executing a statement keeps the types, and the view a schema.
LEMMA ExecuteTyped ==
    ASSUME TypeInv, NEW p \in Callers, Execute(p)
    PROVE  TypeInv'
<1> DEFINE s == Head(todo[p])
           a == Apply(s, Seen(p))
<1>1. /\ pc[p] = "run" /\ todo[p] # <<>> /\ s.kind \notin OpKinds
      /\ Legal(s, Seen(p))
      /\ view' = [view EXCEPT ![p] = a]
      /\ lock' = [lock EXCEPT ![p] = IF ~Noop(s, Seen(p)) THEN "reserved"
                                      ELSE IF @ = "none" THEN "shared" ELSE @]
      /\ todo' = [todo EXCEPT ![p] = Tail(@)]
      /\ UNCHANGED <<db, pc, req, tx, stale, cancelled, result, calls>>
  BY DEF Execute, IsStatement
<1>2. s \in Statement /\ Tail(todo[p]) \in Seq(Statement \cup AlterOp)
  BY <1>1, HeadTyped
<1>3. a \in Catalog /\ WellFormed(a)
  <2>1. Seen(p) \in Catalog /\ WellFormed(Seen(p))
    BY SeenTyped
  <2>2. CASE Noop(s, Seen(p))
    BY <2>1, <2>2 DEF Apply
  <2>3. CASE ~Noop(s, Seen(p))
    BY <1>1, <1>2, <2>1, <2>3, EffectiveTyped DEF Apply
  <2> QED BY <2>2, <2>3
<1> HIDE DEF s, a
<1> QED BY <1>1, <1>2, <1>3 DEF TypeInv, TypeOK

\* A statement that fails keeps the types.
LEMMA ExecuteFailsTyped ==
    ASSUME TypeInv, NEW p \in Callers, ExecuteFails(p)
    PROVE  TypeInv'
<1>1. /\ UNCHANGED <<db, req, tx, lock, stale, view, cancelled, result, calls>>
      /\ \/ todo' = [todo EXCEPT ![p] = Tail(@)] /\ UNCHANGED pc
         \/ Fail(p)
      /\ pc[p] = "run" /\ todo[p] # <<>>
  BY DEF ExecuteFails, IsStatement, txVars
<1>2. Tail(todo[p]) \in Seq(Statement \cup AlterOp)
  BY <1>1, HeadTyped
<1> QED BY <1>1, <1>2, NothingToDo DEF TypeInv, TypeOK, Fail

\* A commit publishes a schema.
LEMMA CommitTyped ==
    ASSUME TypeInv, NEW p \in Callers, Commit(p)
    PROVE  TypeInv'
<1>1. /\ db' = IF lock[p] = "reserved" THEN view[p] ELSE db
      /\ tx' = [tx EXCEPT ![p] = "none"]
      /\ lock' = [lock EXCEPT ![p] = "none"]
      /\ view' = [view EXCEPT ![p] = None]
      /\ stale' = Overtaken(p)
      /\ Finish(p, "ok")
      /\ UNCHANGED <<req, cancelled, calls>>
  BY DEF Commit
<1>2. stale' \in [Callers -> BOOLEAN]
  BY <1>1 DEF Overtaken, TypeInv, TypeOK
<1>3. db' \in Catalog /\ WellFormed(db')
  BY <1>1 DEF TypeInv, TypeOK
<1>4. WellFormed(db)'
  BY <1>3
<1> QED BY <1>1, <1>2, <1>3, <1>4, NothingToDo DEF TypeInv, TypeOK, Finish

\* Every step keeps the types.
LEMMA TypeStep ==
    ASSUME TypeInv, [Next]_vars
    PROVE  TypeInv'
<1>1. CASE UNCHANGED vars
  BY <1>1 DEF vars, TypeInv, TypeOK
<1>2. ASSUME NEW p \in Callers,
             Start(p) \/ CallerStep(p) \/ Cancel(p) \/ Watcher(p) \/ ConnCloses(p)
      PROVE  TypeInv'
  <2>1. CASE Begin(p)
    BY <2>1 DEF Begin, TypeInv, TypeOK
  <2>2. CASE BeginFails(p) \/ CommitCancelled(p)
    <3>1. Finish(p, "error") /\ UNCHANGED <<db, req, txVars, cancelled, calls>>
      BY <2>2 DEF BeginFails, CommitCancelled
    <3> QED BY <3>1, NothingToDo DEF Finish, txVars, TypeInv, TypeOK
  <2>3. CASE IntrospectFails(p)
    BY <2>3, NothingToDo DEF IntrospectFails, Fail, txVars, TypeInv, TypeOK
  <2>4. CASE CommitFails(p)
    <3>1. CASE Release(p)
      BY <2>4, <3>1, ReleaseTyped DEF CommitFails
    <3>2. CASE LeftOpen(p)
      BY <2>4, <3>2, NothingToDo DEF CommitFails, LeftOpen, Finish, TypeInv, TypeOK
    <3> QED BY <2>4, <3>1, <3>2 DEF CommitFails
  <2>5. CASE Rollback(p)
    <3>1. CASE Release(p)
      BY <2>5, <3>1, ReleaseTyped DEF Rollback
    <3>2. CASE UNCHANGED txVars
      BY <2>5, <3>2, NothingToDo DEF Rollback, Finish, txVars, TypeInv, TypeOK
    <3> QED BY <2>5, <3>1, <3>2 DEF Rollback
  <2>6. CASE Cancel(p)
    BY <2>6 DEF Cancel, txVars, TypeInv, TypeOK
  <2>7. CASE AutoRollback(p)
    BY <2>7 DEF AutoRollback, TypeInv, TypeOK
  <2>8. CASE AutoRollbackDone(p) \/ ConnCloses(p)
    BY <2>8, ReleaseTyped DEF AutoRollbackDone, ConnCloses
  <2> QED
    BY <1>2, <2>1, <2>2, <2>3, <2>4, <2>5, <2>6, <2>7, <2>8, StartTyped, DispatchTyped,
       IntrospectTyped, ExecuteTyped, ExecuteFailsTyped, CommitTyped DEF CallerStep, Watcher
<1> QED
  BY <1>1, <1>2 DEF Next

\* The types of the variables, and schemas wherever a catalog is seen.
LEMMA TypeInvariance == Spec => []TypeInv
<1>1. Init => TypeInv
  BY SchemaModifierAssumption DEF Init, TypeInv, TypeOK
<1>2. TypeInv /\ [Next]_vars => TypeInv'
  BY TypeStep
<1> QED
  BY <1>1, <1>2, PTL DEF Spec

\* TypeOK holds of concurrent DDL calls whatever they are asked for: every catalog
\* that is committed or seen by a transaction is a catalog, and what a call still
\* has to do is a statement or an operation.
THEOREM TypeCorrect == Spec => []TypeOK
<1>1. TypeInv => TypeOK
  BY DEF TypeInv
<1> QED
  BY <1>1, TypeInvariance, PTL
=============================================================================
