----------------------------- MODULE DDLEffects -----------------------------
(***************************************************************************)
(* What CreateCollection, DropCollection and AlterCollection mean: the     *)
(* catalog a request leaves of a catalog, None where it cannot succeed.    *)
(* Effects are stated on the catalog as a whole, without the statements    *)
(* that bring them about.                                                  *)
(***************************************************************************)
EXTENDS SchemaDescription

CONSTANT Scratch  \* the name ModifyField gives the table it builds, by table

-----------------------------------------------------------------------------
Marked(c, t, fs) ==
    IF fs = {} THEN c
    ELSE [c EXCEPT !.sidecar = TRUE, !.markers = @ \cup ({t} \X fs)]

IndexAdded(c, t, idx, ifNot) ==
    LET on == IF idx.on = None THEN t ELSE idx.on IN
    IF ifNot /\ c.index[idx.name] # None THEN c
    ELSE IF /\ c.index[idx.name] = None /\ idx.fields # {}
            /\ \A f \in idx.fields : HasColumn(c, on, f)
         THEN [c EXCEPT !.index[idx.name] = [on |-> on, fields |-> idx.fields]]
         ELSE None

\* What the first indexes of a list leave, by their number.
IndexesUpTo(c, t, idxs, ifNot) ==
    LET upTo[n \in 0..Len(idxs)] ==
          IF n = 0 THEN c
          ELSE IF upTo[n-1] = None THEN None
          ELSE IndexAdded(upTo[n-1], t, idxs[n], ifNot)
    IN upTo

\* The table, its indexes and the markers of its time columns appear together.
Created(r, c) ==
    LET new == TableFor(r.def)
        with == IF HasTable(c, r.name) THEN c ELSE [c EXCEPT !.table[r.name] = new]
        all == IndexesUpTo(with, r.name, r.def.indexes, r.ifNot)[Len(r.def.indexes)] IN
    IF (HasTable(c, r.name) /\ ~r.ifNot) \/ all = None THEN None
    ELSE Marked(all, r.name,
                {f \in FieldsOf(r.def) : r.def.fields[f].type = "Time"})

WithoutIndexesOn(c, t) ==
    [x \in IndexNames |-> IF c.index[x] # None /\ c.index[x].on = t THEN None ELSE c.index[x]]

\* The table, its indexes and all its markers disappear together.
Dropped(r, c) ==
    IF ~HasTable(c, r.name) /\ ~r.ifExists THEN None
    ELSE [c EXCEPT !.table[r.name] = None,
                   !.index = WithoutIndexesOn(c, r.name),
                   !.markers = IF c.sidecar THEN {m \in @ : m[1] # r.name} ELSE @]

FieldAdded(c, t, o) ==
    IF ~HasTable(c, t) \/ HasColumn(c, t, o.field) THEN None
    ELSE Marked([c EXCEPT !.table[t].cols[o.field] = ColumnDecl(o.def, FALSE, FALSE, FALSE)],
                t, IF o.def.type = "Time" THEN {o.field} ELSE {})

FieldDropped(c, t, o) ==
    IF \/ ~HasColumn(c, t, o.field)
       \/ o.field \in KeyOf(c.table[t])
       \/ ColumnsOf(c.table[t]) = {o.field}
       \/ \E x \in IndexesOn(c, t) : o.field \in c.index[x].fields
    THEN None
    ELSE [c EXCEPT !.table[t].cols[o.field] = None,
                   !.markers = IF c.sidecar THEN @ \ {<<t, o.field>>} ELSE @]

\* The marker follows the column, unless a left-over marker already holds the
\* new name: the two then both stay.
FieldRenamed(c, t, o) ==
    LET swap(f) == IF f = o.field THEN o.new ELSE f
        moves == c.sidecar /\ <<t, o.field>> \in c.markers /\ <<t, o.new>> \notin c.markers
    IN  IF ~HasColumn(c, t, o.field) \/ (o.new # o.field /\ HasColumn(c, t, o.new)) THEN None
        ELSE IF o.new = o.field THEN c
        ELSE [c EXCEPT
               !.table[t].cols = [@ EXCEPT ![o.new] = c.table[t].cols[o.field],
                                           ![o.field] = None],
               !.table[t].pk = [i \in DOMAIN @ |-> swap(@[i])],
               !.index = [x \in IndexNames |->
                            IF x \in IndexesOn(c, t)
                            THEN [c.index[x] EXCEPT !.fields = {swap(f) : f \in @}]
                            ELSE c.index[x]],
               !.markers = IF moves THEN (@ \ {<<t, o.field>>}) \cup {<<t, o.new>>} ELSE @]

\* One column is redefined; every other column, the primary key and the rows
\* stay, nullability and portable type included.  The secondary indexes, the
\* declared spelling of a type and AUTOINCREMENT do not survive; markers are
\* left alone.
FieldModified(c, t, o) ==
    LET tb == c.table[t]
        composite == Len(tb.pk) > 1
        inline == tb.pk = <<o.field>> /\ o.def.type = "Int" /\ o.def.autoInc
        portable(k) == SqliteTypeFor(IF k = "OTHER" THEN "String"
                                     ELSE DbschemaTypeFromSQLite(k))
        kept(f) == [tb.cols[f] EXCEPT
                      !.decl = portable(@),
                      !.autoinc = FALSE,
                      !.notnull = IF f \in KeyOf(tb) THEN TRUE ELSE @ /\ ~composite]
    IN  IF \/ ~HasColumn(c, t, o.field) \/ o.def.type = "Null" \/ HasTable(c, Scratch[t])
        THEN None
        ELSE [c EXCEPT
               !.table[t].cols = [f \in Columns |->
                   IF f = o.field
                   THEN ColumnDecl(o.def, inline, composite, f \in KeyOf(tb))
                   ELSE IF tb.cols[f] = None THEN None ELSE kept(f)],
               !.index = WithoutIndexesOn(c, t)]

IndexDropped(c, o) ==
    IF c.index[o.name] = None /\ ~o.ifExists THEN None
    ELSE [c EXCEPT !.index[o.name] = None]

OpEffect(c, t, o) ==
    CASE o.kind = "addField"    -> IF o.def.type = "Null" THEN None ELSE FieldAdded(c, t, o)
      [] o.kind = "dropField"   -> FieldDropped(c, t, o)
      [] o.kind = "renameField" -> FieldRenamed(c, t, o)
      [] o.kind = "modifyField" -> FieldModified(c, t, o)
      [] o.kind = "addIndex"    -> IF o.idx.fields = {} THEN None
                                   ELSE IndexAdded(c, t, o.idx, o.ifNot)
      [] o.kind = "dropIndexOp" -> IndexDropped(c, o)

\* What the first operations of an alteration leave, by their number.
OpsUpTo(c, t, ops) ==
    LET upTo[n \in 0..Len(ops)] ==
          IF n = 0 THEN c
          ELSE IF upTo[n-1] = None THEN None
          ELSE OpEffect(upTo[n-1], t, ops[n])
    IN upTo

Effect(r, c) ==
    CASE r.op = "create" -> IF CreateTableFails(r.def) THEN None ELSE Created(r, c)
      [] r.op = "drop"   -> Dropped(r, c)
      [] r.op = "alter"  -> OpsUpTo(c, r.name, r.ops)[Len(r.ops)]

\* Markers left over of a collection that does not exist need not be cleaned by
\* dropping it: another writer keeps the clean-up from running.
LeftAlone(r, c) == r.op = "drop" /\ r.ifExists /\ ~HasTable(c, r.name)

\* The catalogs a request that succeeds may leave of c.
Outcomes(r, c) == ({Effect(r, c)} \ {None}) \cup {d \in {c} : LeftAlone(r, c)}

=============================================================================
