------------------------------- MODULE SqlGen -------------------------------
(***************************************************************************)
(* The statement builders of sql_gen.go: what a CollectionDef, a FieldDef  *)
(* or an IndexDef turns into.  The text of a statement is abstracted to    *)
(* the record of SqliteCatalog it denotes.  A collection's fields are a    *)
(* function from column names to definitions, None where it has no field.  *)
(***************************************************************************)
EXTENDS SqliteCatalog

FieldDef == [type : Types, nullable : BOOLEAN, autoInc : BOOLEAN]

\* "on" is None where the caller leaves IndexDef.Collection empty.
IndexDef == [name : IndexNames, on : Names \cup {None}, fields : SUBSET Columns]

CollectionDef == [fields  : [Columns -> FieldDef \cup {None}],
                  pk      : Seq(Columns),
                  indexes : Seq(IndexDef)]

ASSUME NoFieldAssumption == None \notin FieldDef

FieldsOf(def) == {f \in Columns : def.fields[f] # None}

\* A column is rendered unless its type is Null.
Renderable(f) == f.type # "Null"

ColumnDecl(f, inlinePK, compositePK, inPK) ==
    [decl    |-> SqliteTypeFor(f.type),
     notnull |-> ~inlinePK /\ ~f.nullable /\ (~compositePK \/ inPK),
     autoinc |-> inlinePK /\ f.autoInc,
     want    |-> f.type]

FieldHasAutoIncIntPK(def, f) ==
    def.fields[f] # None /\ def.fields[f].type = "Int" /\ def.fields[f].autoInc

InlinePK(def) == Len(def.pk) = 1 /\ FieldHasAutoIncIntPK(def, def.pk[1])

\* The table a CREATE TABLE statement declares.
TableFor(def) ==
    [cols |-> [f \in Columns |->
                 IF def.fields[f] = None THEN None
                 ELSE ColumnDecl(def.fields[f],
                                 InlinePK(def) /\ f = def.pk[1],
                                 Len(def.pk) > 1,
                                 f \in {def.pk[i] : i \in DOMAIN def.pk})],
     pk   |-> def.pk,
     rows |-> {}]

CreateTableFails(def) == \E f \in FieldsOf(def) : ~Renderable(def.fields[f])

CreateTable(name, def, ifNot) ==
    [kind |-> "createTable", name |-> name, body |-> TableFor(def), ifNot |-> ifNot]

CreateIndexFails(idx) == idx.fields = {}

\* Mutant: an empty IndexDef.Collection is not replaced by the collection's name.
CreateIndexNowhere(idx, table, ifNot) ==
    [kind |-> "createIndex", name |-> idx.name, on |-> idx.on,
     fields |-> idx.fields, ifNot |-> ifNot]

CreateIndex(idx, table, ifNot) ==
    [kind |-> "createIndex", name |-> idx.name,
     on |-> IF idx.on = None THEN table ELSE idx.on,
     fields |-> idx.fields, ifNot |-> ifNot]

DropTable(name, ifExists) == [kind |-> "dropTable", name |-> name, ifExists |-> ifExists]

DropIndex(name, ifExists) == [kind |-> "dropIndex", name |-> name, ifExists |-> ifExists]

AddColumn(name, col, f) ==
    [kind |-> "addColumn", name |-> name, col |-> col,
     body |-> ColumnDecl(f, FALSE, FALSE, FALSE)]

DropColumn(name, col) == [kind |-> "dropColumn", name |-> name, col |-> col]

RenameColumn(name, old, new) ==
    [kind |-> "renameColumn", name |-> name, col |-> old, new |-> new]

=============================================================================
