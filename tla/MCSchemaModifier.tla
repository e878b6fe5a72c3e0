-------------------------- MODULE MCSchemaModifier --------------------------
(***************************************************************************)
(* SchemaModifier over one collection "t" (and its scratch name "t_new"),  *)
(* columns "a", "b" and "c", and one index "ix": the properties the runs   *)
(* check, and the requests and initial files they are checked on.          *)
(***************************************************************************)
EXTENDS SchemaModifier, TLC

-----------------------------------------------------------------------------
(* Properties.                                                             *)

\* A lock on the file does not outlive its call: every error before the commit
\* rolls the transaction back, and database/sql that of a cancelled call.  The
\* exception is the transaction a refused commit leaves on its connection
\* (ErrorsRollBack): no step of the code ends that one.
LocksReleased == \A p \in Callers : lock[p] # "none" ~> lock[p] = "none" \/ tx[p] = "left"

\* Every call returns.
CallsReturn == \A p \in Callers : pc[p] # "idle" ~> pc[p] = "idle"

-----------------------------------------------------------------------------
(* The claims of the repository's documents that the code does not keep.   *)

\* The specification requires AlterCollection to support ModifyField(n, newDef),
\* and schema_modifier.go says of it that "the AUTOINCREMENT clause survives": the
\* field is described by its new definition, every other field as before.
ModifyIsExact ==
    [][\A p \in Callers :
        LET r == req[p] IN
        Committed(p) /\ r.op = "alter" /\ Len(r.ops) = 1 /\ r.ops[1].kind = "modifyField" =>
          DescribeFields(db', r.name) =
            [DescribeFields(db, r.name) EXCEPT ![r.ops[1].field] = r.ops[1].def]]_vars

-----------------------------------------------------------------------------
(* Instances.                                                              *)

Empty == [table |-> [n \in Names |-> None], index |-> [x \in IndexNames |-> None],
          sidecar |-> FALSE, markers |-> {}]

NoFields == [f \in Columns |-> None]
Field(t, nullable) == [type |-> t, nullable |-> nullable, autoInc |-> FALSE]
Key(t) == Field(t, FALSE)
Auto(t) == [type |-> t, nullable |-> FALSE, autoInc |-> TRUE]
Def(a, b, pk, idx) == [fields |-> ("a" :> a @@ "b" :> b @@ "c" :> None),
                       pk |-> pk, indexes |-> idx]
Ix(fs) == [name |-> "ix", on |-> None, fields |-> fs]

Create(def, ifNot) == [op |-> "create", name |-> "t", def |-> def, ifNot |-> ifNot]
Drop(ifExists) == [op |-> "drop", name |-> "t", ifExists |-> ifExists]
Alter(ops) == [op |-> "alter", name |-> "t", ops |-> ops]

Add(f, t) == [kind |-> "addField", field |-> f, def |-> Field(t, TRUE)]
Modify(f, def) == [kind |-> "modifyField", field |-> f, def |-> def]
DropF(f) == [kind |-> "dropField", field |-> f]
Rename(f, g) == [kind |-> "renameField", field |-> f, new |-> g]
AddIx(fs, ifNot) == [kind |-> "addIndex", idx |-> Ix(fs), ifNot |-> ifNot]
DropIx(ifExists) == [kind |-> "dropIndexOp", name |-> "ix", ifExists |-> ifExists]

\* A file made outside the driver: an integer key, a DATETIME and an
\* unrecognised column, an index and a row.
Col(k, notnull, want) == [decl |-> k, notnull |-> notnull, autoinc |-> FALSE, want |-> want]
Foreign ==
    [Empty EXCEPT
      !.table["t"] = [cols |-> ("a" :> Col("INTEGER", FALSE, "Int")
                             @@ "b" :> Col("DATETIME", TRUE, "Time")
                             @@ "c" :> Col("OTHER", FALSE, "Null")),
                      pk |-> <<"a">>, rows |-> {"r"}],
      !.index["ix"] = [on |-> "t", fields |-> {"b"}]]

\* The same file with a collection that has the scratch name of "t".
Taken == [Foreign EXCEPT !.table["t_new"] = Foreign.table["t"]]

\* A file whose rows sit under a composite key.
Composite ==
    [Empty EXCEPT
      !.table["t"] = [cols |-> ("a" :> Col("INTEGER", TRUE, "Int")
                             @@ "b" :> Col("TEXT", TRUE, "String")
                             @@ "c" :> Col("REAL", TRUE, "Float")),
                      pk |-> <<"b", "a">>, rows |-> {"r"}]]

\* A file whose collection "t" was dropped by a program that knows no markers.
Orphan == [Empty EXCEPT !.sidecar = TRUE, !.markers = {<<"t", "b">>}]

\* A file whose column "b" was dropped by such a program.
Leftover ==
    [Empty EXCEPT
      !.table["t"] = [cols |-> ("a" :> Col("INTEGER", TRUE, "Int") @@ "b" :> None @@ "c" :> None),
                      pk |-> <<"a">>, rows |-> {"r"}],
      !.index["ix"] = [on |-> "t", fields |-> {"a"}],
      !.sidecar = TRUE, !.markers = {<<"t", "b">>}]

OnEmpty == {Empty}
OnFiles == {Empty, Foreign, Taken, Composite, Orphan, Leftover}
OnRows == {Foreign, Composite}

ScratchNames == [t \in {"t"} |-> "t_new"]

\* Every operation at least once, with operations that fail half way.
MixedRequests ==
    { Create(Def(Key("Int"), Field("Time", TRUE), <<"a">>, <<Ix({"b"})>>), FALSE),
      Create(Def(Key("String"), None, <<"a">>, <<Ix({"a"}), Ix({"a"})>>), FALSE),
      Create(Def(Key("String"), Field("Time", TRUE), <<>>, <<Ix({"a"})>>), TRUE),
      Create(Def(Key("Null"), None, <<"a">>, <<>>), FALSE),
      Create(Def(Key("Int"), None, <<"a">>, <<Ix({})>>), FALSE),
      Drop(FALSE), Drop(TRUE),
      Alter(<<Add("c", "Time"), Rename("c", "b"), DropIx(FALSE)>>),
      Alter(<<AddIx({"b"}, TRUE), Modify("b", Key("Decimal"))>>),
      Alter(<<Add("c", "Int"), Modify("a", Auto("Int")), DropF("c"), AddIx({"a"}, FALSE)>>),
      Alter(<<DropIx(TRUE), DropF("b"), Rename("a", "c")>>),
      Alter(<<Rename("a", "b"), Add("c", "Null")>>),
      Alter(<<DropF("c"), AddIx({}, FALSE)>>) }

\* Creations, drops, renames and re-creations under changing types: no
\* ModifyField of a time column and no IF NOT EXISTS over another definition.
MarkerRequests ==
    { Create(Def(Key("Int"), Field("Time", TRUE), <<"a">>, <<>>), FALSE),
      Create(Def(Key("Time"), Field("Bytes", TRUE), <<"a">>, <<Ix({"b"})>>), FALSE),
      Create(Def(Auto("Int"), Key("String"), <<"a">>, <<>>), FALSE),
      Create([Def(Key("Int"), Key("Time"), <<"b", "a">>, <<>>)
                EXCEPT !.fields["c"] = Key("Bool")], FALSE),
      Drop(FALSE), Drop(TRUE),
      Alter(<<DropF("b"), Add("b", "String")>>),
      Alter(<<Add("c", "Time")>>),
      Alter(<<DropF("c")>>),
      Alter(<<Add("c", "Float"), Modify("c", Field("Decimal", TRUE))>>),
      Alter(<<Rename("b", "c"), Rename("a", "b")>>),
      Alter(<<Rename("a", "c")>>) }

\* Alterations of a file with rows: calls that read first, write first and only
\* read.
AlterRequests ==
    { Alter(<<Modify("b", Field("String", TRUE)), DropF("c"), Modify("a", Auto("Int"))>>),
      Alter(<<DropIx(TRUE), DropF("b"), Modify("c", Field("Bytes", TRUE))>>),
      Create(Def(Key("Int"), None, <<"a">>, <<>>), TRUE) }

ModifyRequests ==
    { Create(Def(Auto("Int"), Field("String", TRUE), <<"a">>, <<>>), FALSE),
      Alter(<<Modify("b", Field("Time", TRUE))>>),
      Drop(FALSE) }

=============================================================================
