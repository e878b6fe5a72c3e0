--------------------------- MODULE MCSchemaReader ---------------------------
(***************************************************************************)
(* SchemaReader over two tables and a view: the catalogs and requests the  *)
(* runs check it on.                                                       *)
(***************************************************************************)
EXTENDS SchemaReports

-----------------------------------------------------------------------------
(* Instances.                                                              *)

MCNames == {"users", "orgs", "ORGS", "recent", ""}
MCFold == [n \in MCNames |-> IF n = "ORGS" THEN "orgs" ELSE n]

Col(name, decl, notnull, pk) == [name |-> name, decl |-> decl, notnull |-> notnull, pk |-> pk]
Ix(name, origin, terms) == [name |-> name, origin |-> origin, terms |-> terms]
ToOrgs == [target |-> "ORGS", from |-> <<"org">>, to |-> <<>>]

\* A sole INTEGER AUTOINCREMENT key, a marked column, a foreign key that leaves
\* out its target's columns, an index, an index on an expression.
Users == [NoObject EXCEPT
    !.kind = "table", !.autoinc = TRUE, !.keys = <<ToOrgs>>,
    !.cols = <<Col("id", "INTEGER", FALSE, 1), Col("org", "INTEGER", TRUE, 0), Col("at", "TEXT", FALSE, 0)>>,
    !.indexes = <<Ix("ix_org", "c", <<"org">>), Ix("ix_low", "c", <<Nil>>)>>]

\* A composite key with an index of its own, a UNIQUE constraint, a key on itself.
Orgs == [NoObject EXCEPT
    !.kind = "table",
    !.cols = <<Col("id", "INTEGER", FALSE, 2), Col("name", "TEXT", FALSE, 1)>>,
    !.keys = <<[target |-> "orgs", from |-> <<"id">>, to |-> <<"id">>]>>,
    !.indexes = <<Ix("orgs_1", "pk", <<"name", "id">>), Ix("orgs_2", "u", <<"id">>)>>]

\* A composite key that starts with an INTEGER is no rowid alias either.
Composite == [NoObject EXCEPT
    !.kind = "table",
    !.cols = <<Col("id", "INTEGER", FALSE, 1), Col("at", "TEXT", FALSE, 2)>>,
    !.indexes = <<Ix("users_1", "pk", <<"id", "at">>)>>]

\* INTEGER PRIMARY KEY DESC is no rowid alias: it has an index.
Descending == [NoObject EXCEPT !.kind = "table", !.cols = <<Col("id", "INTEGER", FALSE, 1)>>,
                               !.indexes = <<Ix("users_1", "pk", <<"id">>)>>]

Recent == [NoObject EXCEPT !.kind = "view", !.cols = <<Col("at", "OTHER", FALSE, 0)>>]

File(objects) == [objects |-> objects, sidecar |-> TRUE, markers |-> {<<"users", "at">>}]

Base == File("users" :> Users @@ "orgs" :> Orgs @@ "recent" :> Recent)

With(n, o) == [Base EXCEPT !.objects = (n :> o) @@ @]

NoteAdded == [Users EXCEPT !.cols = Append(@, Col("note", "TEXT", FALSE, 0)),
                           !.indexes = Append(@, Ix("ix_note", "c", <<"note">>))]
AtDropped == [Users EXCEPT !.cols = SubSeq(@, 1, 2)]
OrgHidden == [Users EXCEPT !.hidden = {"gen"},
                           !.indexes = Append(@, Ix("ix_gen", "c", <<"gen">>))]
NoType == [Users EXCEPT !.cols = Append(@, Col("note", "OTHER", FALSE, 0))]
Shadowing == [NoObject EXCEPT !.kind = "table",
                  !.cols = <<Col("_rowid_", "TEXT", FALSE, 0), Col("rowid", "TEXT", FALSE, 0),
                             Col("oid", "TEXT", FALSE, 0)>>]
Renamed == [Users EXCEPT !.cols[2].name = "owner", !.keys = <<[ToOrgs EXCEPT !.from = <<"owner">>]>>,
                         !.indexes = <<Ix("ix_org", "c", <<"owner">>)>>]

Unnamed == [Descending EXCEPT !.indexes[1].name = "_1"]
NoRowid == [Descending EXCEPT !.indexes = <<>>, !.rowid = FALSE]
Also(c, n, o) == [c EXCEPT !.objects = (n :> o) @@ @]

\* Hidden columns, types no portable type has, unnamed tables and views, every
\* kind of key, a table that shadows the rowid, and no sidecar table; then what one
\* ALTER or DROP makes of the first.
AllCatalogs ==
    {Base, Also(With("users", OrgHidden), "", Recent),
     Also(Also(With("users", NoType), "", Unnamed), "orgs", Shadowing),
     Also(With("users", Descending), "orgs", NoRowid),
     [With("users", Composite) EXCEPT !.sidecar = FALSE, !.markers = {}]}
    \cup {With("users", NoteAdded), With("users", AtDropped), With("users", Renamed),
          File("orgs" :> Orgs @@ "recent" :> Recent)}

OneCatalog == {Base}

Request(ops, names, lenients) == [op : ops, name : names, lenient : lenients]

\* The operations on the whole file, and those on one object.
FileOps == {"ListCollections", "ListViews", "ListSourceViews", "UnnamedObjects"}

AllRequests ==
    Request(FileOps, {"users"}, BOOLEAN)
    \cup Request(Operations \ FileOps, {"users", "orgs", "recent"}, BOOLEAN)
    \cup Request({"OpenSourceRows"}, {""}, {FALSE})

\* A strict cursor, and a lenient read of several queries.
SharedRequests ==
    Request({"OpenSourceRows"}, {"users"}, {FALSE})
    \cup Request({"ListConstraints"}, {"users"}, {TRUE})

\* The two reads with a probe whose error is dropped.
ProbesOfUsers == Request({"ListConstraints", "DescribeCollection"}, {"users"}, {FALSE})

ASSUME IndexesStayAssumption == IndexesStay

AnyConn == Permutations(Conns)

=============================================================================
