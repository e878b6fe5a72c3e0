--------------------------- MODULE SchemaReports ---------------------------
(***************************************************************************)
(* What the schema reads report, said of the catalogs they read: exactly   *)
(* what the catalog holds while it does not change, and nothing that       *)
(* contradicts itself when it changes once in the middle.                  *)
(***************************************************************************)
EXTENDS SchemaReader

-----------------------------------------------------------------------------
(* What the operations promise, said of a catalog.                         *)

IsMarked(c, n, col) == c.sidecar /\ <<n, col.name>> \in c.markers

Unsupported(c, n, o) ==
    \/ o.hidden # {}
    \/ \E i \in DOMAIN o.cols : o.cols[i].decl = "OTHER" /\ ~IsMarked(c, n, o.cols[i])

\* The operation has nothing it may report of catalog c.
MustRefuse(q, c) ==
    LET o == Exactly(c, q.name) IN
    CASE q.op = "DescribeCollection" /\ q.lenient -> o.kind = "none"
      [] q.op = "DescribeCollection" /\ ~q.lenient -> o.kind # "table" \/ Unsupported(c, q.name, o)
      [] q.op = "ListIndexes"        -> q.lenient /\ o.kind = "none"
      [] q.op \in {"ListCollections", "ListReferrers"} ->
            ~q.lenient /\ Exactly(c, Empty).kind = "table"
      [] q.op = "ListViews"          -> ~q.lenient /\ Exactly(c, Empty).kind = "view"
      [] q.op = "OpenSourceRows" ->
            LET t == ObjectAt(c, q.name) IN
            \/ q.name = Empty \/ t.kind = "none" \/ t.hidden # {}
            \/ /\ \A i \in DOMAIN t.cols : t.cols[i].pk = 0
               /\ t.kind = "view" \/ {"_rowid_", "rowid", "oid"} \subseteq NamesOf(t.cols)
      [] OTHER -> FALSE

\* SQLite makes the column an alias of the rowid.
IsRowid(o, col) ==
    /\ col.pk = 1 /\ col.decl = "INTEGER" /\ o.rowid
    /\ \A k \in ToSet(o.cols) : k # col => k.pk = 0
    /\ \A x \in ToSet(o.indexes) : x.origin # "pk"

ExpectedField(c, n, o, col) ==
    LET time == IsMarked(c, n, col) IN
    [name |-> col.name,
     type |-> IF time THEN "Time" ELSE DbschemaTypeFromSQLite(col.decl),
     nullable |-> ~(col.notnull \/ IsRowid(o, col)),
     autoInc |-> o.autoinc /\ col.pk = 1 /\ ~time]

\* The indexes of columns alone; a lenient reader names no hidden column.
ExpectedIndexes(o, lenient) ==
    LET kept == InOrder({i \in DOMAIN o.indexes :
                   /\ o.indexes[i].origin # "pk" /\ Nil \notin ToSet(o.indexes[i].terms)
                   /\ ~lenient \/ ToSet(o.indexes[i].terms) \cap o.hidden = {}}, Len(o.indexes))
    IN [k \in DOMAIN kept |-> [name |-> o.indexes[kept[k]].name, fields |-> o.indexes[kept[k]].terms]]

ExpectedKey(c, k) ==
    LET target == ObjectAt(c, k.target)
        at == {m \in OfKind(c, "table") : Fold[m] = Fold[k.target]}
    IN [from |-> k.from,
        target |-> IF at = {} THEN k.target ELSE CHOOSE m \in at : TRUE,
        to |-> IF k.to = <<>> THEN PrimaryKeyOf(target.cols) ELSE k.to]

Expected(q, c) ==
    LET o == ObjectAt(c, q.name) IN
    CASE q.op = "DescribeCollection" ->
            [fields  |-> [i \in DOMAIN o.cols |-> ExpectedField(c, q.name, o, o.cols[i])],
             key     |-> PrimaryKeyOf(o.cols),
             indexes |-> ExpectedIndexes(o, q.lenient),
             keys    |-> [i \in DOMAIN o.keys |-> ExpectedKey(c, o.keys[i])],
             source  |-> [cols |-> o.cols, indexes |-> o.indexes]]
      [] q.op = "ListIndexes" -> ExpectedIndexes(o, q.lenient)
      [] q.op = "ListConstraints" ->
            [key     |-> \E i \in DOMAIN o.cols : o.cols[i].pk > 0,
             keys    |-> Len(o.keys),
             uniques |-> {x.name : x \in {y \in ToSet(o.indexes) : y.origin = "u"}}]
      [] q.op = "ListCollections" -> OfKind(c, "table") \ {Empty}
      [] q.op = "ListViews" -> OfKind(c, "view") \ {Empty}
      [] q.op = "UnnamedObjects" -> IF Empty \in DOMAIN c.objects THEN 1 ELSE 0
      [] q.op = "ListReferrers" ->
            {n \in OfKind(c, "table") \ {q.name, Empty} :
               \E k \in ToSet(c.objects[n].keys) : Fold[k.target] = Fold[q.name]}
      [] q.op = "ListSourceViews" ->
            [v \in OfKind(c, "view") |-> c.objects[v].cols]

\* While no DDL commits and no query fails, a read reports exactly what the
\* catalog holds, and refuses exactly what it may not report: the many queries of
\* describeCollection, their nesting and the lenient filters lose, add and mix
\* nothing (schema_reader.go:122, schema_source.go:17).
QuietReadIsExact ==
    \A r \in Readers :
        rpc[r] = "done" /\ call[r].since = 0 /\ call[r].hit = {}
        => /\ (call[r].outcome = "error") = MustRefuse(call[r].req, call[r].from)
           /\ call[r].outcome = "ok" =>
                Report(call[r].req, call[r].got) = Expected(call[r].req, call[r].from)

-----------------------------------------------------------------------------
(* What they promise when the catalog changes.                             *)

Described(r) ==
    /\ rpc[r] = "done" /\ call[r].outcome = "ok"
    /\ call[r].req.op = "DescribeCollection"

\* No commit gives the name of an index to another table while the table that had
\* it stays: a commit of SchemaModifier is about one table.
IndexesStay ==
    \A a, b \in Catalogs :
        \A n \in DOMAIN a.objects \cap DOMAIN b.objects, m \in DOMAIN b.objects :
            \A i \in DOMAIN a.objects[n].indexes, j \in DOMAIN b.objects[m].indexes :
                a.objects[n].indexes[i].name = b.objects[m].indexes[j].name => m = n

\* A strict description of a table without hidden columns names, in its indexes
\* and foreign keys, only the fields it describes, even when one DDL commits in
\* the middle of it: the last check of describeCollection catches the rest.
OneCommitIsCoherent ==
    \A r \in Readers :
        /\ Described(r) /\ ~call[r].req.lenient /\ call[r].since <= 1
        /\ ObjectAt(call[r].from, call[r].req.name).hidden = {}
        => LET d == Report(call[r].req, call[r].got)
               names == {f.name : f \in ToSet(d.fields)}
           IN /\ \A x \in ToSet(d.indexes) : ToSet(x.fields) \subseteq names
              /\ \A k \in ToSet(d.keys) : ToSet(k.from) \subseteq names

=============================================================================
