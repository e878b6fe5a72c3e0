--------------------------- MODULE CatalogQueries ---------------------------
(***************************************************************************)
(* The schema reads as sequences of queries: which queries each operation  *)
(* of schema_reader.go, schema_source.go, schema_constraints.go,           *)
(* schema_foreign_keys.go and source_rows.go sends one after the other,    *)
(* what SQLite answers on a catalog, which further queries an answer asks  *)
(* for, which answers the operation refuses, and what it reports.          *)
(*                                                                         *)
(* A query is [in, kind, of]: the operation that sends it, what it asks,   *)
(* and the object, index or key it asks about.  What is left to ask is a   *)
(* sequence of sets: the queries of a set are those of one loop (over      *)
(* indexes, keys, tables), whose order tells nothing apart.  The answers   *)
(* an operation has so far are a function from its queries to their rows.  *)
(*                                                                         *)
(* Names of columns and indexes are compared exactly, names of tables      *)
(* exactly (WHERE name=?) or folded as SQLite folds them.  Precisions,     *)
(* default expressions, index flags, ON UPDATE and ON DELETE actions and   *)
(* the text of statements are left out.                                    *)
(***************************************************************************)
EXTENDS TypeMapping, Naturals, FiniteSets, SequencesExt

CONSTANTS
    Names,    \* names of tables and views
    Fold,     \* foldASCII, from names to names
    Empty,    \* the empty name
    Nil       \* no column (an expression of an index), no row

ASSUME FoldAssumption == Fold \in [Names -> Names]

\* No row is not a row of sqlite_master.
ASSUME NilAssumption == \A b \in BOOLEAN : Nil # [rowid |-> b]

-----------------------------------------------------------------------------
(* A catalog: the tables and views by name, whether the sidecar table of   *)
(* time markers exists, and the columns it marks.  What SQLite answers for *)
(* an unknown name is the answer for an object of kind "none".             *)

NoObject == [kind |-> "none", cols |-> <<>>, hidden |-> {}, autoinc |-> FALSE,
             rowid |-> TRUE, indexes |-> <<>>, keys |-> <<>>]

\* The table pragmas and foreign keys find an object in any letter case.
ObjectAt(c, n) ==
    LET same == {m \in DOMAIN c.objects : Fold[m] = Fold[n]}
    IN IF same = {} THEN NoObject ELSE c.objects[CHOOSE m \in same : TRUE]

\* A comparison with sqlite_master.name does not.
Exactly(c, n) == IF n \in DOMAIN c.objects THEN c.objects[n] ELSE NoObject

OfKind(c, k) == {n \in DOMAIN c.objects : c.objects[n].kind = k}

\* The terms of an index, Nil for an expression.
TermsAt(c, x) ==
    LET on == {n \in DOMAIN c.objects : \E i \in DOMAIN c.objects[n].indexes :
                                           c.objects[n].indexes[i].name = x}
    IN IF on = {} THEN <<>>
       ELSE LET all == c.objects[CHOOSE n \in on : TRUE].indexes
            IN all[CHOOSE i \in DOMAIN all : all[i].name = x].terms

\* What SQLite keeps true of a table or view: columns have names of their own and
\* types, AUTOINCREMENT is of an INTEGER key, an index has terms, and indexes and
\* keys are of columns of the table.
SoundObject(o) ==
    LET names == {o.cols[i].name : i \in DOMAIN o.cols} IN
    /\ o.cols \in Seq(ToSet(o.cols)) /\ o.indexes \in Seq(ToSet(o.indexes)) /\ o.keys \in Seq(ToSet(o.keys))
    /\ \A i, j \in DOMAIN o.cols : o.cols[i].name = o.cols[j].name => i = j
    /\ \A col \in ToSet(o.cols) :
         /\ col.decl \in Keywords /\ col.pk \in Nat /\ col.notnull \in BOOLEAN
         /\ col.name \notin o.hidden
         /\ o.autoinc /\ col.pk = 1 => col.decl = "INTEGER"
    /\ o.rowid \in BOOLEAN /\ o.autoinc \in BOOLEAN
    /\ \A x \in ToSet(o.indexes) :
         /\ x = [name |-> x.name, origin |-> x.origin, terms |-> x.terms] /\ x.terms # <<>>
         /\ ToSet(x.terms) \subseteq names \cup o.hidden \cup {Nil}
    /\ \A k \in ToSet(o.keys) : ToSet(k.from) \subseteq names \cup o.hidden

\* No two objects have one name, in any letter case, and no two indexes.
SoundCatalog(c) ==
    /\ \A m, n \in DOMAIN c.objects : Fold[m] = Fold[n] => m = n
    /\ \A n \in DOMAIN c.objects :
         /\ c.objects[n].kind \in {"table", "view"} /\ c.objects[n].cols # <<>>
         /\ SoundObject(c.objects[n])
    /\ \A m, n \in DOMAIN c.objects : \A i \in DOMAIN c.objects[m].indexes, j \in DOMAIN c.objects[n].indexes :
         c.objects[m].indexes[i].name = c.objects[n].indexes[j].name => m = n /\ i = j
    /\ c.sidecar \in BOOLEAN
    /\ \A x \in c.markers : x = <<x[1], x[2]>>

Listed(o) == [i \in DOMAIN o.indexes |-> [name |-> o.indexes[i].name,
                                          origin |-> o.indexes[i].origin]]

NamesOf(cols) == {cols[i].name : i \in DOMAIN cols}

PrimaryKeyOf(cols) ==
    LET key == {i \in DOMAIN cols : cols[i].pk > 0}
    IN [k \in 1..Cardinality(key) |-> cols[CHOOSE i \in key : cols[i].pk = k].name]

\* The rows of an object can be selected by these columns and put in order: by
\* the key or, in a table alone, by the rowid.
Selectable(o, cols) ==
    /\ NamesOf(cols) \subseteq NamesOf(o.cols)
    /\ PrimaryKeyOf(cols) # <<>> \/ o.kind = "table"

\* The rows of query q on catalog c.
RowsOf(q, c) ==
    CASE q.kind = "tables"       -> OfKind(c, "table")
      [] q.kind = "views"        -> OfKind(c, "view")
      [] q.kind = "unnamed"      -> {n \in DOMAIN c.objects : n = Empty}
      [] q.kind = "probeTable"   -> Exactly(c, q.of).kind = "table"
      [] q.kind = "probeAny"     -> Exactly(c, q.of).kind # "none"
      [] q.kind = "sidecar"      -> c.sidecar
      [] q.kind = "markers"      -> IF c.sidecar THEN {m[2] : m \in {x \in c.markers : x[1] = q.of}}
                                    ELSE {}
      [] q.kind \in {"tableInfo", "sourceColumns", "viewColumns"} -> ObjectAt(c, q.of).cols
      [] q.kind = "rowColumns"   -> ObjectAt(c, q.of).cols
      [] q.kind = "sourceRows"   -> Selectable(ObjectAt(c, q.of[1]), q.of[2])
      [] q.kind = "autoInc"      -> Exactly(c, q.of).autoinc
      [] q.kind \in {"indexList", "sourceIndexes"} -> Listed(ObjectAt(c, q.of))
      [] q.kind \in {"indexInfo", "indexTerms"} -> TermsAt(c, q.of)
      [] q.kind \in {"fkState", "indexSQL", "conn", "connClose"} -> TRUE
      [] q.kind = "fkList"       -> ObjectAt(c, q.of).keys
      [] q.kind = "spellings"    -> OfKind(c, "table")
      [] q.kind = "targetPK"     -> PrimaryKeyOf(ObjectAt(c, q.of[2]).cols)
      [] q.kind = "hidden"       -> ObjectAt(c, q.of).hidden
      [] q.kind = "sourceSQL"    -> IF Exactly(c, q.of).kind = "none" THEN Nil
                                    ELSE [rowid |-> Exactly(c, q.of).rowid]
      [] q.kind = "pkProbe"      -> PrimaryKeyOf(ObjectAt(c, q.of).cols) # <<>>
      [] q.kind = "fkIds"        -> Len(ObjectAt(c, q.of).keys)
      [] q.kind = "uniques"      -> {x.name : x \in {y \in ToSet(Listed(ObjectAt(c, q.of))) :
                                                        y.origin = "u"}}
      [] q.kind = "referrer"     -> {i \in DOMAIN ObjectAt(c, q.of[1]).keys :
                                       Fold[ObjectAt(c, q.of[1]).keys[i].target] = Fold[q.of[2]]}

-----------------------------------------------------------------------------
(* The operations.                                                         *)

Operations ==
    {"DescribeCollection", "ListIndexes", "ListConstraints", "ListCollections",
     "ListReferrers", "ListViews", "ListSourceViews", "UnnamedObjects", "OpenSourceRows"}

Ask(op, kind, of) == [in |-> op, kind |-> kind, of |-> of]

\* One query after the other about the same object.
AskAll(op, kinds, of) == [i \in DOMAIN kinds |-> {Ask(op, kinds[i], of)}]

\* describeCollection: the probe, the time markers, the columns, the indexes,
\* the foreign keys on a connection of their own, the source definition.
DescribeKinds(lenient) ==
    IF lenient
    THEN <<"probeAny", "sidecar", "tableInfo", "indexList", "conn", "fkState", "fkList",
           "connClose", "sourceSQL", "sourceColumns", "sourceIndexes">>
    ELSE <<"probeTable", "sidecar", "tableInfo", "indexList", "conn", "fkState", "fkList",
           "connClose", "hidden", "sourceSQL", "sourceColumns", "sourceIndexes">>

DescribeQueries(n, lenient) == AskAll("DescribeCollection", DescribeKinds(lenient), n)

\* The queries an operation is certain to send.
Program(r) ==
    CASE r.op = "DescribeCollection" -> DescribeQueries(r.name, r.lenient)
      [] r.op = "ListIndexes"     -> AskAll(r.op, <<"indexList">>, r.name)
                                     \o (IF r.lenient THEN DescribeQueries(r.name, TRUE) ELSE <<>>)
      [] r.op = "ListConstraints" -> AskAll(r.op, <<"pkProbe", "fkIds", "uniques">>, r.name)
      [] r.op \in {"ListCollections", "ListReferrers"} -> AskAll(r.op, <<"tables">>, r.name)
      [] r.op \in {"ListViews", "ListSourceViews"} -> AskAll(r.op, <<"views">>, r.name)
      [] r.op = "UnnamedObjects"  -> AskAll(r.op, <<"unnamed">>, r.name)
      [] r.op = "OpenSourceRows"  -> IF r.name = Empty THEN <<>>
                                     ELSE AskAll(r.op, <<"hidden", "rowColumns">>, r.name)

\* The answers of DescribeCollection to its query of this kind.
About(A, kind, n) == A[Ask("DescribeCollection", kind, n)]

Marked(A, n) ==
    IF About(A, "sidecar", n) THEN About(A, "markers", n) ELSE {}

TypeOfColumn(col, marked) ==
    IF col.name \in marked THEN "Time" ELSE DbschemaTypeFromSQLite(col.decl)

\* The positions of the columns that need the AUTOINCREMENT probe.
AutoIncFields(cols, marked) ==
    {i \in DOMAIN cols : cols[i].pk = 1 /\ TypeOfColumn(cols[i], marked) = "Int"}

\* The further queries the rows of q ask for, sent next.
Following(q, rows, A) ==
    CASE q.kind = "sidecar" /\ rows -> {Ask(q.in, "markers", q.of)}
      [] q.kind = "tableInfo" /\ AutoIncFields(rows, Marked(A, q.of)) # {} ->
            {Ask(q.in, "autoInc", q.of)}
      [] q.kind = "indexList" ->
            {Ask(q.in, "indexInfo", x.name) : x \in {y \in ToSet(rows) : y.origin # "pk"}}
      [] q.kind = "fkList" /\ rows # <<>> -> {Ask(q.in, "spellings", q.of)}
      [] q.kind = "spellings" ->
            LET keys == About(A, "fkList", q.of)
            IN {Ask(q.in, "targetPK", <<i, keys[i].target>>) : i \in {k \in DOMAIN keys : keys[k].to = <<>>}}
      [] q.kind = "sourceIndexes" ->
            {Ask(q.in, k, x.name) : k \in {"indexSQL", "indexTerms"}, x \in ToSet(rows)}
      [] q.kind = "rowColumns" -> {Ask(q.in, "sourceRows", <<q.of, rows>>)}
      [] q.kind = "tables" /\ q.in = "ListReferrers" ->
            {Ask(q.in, "referrer", <<n, q.of>>) : n \in rows \ {q.of, Empty}}
      [] q.kind = "views" /\ q.in = "ListSourceViews" -> {Ask(q.in, "viewColumns", v) : v \in rows}
      [] OTHER -> {}

\* The rows of a table without a key are ordered by a rowid alias, if any of the
\* three is left by the columns of the table.
Unordered(cols) ==
    /\ PrimaryKeyOf(cols) = <<>>
    /\ {"_rowid_", "rowid", "oid"} \subseteq NamesOf(cols)

\* The answers an operation refuses with an error of its own: what is not found,
\* and what a lossless export cannot carry.
Refuses(q, rows, A, lenient) ==
    \/ q.kind \in {"probeTable", "probeAny"} /\ ~rows
    \/ q.kind \in {"tables", "views"} /\ q.in # "ListSourceViews" /\ ~lenient /\ Empty \in rows
    \/ q.kind = "tableInfo" /\ ~lenient
         /\ \E i \in DOMAIN rows : TypeOfColumn(rows[i], Marked(A, q.of)) = "Null"
    \/ q.kind = "hidden" /\ rows # {}
    \/ q.kind = "sourceSQL" /\ rows = Nil
    \/ q.kind = "rowColumns" /\ (rows = <<>> \/ Unordered(rows))
    \/ q.kind = "sourceRows" /\ ~rows

\* The queries whose failure an operation takes for an answer: any error of the
\* AUTOINCREMENT probe, and the end of the rows of the primary-key probe.
Swallows(q, atRows) == q.kind = "autoInc" \/ (q.kind = "pkProbe" /\ atRows)

-----------------------------------------------------------------------------
(* What the answers A amount to.                                           *)

\* Mutant: the source columns are not compared with the described ones.
SourceUnchecked(A, n) == FALSE

\* The last check of describeCollection: the columns read for the source
\* definition, one by one, against those read for the fields.
SourceDiffers(A, n) ==
    LET cols == About(A, "tableInfo", n)
        source == About(A, "sourceColumns", n)
    IN \E i \in DOMAIN source : i > Len(cols) \/ source[i].name # cols[i].name

\* Mutant: the index of a descending key is not looked for.
RowidAliasIndexed(A, n, i) ==
    LET source == About(A, "sourceColumns", n) IN
    /\ Len(PrimaryKeyOf(About(A, "tableInfo", n))) = 1
    /\ i \in DOMAIN source /\ source[i].pk = 1 /\ source[i].decl = "INTEGER"
    /\ About(A, "sourceSQL", n).rowid

\* A sole INTEGER PRIMARY KEY, as the source definition shows it, is an alias of
\* the rowid and never NULL.
RowidAlias(A, n, i) ==
    LET source == About(A, "sourceColumns", n) IN
    /\ Len(PrimaryKeyOf(About(A, "tableInfo", n))) = 1
    /\ i \in DOMAIN source /\ source[i].pk = 1 /\ source[i].decl = "INTEGER"
    /\ \A x \in ToSet(About(A, "sourceIndexes", n)) : x.origin # "pk"
    /\ About(A, "sourceSQL", n).rowid

Fields(A, n) ==
    LET cols == About(A, "tableInfo", n)
        marked == Marked(A, n)
    IN [i \in DOMAIN cols |->
          [name     |-> cols[i].name,
           type     |-> TypeOfColumn(cols[i], marked),
           nullable |-> ~cols[i].notnull /\ ~RowidAlias(A, n, i),
           autoInc  |-> i \in AutoIncFields(cols, marked) /\ About(A, "autoInc", n)]]

\* The positions of I, of a list of n rows, in the order of the list.
InOrder(I, n) ==
    LET upTo[i \in 0..n] == IF i = 0 THEN <<>>
                            ELSE IF i \in I THEN Append(upTo[i-1], i) ELSE upTo[i-1]
    IN upTo[n]

\* listIndexesImpl: indexes of expressions, and those of primary keys, are left
\* out; the lenient reader also leaves out those on columns it does not describe.
IndexesRead(A, op, n, lenient) ==
    LET list == A[Ask(op, "indexList", n)]
        described == NamesOf(Fields(A, n))
        terms(x) == A[Ask(op, "indexInfo", x.name)]
        kept == InOrder({i \in DOMAIN list :
                           /\ list[i].origin # "pk"
                           /\ terms(list[i]) # <<>> /\ Nil \notin ToSet(terms(list[i]))
                           /\ lenient => ToSet(terms(list[i])) \subseteq described}, Len(list))
    IN [k \in DOMAIN kept |-> [name |-> list[kept[k]].name, fields |-> terms(list[kept[k]])]]

\* The target of a key as the database spells it, and its fields.
ForeignKeys(A, n) ==
    LET keys == About(A, "fkList", n)
        spelled(t) == LET all == {m \in About(A, "spellings", n) : Fold[m] = Fold[t]}
                      IN IF all = {} THEN t ELSE CHOOSE m \in all : TRUE
    IN [i \in DOMAIN keys |->
          [target |-> spelled(keys[i].target), from |-> keys[i].from,
           to |-> IF keys[i].to # <<>> THEN keys[i].to
                  ELSE A[Ask("DescribeCollection", "targetPK", <<i, keys[i].target>>)]]]

Source(A, n) ==
    [cols    |-> About(A, "sourceColumns", n),
     indexes |-> LET list == About(A, "sourceIndexes", n) IN
                 [i \in DOMAIN list |->
                    [name |-> list[i].name, origin |-> list[i].origin,
                     terms |-> About(A, "indexTerms", list[i].name)]]]

\* What the operation r reports.
Report(r, A) ==
    CASE r.op = "DescribeCollection" ->
            [fields  |-> Fields(A, r.name),
             key     |-> PrimaryKeyOf(About(A, "tableInfo", r.name)),
             indexes |-> IndexesRead(A, r.op, r.name, r.lenient),
             keys    |-> ForeignKeys(A, r.name),
             source  |-> Source(A, r.name)]
      [] r.op = "ListIndexes" -> IndexesRead(A, r.op, r.name, r.lenient)
      [] r.op = "ListConstraints" ->
            [key     |-> A[Ask(r.op, "pkProbe", r.name)],
             keys    |-> A[Ask(r.op, "fkIds", r.name)],
             uniques |-> A[Ask(r.op, "uniques", r.name)]]
      [] r.op = "ListCollections" -> A[Ask(r.op, "tables", r.name)] \ {Empty}
      [] r.op = "ListViews" -> A[Ask(r.op, "views", r.name)] \ {Empty}
      [] r.op = "UnnamedObjects" -> Cardinality(A[Ask(r.op, "unnamed", r.name)])
      [] r.op = "ListReferrers" ->
            {n \in A[Ask(r.op, "tables", r.name)] \ {r.name, Empty} :
               A[Ask(r.op, "referrer", <<n, r.name>>)] # {}}
      [] r.op = "ListSourceViews" ->
            [v \in A[Ask(r.op, "views", r.name)] |-> A[Ask(r.op, "viewColumns", v)]]

=============================================================================
