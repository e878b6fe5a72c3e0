------------------------- MODULE SchemaDescription -------------------------
(***************************************************************************)
(* What describeCollection of schema_reader.go reports of a table when all *)
(* its queries see one catalog: a time marker wins over the declared type, *)
(* and the sole INTEGER PRIMARY KEY is never nullable.  Indexes, foreign   *)
(* keys and the source definition are left out.                            *)
(***************************************************************************)
EXTENDS SqlGen

\* The marked columns of a table: none while the sidecar table is absent.
ReadTimeMarkers(c, t) ==
    IF c.sidecar THEN {f \in Columns : <<t, f>> \in c.markers} ELSE {}

DescribedType(c, t, f) ==
    IF f \in ReadTimeMarkers(c, t) THEN "Time"
    ELSE DbschemaTypeFromSQLite(c.table[t].cols[f].decl)

TableHasAutoIncrement(tb) == \E f \in ColumnsOf(tb) : tb.cols[f].autoinc

\* A sole INTEGER PRIMARY KEY is a rowid alias.
RowidAlias(tb, f) == tb.pk = <<f>> /\ tb.cols[f].decl = "INTEGER"

DescribeField(c, t, f) ==
    LET tb == c.table[t] IN
    [type     |-> DescribedType(c, t, f),
     nullable |-> ~tb.cols[f].notnull /\ ~RowidAlias(tb, f),
     autoInc  |-> /\ DescribedType(c, t, f) = "Int"
                  /\ Len(tb.pk) > 0 /\ tb.pk[1] = f
                  /\ TableHasAutoIncrement(tb)]

\* The fields of table t, None where the table has no such column.
DescribeFields(c, t) ==
    [f \in Columns |-> IF HasColumn(c, t, f) THEN DescribeField(c, t, f) ELSE None]

=============================================================================
