---------------------------- MODULE TypeMapping ----------------------------
(***************************************************************************)
(* The two directions of the type translation of type_mapping.go.  A       *)
(* declared SQLite type is represented by the keyword that decides how it  *)
(* is read back ("OTHER" is any text no branch of the reader recognises);  *)
(* lengths, precisions, letter case and white space are left out.          *)
(***************************************************************************)

Types == {"Null", "Bool", "Int", "Float", "String", "Bytes", "Time", "Decimal"}

Keywords == {"INTEGER", "REAL", "TEXT", "BLOB", "NUMERIC", "DATETIME",
             "BOOLEAN", "OTHER"}

\* Every type but Null can be the type of a column.
Creatable == Types \ {"Null"}

\* The keyword the DDL emits for a column of a type.
SqliteTypeFor(t) ==
    CASE t \in {"Bool", "Int"}    -> "INTEGER"
      [] t = "Float"              -> "REAL"
      [] t \in {"String", "Time"} -> "TEXT"
      [] t = "Bytes"              -> "BLOB"
      [] t = "Decimal"            -> "NUMERIC"

\* The type a declared keyword is read back as; "Null" stands for
\* "unrecognised", the third result of the function being false.
DbschemaTypeFromSQLite(k) ==
    CASE k = "DATETIME" -> "Time"
      [] k = "BOOLEAN"  -> "Bool"
      [] k = "INTEGER"  -> "Int"
      [] k = "TEXT"     -> "String"
      [] k = "BLOB"     -> "Bytes"
      [] k = "REAL"     -> "Float"
      [] k = "NUMERIC"  -> "Decimal"
      [] k = "OTHER"    -> "Null"

=============================================================================
