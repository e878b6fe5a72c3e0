-------------------------- MODULE MCSqliteDatabase --------------------------
(***************************************************************************)
(* SqliteDatabase over the catalogs and requests of MCSchemaReader.        *)
(***************************************************************************)
EXTENDS SqliteDatabase, MCSchemaReader

=============================================================================
