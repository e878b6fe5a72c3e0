--------------------------- MODULE SqliteCatalog ---------------------------
(***************************************************************************)
(* The part of an SQLite file that schema statements read and write: the   *)
(* tables with their columns and rows, the secondary indexes, and the      *)
(* contents of the sidecar table _dalgo_time_columns.  Everything here is  *)
(* SQLite's behaviour as the statements issued by schema_modifier.go rely  *)
(* on it; none of it is code of the repository.                            *)
(*                                                                         *)
(* The order of columns, default expressions, foreign keys and the         *)
(* uniqueness of indexes are left out.  "want" is a history field of a     *)
(* column, never read by a statement: the dbschema type its owner asked    *)
(* for last, against which the description of the column is compared.      *)
(***************************************************************************)
EXTENDS TypeMapping, Naturals, Sequences

CONSTANTS
    Names,       \* table names
    Columns,     \* column names
    IndexNames,  \* index names
    Rows,        \* row identities
    None         \* the absence of a table, a column or an index

Column == [decl : Keywords, notnull : BOOLEAN, autoinc : BOOLEAN, want : Types]

Table == [cols : [Columns -> Column \cup {None}],
          pk   : Seq(Columns),
          rows : SUBSET Rows]

Index == [on : Names, fields : SUBSET Columns]

Catalog == [table   : [Names -> Table \cup {None}],
            index   : [IndexNames -> Index \cup {None}],
            sidecar : BOOLEAN,
            markers : SUBSET (Names \X Columns)]

ASSUME NoneAssumption ==
    None \notin Column /\ None \notin Table /\ None \notin Index /\ None \notin Catalog

HasTable(c, t) == c.table[t] # None
ColumnsOf(tb) == {f \in Columns : tb.cols[f] # None}
KeyOf(tb) == {tb.pk[i] : i \in DOMAIN tb.pk}
HasColumn(c, t, f) == HasTable(c, t) /\ f \in ColumnsOf(c.table[t])
IndexesOn(c, t) == {x \in IndexNames : c.index[x] # None /\ c.index[x].on = t}

\* What SQLite keeps true of a schema: indexes are on tables, keys of columns.
WellFormed(c) ==
    /\ \A x \in IndexNames : c.index[x] # None => HasTable(c, c.index[x].on)
    /\ \A t \in Names : HasTable(c, t) => KeyOf(c.table[t]) \subseteq ColumnsOf(c.table[t])

-----------------------------------------------------------------------------
(* Statements.  The last four touch the sidecar table; those that issue    *)
(* them ignore the errors of "unmarkTable", "unmark" and "remark".          *)

BestEffortKinds == {"unmarkTable", "unmark", "remark"}

Statement ==
         [kind : {"createTable"}, name : Names, body : Table, ifNot : BOOLEAN]
    \cup [kind : {"createIndex"}, name : IndexNames, on : Names,
          fields : SUBSET Columns, ifNot : BOOLEAN]
    \cup [kind : {"dropTable"}, name : Names, ifExists : BOOLEAN]
    \cup [kind : {"dropIndex"}, name : IndexNames, ifExists : BOOLEAN]
    \cup [kind : {"addColumn"}, name : Names, col : Columns, body : Column]
    \cup [kind : {"dropColumn"}, name : Names, col : Columns]
    \cup [kind : {"renameColumn"}, name : Names, col : Columns, new : Columns]
    \cup [kind : {"copyRows"}, name : Names, from : Names, cols : SUBSET Columns]
    \cup [kind : {"renameTable"}, name : Names, new : Names]
    \cup [kind : {"sidecar"}]
    \cup [kind : {"mark"}, name : Names, cols : SUBSET Columns]
    \cup [kind : {"unmarkTable"}, name : Names]
    \cup [kind : {"unmark"}, name : Names, col : Columns]
    \cup [kind : {"remark"}, name : Names, col : Columns, new : Columns]

\* An IF [NOT] EXISTS clause that turns the statement into a read of the schema.
Noop(s, c) ==
    \/ s.kind = "createTable" /\ s.ifNot /\ HasTable(c, s.name)
    \/ s.kind = "createIndex" /\ s.ifNot /\ c.index[s.name] # None
    \/ s.kind = "dropTable" /\ s.ifExists /\ ~HasTable(c, s.name)
    \/ s.kind = "dropIndex" /\ s.ifExists /\ c.index[s.name] = None
    \/ s.kind = "sidecar" /\ c.sidecar

\* The statement runs without error on c.
Legal(s, c) ==
    \/ Noop(s, c)
    \/ s.kind = "createTable" /\ ~HasTable(c, s.name)
         /\ ColumnsOf(s.body) # {} /\ KeyOf(s.body) \subseteq ColumnsOf(s.body)
    \/ s.kind = "createIndex" /\ c.index[s.name] = None
         /\ HasTable(c, s.on) /\ s.fields \subseteq ColumnsOf(c.table[s.on])
    \/ s.kind = "dropTable" /\ HasTable(c, s.name)
    \/ s.kind = "dropIndex" /\ c.index[s.name] # None
    \/ s.kind = "addColumn" /\ HasTable(c, s.name) /\ ~HasColumn(c, s.name, s.col)
    \/ s.kind = "dropColumn" /\ HasColumn(c, s.name, s.col)
         /\ s.col \notin KeyOf(c.table[s.name])
         /\ ColumnsOf(c.table[s.name]) # {s.col}
         /\ \A x \in IndexesOn(c, s.name) : s.col \notin c.index[x].fields
    \/ s.kind = "renameColumn" /\ HasColumn(c, s.name, s.col)
         /\ (s.new = s.col \/ ~HasColumn(c, s.name, s.new))
    \/ s.kind = "copyRows" /\ HasTable(c, s.name) /\ HasTable(c, s.from)
         /\ s.cols # {} /\ s.cols \subseteq ColumnsOf(c.table[s.from])
         /\ s.cols \subseteq ColumnsOf(c.table[s.name])
    \/ s.kind = "renameTable" /\ HasTable(c, s.name) /\ ~HasTable(c, s.new)
    \/ s.kind = "sidecar"
    \/ s.kind \in {"mark", "unmarkTable", "unmark"} /\ c.sidecar
    \/ s.kind = "remark" /\ c.sidecar
         /\ (<<s.name, s.col>> \in c.markers /\ s.new # s.col
               => <<s.name, s.new>> \notin c.markers)

RenamedColumn(tb, old, new) ==
    [tb EXCEPT !.cols = [f \in Columns |-> IF f = new THEN tb.cols[old]
                                           ELSE IF f = old THEN None
                                           ELSE tb.cols[f]],
               !.pk = [i \in DOMAIN tb.pk |-> IF tb.pk[i] = old THEN new ELSE tb.pk[i]]]

\* What a legal statement that has something to do leaves; indexes follow their
\* table.
Effective(s, c) ==
    CASE s.kind = "createTable" -> [c EXCEPT !.table[s.name] = s.body]
      [] s.kind = "createIndex" ->
            [c EXCEPT !.index[s.name] = [on |-> s.on, fields |-> s.fields]]
      [] s.kind = "dropTable"   ->
            [c EXCEPT !.table[s.name] = None,
                      !.index = [x \in IndexNames |->
                                   IF x \in IndexesOn(c, s.name) THEN None ELSE c.index[x]]]
      [] s.kind = "dropIndex"   -> [c EXCEPT !.index[s.name] = None]
      [] s.kind = "addColumn"   -> [c EXCEPT !.table[s.name].cols[s.col] = s.body]
      [] s.kind = "dropColumn"  -> [c EXCEPT !.table[s.name].cols[s.col] = None]
      [] s.kind = "renameColumn" ->
            [c EXCEPT !.table[s.name] = RenamedColumn(c.table[s.name], s.col, s.new),
                      !.index = [x \in IndexNames |->
                           IF x \in IndexesOn(c, s.name) /\ s.col \in c.index[x].fields
                           THEN [c.index[x] EXCEPT !.fields = (@ \ {s.col}) \cup {s.new}]
                           ELSE c.index[x]]]
      [] s.kind = "copyRows"    ->
            [c EXCEPT !.table[s.name].rows = @ \cup c.table[s.from].rows]
      [] s.kind = "renameTable" ->
            [c EXCEPT !.table = [n \in Names |-> IF n = s.new THEN c.table[s.name]
                                                 ELSE IF n = s.name THEN None
                                                 ELSE c.table[n]],
                      !.index = [x \in IndexNames |->
                           IF x \in IndexesOn(c, s.name)
                           THEN [c.index[x] EXCEPT !.on = s.new] ELSE c.index[x]]]
      [] s.kind = "sidecar"     -> [c EXCEPT !.sidecar = TRUE]
      [] s.kind = "mark"        -> [c EXCEPT !.markers = @ \cup ({s.name} \X s.cols)]
      [] s.kind = "unmarkTable" -> [c EXCEPT !.markers = {m \in @ : m[1] # s.name}]
      [] s.kind = "unmark"      -> [c EXCEPT !.markers = @ \ {<<s.name, s.col>>}]
      [] s.kind = "remark"      ->
            [c EXCEPT !.markers = IF <<s.name, s.col>> \in @
                                  THEN (@ \ {<<s.name, s.col>>}) \cup {<<s.name, s.new>>}
                                  ELSE @]

Apply(s, c) == IF Noop(s, c) THEN c ELSE Effective(s, c)

=============================================================================
