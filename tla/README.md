# dalgo2sqlite: verification development

dalgo2sqlite is a DALgo adapter for SQLite written in Go. This directory holds
TLA+ models of its parts: the DDL side (`schema_modifier.go` and what it uses),
the schema reads, row cursors and constraint checks that share a pool of
connections (`schema_reader.go`, `source_rows.go`, `source_constraints.go`,
`database.go`), and the pinned table read (`table_read.go`,
`table_read_session.go`); the TLC configurations that check them, and proofs
checked by TLAPS. `PROJECT.json` maps every definition to the source lines it
models and lists the runs, mutants, findings, hazards and theorems.

    tlc -workers 2 -config MCAtomicDDL.cfg MCSchemaModifier
    tlc -workers 2 -config MCSqliteDatabase.cfg MCSqliteDatabase
    tlapm SqliteDatabaseProofs.tla

## 1. Inventory

| component | state | operations | modelled |
|---|---|---|---|
| DDL: schema modifier (`schema_modifier.go`) | the database file: tables, indexes, `_dalgo_time_columns`; a transaction per call | `CreateCollection`, `DropCollection`, `AlterCollection` with its six operations, `inTx` | yes |
| Type mapping, SQL generation (`type_mapping.go`, `sql_gen.go`) | none | both directions of the type mapping, the statement builders | yes |
| Time markers (`type_mapping.go`, `schema_modifier.go`) | the sidecar table | ensure, write, drop, rename, read | yes |
| Schema reader (`schema_reader.go`, `schema_source.go`, `schema_constraints.go`, `schema_foreign_keys.go`) | none of its own; up to a dozen kinds of query per call | `ListCollections`, `DescribeCollection`, `ListIndexes`, `ListConstraints`, `ListReferrers`, `ListViews`, `ListSourceViews`, `UnnamedObjects` | yes |
| Borrowed reader (`schema_reader_borrowed.go`) | a pool the caller owns | five delegating methods | yes |
| Pinned table read: span (`table_read.go`) | private pool, connection, read transaction, limits, lifetime context, `closed` | `OpenTableRead`, `Facts`, `Session`, `Close` | yes |
| Pinned table read: session, readers (`table_read_session.go`) | per call: linked context, `AfterFunc`, native rows, `closed` of the reader | `Exists`, `Get`, `GetMulti`, queries, `Next`, `Cursor`, `Close` | yes |
| Source rows (`source_rows.go`) | a connection held until `Close`, the end or an error | `OpenSourceRows`, `Next`, `Close` | yes |
| Source constraint check (`source_constraints.go`) | a PRAGMA of a pooled connection | `CheckSourceConstraints` | yes |
| Database (`database.go`, `database_dal.go`) | the `sql.DB` pool, shared with the copy `LenientSchema` returns | open, `LenientSchema`, `Close`; delegation of record operations to dalgo2sql | all but the delegation |
| Duplicate-key classifier (`sqlite_classifier.go`) | none | one predicate | no |
| Tests, end-to-end, code graph | - | - | no, not part of the driver |

How they interact. Every component calls SQLite through `database/sql`.
The DDL calls share one database file with each other and with every other
process: SQLite's file locks are the only thing they meet on. The schema
modifier writes the declared keywords and time markers from which the schema
reader works out portable types, so the two are related through the file alone.
The schema reads, cursors and constraint checks of one `Database`, of its lenient
copy and of borrowed readers meet on the connections of one `sql.DB`: each query
waits for a free one, and a setting left on one is found by whoever gets it next.
A pinned read opens a pool, a connection and a transaction of its own; the
calls of its session share that transaction, the `closed` flag and a lifetime
context with the span, and the goroutine `database/sql` starts with each
transaction is a further actor in both halves.

What is hard here, and what is correct:

* **DDL.** A call is many statements, each of which may fail, be refused a lock
  or find its context cancelled; some errors are ignored on purpose.
  Correct: all or nothing among other calls, and no lock left. One error, that of
  the commit, is returned without a roll back (section 6).
* **ModifyField** rebuilds a table from what an introspection inside the
  transaction read, amid other operations of the same call. Correct: the other
  columns and the rows survive.
* **Time markers** live in another table than the columns they describe.
  Correct: through any sequence of calls they follow their column.
* **A schema read** is a nest of loops of queries outside a transaction, some on
  a connection of their own. Correct: its answer joins them as the catalog has
  them, or it fails; it never waits for a connection while it holds one; every
  error path gives everything back; no fault is taken for the end of the rows.
* **A cursor** outlives the call that opened it. Correct: the end of the rows is
  told from a fault; once closed or at its end it holds nothing.
* **The constraint check** changes a setting of a connection others use after it.
  Correct: the setting comes back on every path, before the connection does; nil
  means that what it claims to have checked was checked.
* **The database** hands its pool to copies. Correct: a failed open leaves no pool,
  one `Close` closes all, calls in flight end and give their connections back.
* **Opening a span** acquires three resources with a failure or a cancellation
  possible after each. Correct: an error leaves nothing, a success is limited.
* **Closing a span** races other closers, reads, and the roll back of
  `database/sql`. Correct: one complete clean-up in order, and it ends.
* **A read** checks liveness by loads of two contexts and two flags one after
  the other, before and after a native call. Correct: no stale value, nothing
  leaked, the native reader closed exactly once, an abandoned reader harmless.

The `hazards` of `PROJECT.json` list these at their lines, with the properties
that cover them or the reason why none does yet.

## 2. Modules

| module | models | state and actions |
|---|---|---|
| `TypeMapping` | `sqliteTypeFor`, `dbschemaTypeFromSQLite` | operators on type keywords |
| `SqliteCatalog` (external) | the catalog of a file and the effect of each statement, as the code relies on them | `Legal`, `Noop`, `Apply` |
| `SqlGen` | the builders of `sql_gen.go` | operators from requests to statements |
| `SchemaDescription` | what `DescribeCollection` says of the fields, from one catalog; used by the DDL properties | operators |
| `DDLEffects` | what each request means: the catalog it leaves of a catalog, `None` where it cannot succeed | operators |
| `SchemaModifier` | the three DDL calls by concurrent `Callers` | see below |
| `AtomicDDL` | what a DDL call promises, whatever its `Outcomes` | abstract specification |
| `MCSchemaModifier` | instances of the DDL side, claims of the documents, liveness | - |
| `SchemaModifierProofs`, `AtomicDDLProofs` | theorems | - |
| `ConnPool` (external) | the connections of `sql.DB`: free, in use, closed | `Take`, `GiveBack` |
| `CatalogQueries` | what each query of a read asks, what its rows make the read ask next, refuse, and report | operators on catalogs and answers |
| `SchemaReader` | the eight reads and the first half of `OpenSourceRows`, extending both | see below |
| `SchemaReports` | what a read must report of a catalog, and what holds of a description when the catalog changes | operators, properties |
| `MCSchemaReader` | catalogs and requests for the runs | - |
| `SourceRows` | the cursor, extending `SchemaReader` | see below |
| `SourceConstraints` | `CheckSourceConstraints`, extending `ConnPool` | see below |
| `SqliteDatabase` | the handles on a pool, and all calls over it, composing the two | see below |
| `MCSqliteDatabase` | instance of the composition | - |
| `SchemaReaderProofs`, `SourceRowsProofs`, `SourceConstraintsProofs`, `SqliteDatabaseProofs` | theorems | - |
| `TableReadSpan` | the span | see below |
| `TableReadSession` | the session and its readers, extending `TableReadSpan` | see below |
| `TableReadSpanProofs`, `TableReadSessionProofs` | theorems | - |

`SchemaModifier`. `Start` is the entry of a call: SQL that cannot be built is
refused before a transaction begins, otherwise `todo` holds the call's
statements (`CreateCollection`, `DropCollection`) or operations
(`AlterCollection`). `Begin`/`BeginFails` are `BeginTx`. `Dispatch` builds the
statements of the next operation, `Introspect`/`IntrospectFails` is
`readCollectionDefViaTx` and the migration it leads to, `Execute`/`ExecuteFails`
one `ExecContext` each. `ExecuteFails` goes on to the next statement after the
clean-ups whose error the code assigns to `_`, and to `Rollback` after any
other. `Commit`, `CommitFails` and `CommitCancelled` are the three outcomes of
`Tx.Commit`. `AutoRollback` and `AutoRollbackDone` are the goroutine of
`database/sql` that rolls a cancelled transaction back, possibly after the call
has returned. `view` is what the transaction sees; `lock` and `stale` are
SQLite's: a shared lock at the first read, the single reserved lock at the
first write, and in WAL mode a snapshot that another commit overtook and that
cannot be written on. A statement that changes nothing (`IF NOT EXISTS` on a
name that exists) takes no reserved lock. With a rollback journal a commit is
refused (`MayCommit`) while another connection reads, `inTx` returns that error
without a roll back, and SQLite keeps the transaction: `tx` is `left`, the
connection goes back to the pool with the lock (`LeftOpen`). From then on nobody
else begins to read (`MayRead`), a call that is given the connection cannot
begin (`BeginFails`), and only the pool closing the connection (`ConnCloses`)
ends it.

`AtomicDDL` has no statements, transactions or locks: a call that returns nil changed
the catalog at one instant, its return, to one of its `Outcomes`, which
`SchemaModifier` gives from `DDLEffects`. Two details of the code show in it.
A transaction that only read (`IF NOT EXISTS` on a name that exists) commits without
a lock, in WAL mode possibly after other commits: it is `moot`, there was nothing
for it to change at some instant of the call. And `DROP TABLE IF EXISTS` of a missing
table is followed by the clean-up of markers under its name, which another writer
may keep from running without an error: then both leaving and removing them is
an outcome (`LeftAlone`).

`SqliteCatalog` is not this repository's code. It says of SQLite what the
statements of `sql_gen.go` and `schema_modifier.go` need: which are errors
(a name already or not there, an index on a missing column, dropping a column
that is keyed, indexed or the last one, a marker that already exists), and what
the others do. Each column carries `want`, the portable type it was requested
with, which SQLite does not know; only properties read it.

`SchemaReader`. A call is a queue `todo` of sets of queries: the queries of one set
are those of one loop and are sent one after the other; `got` holds the answers
so far. `Begin` opens a query (on the call's own connection, if
`readForeignKeys` holds one, otherwise on a free one of the pool) and takes the
catalog's answer of that moment; `Drain` reads its rows to their end, closes
them and queues what they make the code ask next (`Following`); `Refuse` is
an error of the operation's own, `Fault` and `Interrupt` one of SQLite or of a
context or pool that is over, both through `Leave`, the deferred `Close`s.
`HoldConn` and `FreeConn` are the `db.Conn` of `readForeignKeys` and its
`Close`. `Finish` composes the answer (`Report`) and does the last comparison
of `describeCollection`. The two probes whose error the code does not look
at (`Swallows`) go on as if the answer were no. `Commit` lets DDL of another
connection change the catalog between any two steps.

`SourceRows`. `OpenSourceRows` returns with its last query's rows open. `NextRow`
yields a row or a conversion error, `NextEOF` and `NextFails` are the two ways
`rows.Next` returns false, `CloseCursor` is `Close`, `NextClosed` a `Next` after
it, for which the rows have ended without an error: it says `io.EOF`, whatever
was left. `RowsOver` is the goroutine of `database/sql` that closes rows whose
context is over. `ended` is what closed the rows, `said` what `Next` last
said of their end.

`SourceConstraints`. `kpc` is the next step of the check; from `found`, `closeRows`,
`restore` and `closeConn` on are the deferred calls in their order. Each
statement has a failing action, and one that sets the setting may have taken
effect although it failed. The restore runs under a context of its own, so that
cancellation does not stop it.

`SqliteDatabase`. `Open`, `Ping`, `PingFailed` are `NewDatabaseWithOptions`;
`LenientSchema`, `NewSchemaReader` and `Close` make and end handles; `CallerOpens`
and `CallerCloses` are the owner of a borrowed pool. `CallOn` starts a read or a
cursor with the strictness of its handle, `CheckOn` a check; `shut` and `late`
record which reads began after a `Close`.

`TableReadSpan`. `opc` is the next step of `openTableRead`; every step has a
failing disjunct that leaves through the deferred `Close`. `cpc[t]` is where
goroutine `t` is in `Close`: the swap of the flag, the cancellation, `Rollback`,
`Conn.Close`, `DB.Close`. `tx` records who ended the transaction. `WatcherClaim`
and `WatcherRolled` are the goroutine of `database/sql`. `Facts` and `Session`
load the context and the flag in the order the code does, as separate steps;
`Facts` looks at its caller's own context first.

`TableReadSession` adds per user the call of the session: `EnterFlag`,
`EnterCtx` and `Link` are `callContext`; `CheckContexts`, `CheckFlags` and
`Deliver` are `liveError` before and after the native call, one load group per
step; `Abort` and `AbortClose` the error paths; `ReaderNext` to `ReaderDone`
the reader, whose `Close` may be entered by the user and by another goroutine
(`ReaderSwap`, `ReaderRelease`, `ReaderCloseNative`). `Fire` is the `AfterFunc`
in its own goroutine, `RowsOver` the goroutine of `database/sql` behind rows.

## 3. Runs

| run | shows | bounds |
|---|---|---|
| `MCAtomicDDL` | `AtomicSpec`: `SchemaModifier` implements `AtomicDDL`; `TypeOK` | two callers, two calls, 13 requests, six files, WAL, begin/statement/commit faults |
| `MCWriters` | `AlterKeepsTheRest`, `LocksReleased`, `CallsReturn` | two callers, three calls, three requests, two files with rows, rollback journal, statement, best-effort and commit faults |
| `MCTimeMarkers` | `DescribedAsDeclared`, `CreateRoundTrips` | one caller, six calls out of eleven, no faults |
| `MCTableReadSpan` | eight properties of the span | opener, two closers, one asker, two reads, `MaxBytes` 26, `MaxColumns` 4 |
| `MCTableReadSession` | eight properties of the composition | one user with both ends of its reader, opener, one closer, `MaxBytes` 8, `MaxColumns` 1 |
| `MCSchemaReads` | `QuietReadIsExact`, `OneConnectionEach`, `ReturnedHoldsNothing`, `OtherFaultsAreReported`, `OneCommitIsCoherent` | one read (any operation, strict or lenient, three names), nine catalogs, one commit, one fault, two connections |
| `MCSqliteDatabase` | nine properties of pool, handles, cursor and check | one connection, one read or cursor, one check, both settings, two kinds of violation, one fault of each |
| `MCModifyField`, `MCCommitBusy`, `MCReadError`, `MCSidecarError`, `MCKeyProbe` | the findings of section 6 | one caller, at most two calls (`MCCommitBusy`: two callers); one read, one fault |

Why the bounds are enough to meet the interesting cases:

* `MaxCalls` = 2 with two callers gives every interleaving of two concurrent
  calls and every pair of successive ones; a third caller meets the same locks.
  With a rollback journal it takes three (`MCWriters`): one that reads, one
  whose commit is refused for it, and one that meets what the refused commit left.
  `MCTimeMarkers` needs longer histories of one caller: a marker left by the
  first call (create) shows after a drop or rename and a re-creation, three or
  four calls later, and six leave room for a second round.
* `Requests` are chosen so that each operation occurs, alone and amid others,
  with requests that fail when built, at each statement and at the last one.
  `InitCatalogs` adds files the driver did not make: undeclared and unrecognised
  types, a taken scratch name, a composite key, rows, no marker table, markers
  left over of a table or a column that another program dropped (the UPDATE of a
  renamed column's marker fails on such a one).
* `Names` = {`t`, `t_new`}, three columns and one index: renames, collisions
  with the scratch name and with another column need no more.
* `Faults` names where SQLite may fail for reasons of its own (I/O, a full disk).
  Locks, illegal statements and cancellation are always there. Two fault kinds
  are left out of the passing runs because the code does not survive them:
  `read` and, for `AtomicSpec`, `bestEffort` are the findings `MCReadError` and
  `MCSidecarError`. `commit` is a commit that fails for another reason than a reader;
  SQLite may then have ended the transaction or not, and both are in `MCWriters`.
* `MaxBytes` = 26 with `MaxColumns` = 4 makes the division exact and inexact
  and, at four columns, too small for `MinCellBytes`; the theorem
  `ReadsAreBounded` covers every value.
* One user in `MCTableReadSession`: the calls of a session share nothing but the
  span, the transaction and the span's context, which `MCTableReadSpan` checks
  with two users. `SpanSafety` shows that a user behaves as `TableReadSpan`
  lets it.

* One read in `MCSchemaReads` meets another only through the pool: reads change
  nothing another sees. Two connections are needed to see a read hold two of
  them; on a pool of one, that read would wait for itself. One commit and one
  fault at any step of any read reach every query of every operation, before and
  after. The nine catalogs hold each shape the code tells apart once (hidden
  columns, unrecognised types, unnamed objects, every kind of key and index, a
  key that leaves out its target's columns and spells it otherwise, columns that
  shadow the rowid, no sidecar table), and what one `ALTER` or `DROP` makes of
  the first. Two commits are too many for `OneCommitIsCoherent`: the second can
  undo what the first did between the two queries the code compares.
* One connection in `MCSqliteDatabase` makes every call wait for every other: a
  connection kept by an error path, or a cursor left open, shows as a call that
  never returns. `Settings` and `Violations` are exhaustive in their combinations;
  more connections and checks are covered by the theorems of section 4.

`CHECK_DEADLOCK FALSE` is set in every run: `MaxCalls` bounds the DDL calls, and
a span, a read, a cursor and a check have an end after which nothing happens. That
nothing stops before is what the liveness properties say.

The assumptions on the constants (section 4) are evaluated by TLC on the instances
of these runs; `MCSchemaReader` also evaluates `IndexesStay` on its nine catalogs.

Every property of a passing run has a mutant in the modules (marked `Mutant`), a
plausible slip in the code that TLC finds to violate it.

### Fairness

Weak fairness on the steps of a call that has begun (a goroutine is scheduled),
on the goroutine `database/sql` starts with a transaction, on a `Close` that
has begun, and, in `TableReadSpan`, on a read giving the transaction back.
On the pool, fair are the steps of a read, a check and `NewDatabase` that have
begun, and the goroutine that closes the rows of a cancelled cursor; nobody has
to open, read a cursor on, close or cancel anything, or to ask `Next` again after
its `Close`, and no query has to fail.
Waiting for a connection is fair only in the weak sense: the properties ask that a
call returns or that cursors hold all connections.
The span's reads giving back is an assumption there and a consequence in `TableReadSession`, where
only the goroutine behind rows (`RowsOver`) and the `AfterFunc` (`Fire`) are
fair: the host need not iterate, close a reader, close the span or cancel
anything. No strong fairness is used.

## 4. What is proved

`TableReadSpanProofs` assumes `TableReadSpanAssumption` (the opener is not one
of the closers, `MaxBytes` and `MaxColumns` are positive) and nothing of the
number of goroutines. `SpanInv` is inductive. It joins to `TypeOK`

* `LifeInv`: who is in `Close` and when (only the winner of the swap is between
  the swap and its end, the opener only while failing); what is held at each
  step of opening; at each stage of the clean-up, what has been released;
* `LimitsSet`: the limits each step of opening has established;
* `AskersSeeIt`: an asker whose call began on an invalid span has passed no
  check it could not pass.

It is needed because none of the properties is inductive: that a failed open
holds nothing depends on the whole of the clean-up having run, which depends
on the flag having been swapped by the opener alone. From `SpanInv` follow
`SpanTypeCorrect`, `FailedOpenIsClean`, `OneCleanupInOrder` (with the order),
`ReadsAreBounded` (through the lemma `CellBudget` on integer division) and
`InvalidSpanIsSilent`.

`TableReadSessionProofs` proves, for any number of reads, closers and askers, that
the composition implements the span (`SessionImplementsSpan`, so the five theorems
above hold of it) and the safety properties of the reads: `NothingStaleDelivered`,
`ContextsReleased`, `NativeReaderClosedOnce` and `SessionTypeCorrect`. `SessionInv`
joins to `SpanInv`, for each user, what its call holds by where it stands
(`CallHolds`: the transaction, native rows, a linked context), where the two ends
of its reader are (`ReaderInv`: the main end closes only while its user waits, one
end at most is between its swap and the native close), how many native closes that
makes (`ClosesCounted`) and what the late checks have still to find (`Checked`:
a read that was invalid is still so at the check of the contexts, and after that
only a flag can have made it so). A user's step touches that user alone
(`FrameKeeps`); a step of the span touches none, and what the users know of the
span only becomes more so (`SpanStepKeeps`).

`SchemaModifierProofs` proves `OnlyRefusedCommitsStay`: under WAL and without `commit`
faults, for any set of callers, any requests and initial files, every error path
of `inTx` ends its transaction (`ErrorsRollBack`, which `MCCommitBusy` finds violated
where a commit can be refused). `TxInv` says where a call may have a transaction:
an idle caller whose context is alive has none, and none is ever left. The module also
has `LockInv`, what the external SQLite guarantees of snapshots and locks as the
model states it; it is no property of this code and serves as a lemma below. What
makes it inductive is that a statement that changes nothing leaves the view equal to
the committed catalog (`NoopApply`). `TypeCorrect` says that every catalog committed or seen is
one SQLite could hold: `TypeInv` adds to `TypeOK` that it is `WellFormed`
(indexes are on tables, keys of columns), without which a legal statement could
leave its type.

`AtomicDDLProofs` proves `CallsAreAtomic`, that `SchemaModifier` implements
`AtomicDDL`, for the same parameters and for both journal modes. It has two halves.

* Sequential: the statements of a request or of an operation, executed to the end,
  have the effect `DDLEffects` gives it (`CreateEffect`, `DropEffect`,
  `ApplyOpEffect`; `ModifyFieldEffect` for the migration through the scratch
  table). `After` folds statements over a catalog; facts about it and
  about lists of indexes and operations are inductions over their length, done
  with `SetInduction` from the order of the natural numbers.
* Concurrent: `PendingInv` says of each running transaction that the statements and
  operations it has still to execute lead from what it sees to the effect of its
  request on the catalog it builds on: any catalog before its first read, what it read while it holds a
  shared lock, what is committed once it writes. `LockInv` joins the last two at
  the first write. A clean-up whose error is ignored comes right after a write
  of the same transaction, so it can only fail where a fault makes it fail or where
  nothing was to be cleaned. `SettleStep`, `CommitOutcome` and `RefinementStep`
  map each step to one of `AtomicDDL`.

`CallsAreAtomic` excludes the two kinds of faults that are findings
(`MCSidecarError`, `MCReadError`), and nothing else. With ignored clean-ups that
fail, `PendingInv` still holds up to markers (`Like`): `SchemaAtomicDespiteCleanUps`
says that tables, columns, rows and indexes are all or nothing even then. `AlterKeeps`
follows with the same faults from the effects of the operations (`OpEffectKeeps`).

`MarkersFollow` and `CreationsRoundTrip` are about the time markers. The invariant is
`Coherent(db)`: the markers are exactly those of the time columns, every column
carries the declaration of the type it was requested with, and where there is
no sidecar table there are no markers. `DescribedAsDeclared` alone is not inductive: a
marker left behind is harmless until a column takes its name. Each effect keeps
`Coherent` (`EffectCoherent`), and by `CommitOutcome` only effects are committed. The
theorems assume `MarkersTracked`: files the driver made; no `IF NOT EXISTS` creation and no
ModifyField of or to a time column, which do break the markers (section 6);
no fault the code does not report. `MCTimeMarkers` satisfies all of it.
`CreationsRoundTrip` assumes also that definitions are `Expressible`: AUTOINCREMENT is asked
of the sole Int key only, and a sole key of type Int or Bool is not nullable, since
SQLite describes others otherwise.

`SchemaReaderProofs` proves `OneConnection`,
`ReturnedFree` and `FaultsReported` for any number of
reads, connections, catalogs, faults and commits, and every operation, assuming only
that readers are among the calls on the pool and that the bounds of the runs are
numbers (`SchemaReaderAssumption`, `ConnPoolAssumption`). `PoolInv`
says of each call which connections it holds by where it stands: its rows', its
own one's, or none. That is inductive only together with the shape of the queue
of queries: a call holds a connection of its own exactly while a `connClose` is
still to come and no `conn` is, which the lemmas of the first part prove of every
program and of every loop the rows of a query add to it (`ProgramQueue`,
`AnsweredQueue`). `FaultsReported` adds `HitsInv`: until a call leaves, only the two
probes whose error is dropped have failed, and from then on it returns an error.

Its second half is about what the reads report. `QuietReadsExact` (`QuietReadIsExact`):
while no DDL commits and nothing fails, each of the eight reads, strict and lenient,
reports exactly what the catalog holds, and returns an error exactly where it may
not answer. `CoherentDescriptions` (`OneCommitIsCoherent`): a strict description
names in its indexes and keys only fields it describes, though one DDL commits
between any two of its queries. Both hold for any sound catalogs, any names,
requests, readers and connections. Neither is inductive: a report is composed
at the end, from answers given at different moments. `ReportInv` says of each
call at every step

* `Shape`: what it has asked and will ask. The kinds of queries have an order
  (`Rank`), the queue follows it, nothing is asked twice, and whatever an answer
  already given makes the code ask is asked or still in the queue. So at the end
  the set of questions answered is known from the answers alone.
* `Truth`: while the catalog has not changed since the call began, every answer is
  the starting catalog's (`Heard`); if it changed once, each is the starting or the
  later catalog's, and what is asked after an answer of the later one (by its rank) is
  answered by the later one too. A probe whose error is dropped may have failed.
  After a second commit nothing is said of the answers, the rest stands.
* `EndsWell`: a call that returned `ok` had nothing left to ask and passed the last
  check; one that returns an error while nothing changed and nothing failed has a
  reason in the catalog to refuse (`MustRefuse`).

From `ReportInv` the first theorem computes each operation's report: `FieldsExact`,
`KeysExact`, `SourceExact`, `IndexesExact` say so of the parts of a description, and
`NothingMissed` that no query is lacking; the order of indexes is an induction over
their list (`InOrderWithin`). The second compares the fields, read before the
commit, with the columns read last (`ColumnsAgree`), and follows an index
(`IndexesCohere`) and a key (`KeysCohere`) to columns of one of the two.

The hypotheses are about SQLite, not about the code: `CatalogsAssumption` says that the
catalogs are `SoundCatalog`s (names are unique where SQLite keeps them unique, indexes
have terms, terms and keys are columns of their table, AUTOINCREMENT is of an INTEGER
key), `NilAssumption` that no row is not a row, `FoldAssumption` that folding
yields a name. `CoherentDescriptions` alone assumes also `IndexesStay`, that no commit
gives the name of an index to another table while the table that had it stays: each
transaction of `schema_modifier.go` is about the indexes of one table. The
assumption is needed: see section 6.

`SourceRowsProofs` extends this to `SourceSpec`: `CursorInv` adds how many rows
were given, refused and left at the end, and who closed the rows. From it follow
`CutRowsAreNoEnd`, that `io.EOF` comes after every row was given or refused, unless the
caller itself had closed the cursor, and `ClosedCursorsFree`, which is `ReturnedFree`
with cursors.

`SourceConstraintsProofs` proves `SettingsRestored` and `NilSound`
(and the types, `CheckTypes`) for any number of concurrent checks and
connections. `ChecksInv` says at each step of a check which connection it holds,
whether its restore is due and what the setting is in between; the theorem on the
setting then needs that a connection has one owner, so that what a check found
when it got the connection is still so when it restores it.

These three are about `ReaderSpec`, `SourceSpec` and `CheckSpec`, in which a call meets
others of its kind. `SqliteDatabaseProofs` carries them to `DatabaseSpec`, where all
kinds meet over one pool that the handles open and close. `SharedInv` is the conjunction of
`CursorInv` and `ChecksInv`. That the steps of one kind keep the invariant of the
other rests on two facts: a read gives back only connections that are its own and
takes only free ones (`ReadsKeepToTheirOwn`; `ChecksKeepToTheirOwn` is its
counterpart), and no call is both (`SqliteDatabaseAssumption`). From it follow
`ConnectionsApart`, `SharedSettingsRestored` and `SharedResultsSound`, for any number
of reads, cursors, checks and connections, whatever the handles do. With the
handles, `DatabaseInv` gives `DatabaseTypeCorrect` and `ClosedForAll`, that a read
begun after a handle was closed returns an error: the queue of every operation
holds, until it is answered, a query whose failure it reports (`ProgramNeeds`,
`StillNeeds`), and a late call holds nothing and can only leave.

Every invariant and every action property of a passing run, and both refinements
(`AtomicSpec`, `SpanSafety`), are theorems. Only model-checked are the liveness
properties, `NoPoolWithoutHandle` among them: the prover does not treat `ENABLED`.

## 5. What the abstraction leaves out

Column order, default expressions, foreign keys, uniqueness of indexes, lengths
and precisions of types, quoting and identifier case are not in the catalog.
Rows are a set of opaque values that only the migration and `DROP TABLE` touch.
No busy timeout is configured by the driver, so a refused lock is an error at
once. The errors of native calls within `Close` are collected and do not alter
its course; they are left out. `Recordset` of a session changes nothing and
`Cursor` is `Next` without advancing. `ensureTimeMarkerTable`,
`writeTimeMarker` and `dropTimeMarkers` of `type_mapping.go` have no caller
outside tests: the modifier has the same statements inline.

Of `modernc.org/sqlite` and `database/sql` it is assumed, as their sources have it, that
`Tx.Commit` executes `commit` and nothing after it fails, is for `database/sql` the end of the
transaction (its goroutine does nothing afterwards) and gives the connection back to
the pool as it is. What a transaction left that way does to the schema reads and
record operations of the same or another process is outside `SchemaModifier`.

The catalogs of the reads (`CatalogQueries`) are richer than those of the DDL:
columns in order, indexes with their terms and origin, foreign keys, hidden
columns, views, names in two spellings. Left out are default expressions,
precisions, the flags of indexes, the actions of foreign keys and the texts of
statements (so also what `tableHasAutoIncrement` takes for the clause in a
text); a row is whether it converts.

### Not modelled

* The record operations of `database_dal.go` and the accessors of `database.go`
  pass their arguments to dalgo2sql, which is not in this repository; they keep
  no state and have no path of their own.
* `sqlite_classifier.go` is one condition on the code of an error.
* `errors.go` defines error types; every error is "error" here.
* Tests, the end-to-end suite and the code graph.

## 6. Findings

Each is a run that TLC must find violated; `PROJECT.json` quotes the lines.

* `MCModifyField`: a field modified to Time is described as String, and modifying
  one field rebuilds the table without the AUTOINCREMENT of its key; the
  specification wants `ModifyField(n, newDef)`, a comment says the clause survives.
* `MCReadError`: the rows of `pragma_table_info` are read without `rows.Err()`;
  after an iteration error the table is rebuilt without the columns not read,
  and the call returns nil.
* `MCSidecarError`: errors of the sidecar clean-up are dropped, so a call can
  return nil with a part of its effect missing; the specification says that any
  error rolls back.
* `MCCommitBusy`: a commit refused for a reader (rollback journal, no busy timeout) is
  returned without a roll back; SQLite keeps the transaction and its locks on the pooled
  connection. The specification and a comment say that any error rolls back.
* `MCKeyProbe`: the rows of the primary-key probe of `ListConstraints` are read
  without `rows.Err()`; after an iteration error a table with a key has none, and
  the call returns nil. The error of the AUTOINCREMENT probe of `DescribeCollection`
  is discarded: after a fault the key has no AUTOINCREMENT, and the call returns nil.
  `schema_reader_borrowed.go` says that "a fault is reported by the read that hits
  it"; TLC reports the shorter of the two counterexamples, and the other when
  `ListConstraints` is taken out of the requests.

Other behaviour a reader of the code should know, which the models have and no
run singles out:

* With a composite key only its members get NOT NULL (`sql_gen.go:69`), so another
  non-nullable field is created, and described, as nullable. Bool is declared INTEGER
  (`type_mapping.go:24`) and described as Int. `CreateRoundTrips` is stated with both.
* A column renamed to a name that has a left-over marker keeps its marker under its old
  name (`schema_modifier.go:178`): the UPDATE fails on the primary key of the sidecar
  table and the error is dropped. The file `Leftover` of `MCAtomicDDL` has such a
  marker, and the effects of `DDLEffects` say what is left.
* The last comparison of `describeCollection` (`schema_reader.go:248`) runs over
  the source columns alone, so a trailing column dropped between the two queries
  stays in the fields with no source column.
* `ListReferrers` skips the table itself by exact name but matches keys in any
  letter case (`schema_constraints.go:107`, `:129`): a table with a key on itself,
  asked for in another spelling, is its own referrer.
* `readIndexFields` asks for the fields of an index by its name alone
  (`schema_reader.go:349`). If another program drops that index and creates one of the
  same name on another table, in one transaction between the two queries, the
  description names fields of the other table: its last check compares columns, which
  did not change. No single call of this driver commits that (`IndexesStay`).
* `CREATE TABLE IF NOT EXISTS` over a table of another shape marks the time
  columns of the new definition (`schema_modifier.go:45`).

## 7. Plan

Done: the DDL side with its abstract specification; the schema reads, cursors,
checks and handles over one pool; the pinned read; invariants of all of them as
theorems, the refinement of `AtomicDDL`, the time markers and what the reads
report among them. Next, in this order:

1. `TableReadLease`: what a span promises its host (valid until invalidated, then
   silent, then released), with `TableReadSpan` shown to implement it.
2. The DDL catalog: foreign keys, defaults and uniqueness through ModifyField; two
   spellings of one name; one catalog for `SchemaModifier` and `CatalogQueries`, so
   that reads run against the DDL itself and not against its results.
