# Formal models of neoorm

TLA+ modules for the parts of neoorm whose correctness depends on order,
failure, concurrency or intricate case analysis, TLC configurations that check
them on small instances, and TLAPS proofs of what matters most for every instance.

| module | models | run | proved in |
|---|---|---|---|
| `NestedTransaction` | what `docs/transactions.md` promises of `$transaction` | `transactions` (refinement) | `TransactionsProofs` |
| `Transactions` | `runtime/transaction.ts` and the four drivers' `transaction` | `transactions`, `transactions_overlap` | `TransactionsProofs` |
| `SqliteGate` | the promise gate of one SQLite handle, `runtime/driver.ts` | `gate_mixed` | `SqliteGateProofs` |
| `DevLock` (`MCDevLock`) | `migrate/dev-lock.ts` | `devlock`, `devlock_race` | `DevLockProofs` |
| `Deploy` (`MCDeploy`) | deploy, reconcile and down of `migrate/runner.ts`, statement by statement | `deploy`, `deploy_mysql_timeout` | `DeployProofs` |
| `Workflow` | the commands of the CLI on files, snapshot and database | `schema` | `WorkflowProofs` |
| `SchemaDiff` | `codegen/diff-manifest.ts`, ALTER emission and the SQLite rebuild | `schema` | |
| `Introspect` | one column: DDL, catalog, pull, push | `schema` | |
| `IndexWhere` | the predicate of a partial index, compiled and pulled | `schema` | |
| `Relations` | names of relations: pulled, inferred, validated, looked up | `schema` | |
| `Where` | `runtime/query/compile-where.ts` and its clause cache | `schema`, `where_cache` | |
| `Writes` | single-row create, findOrCreate, upsert, update, delete | `parts`, `writes_conditional` | `WritesProofs` |
| `RelationWrites` | `runtime/query/relation-writes.ts` | `parts` | `WritesProofs` |
| `ManyWrites` | createMany, updateMany, deleteMany and their AndReturn forms | `parts` | `PartsProofs` |
| `Paginate` | `runtime/query/paginate.ts`, `cursor.ts` | `parts` | `PartsProofs` |
| `RelationLoad` | the relation planner, its cache, the batch queries | `parts`, `plan_cache` | `PartsProofs` |
| `Reads` | projection, row mapping, `strip()`, the statement cache of reads | `parts` | `PartsProofs` |
| `Aggregates` (`AggregateCalls`) | aggregate, groupBy, count and their caches | `parts` | |
| `StudioGrid` | the data grid of Studio and the row handlers of its server | `parts` | `StudioGridProofs`, `PartsProofs` |
| `MCSchema`, `MCParts` | compositions of the parts that share a run | `schema`, `parts` | `WritesProofs`, `PartsProofs` |

`tlc -config X.cfg M` checks one configuration, `tlapm M.tla` one proof module.
`PROJECT.json` lists the runs, the mutant that each property detects, the source
lines behind each definition, the hazards and the theorems. Paths below are
relative to `src/src/`.

## 1. The system

neoorm is an ORM for PostgreSQL, MySQL/MariaDB and SQLite. A schema in TypeScript
is compiled to a *manifest*; the manifest generates a typed client and, by a diff
with the last *snapshot*, migration files. At run time the client compiles calls to
SQL and sends them through a *driver*. A migration runner applies the files to a
database and keeps a *ledger* table of them.

```
 schema.ts --compile--> manifest --diff with snapshot.json--> migrations/<name>/{migration,down}.sql
     ^                     |                                            |
     | db pull        generated client                      migrate deploy / dev / down
     |                     |                                            |
   program, Studio --> client --> query compiler --> executor --> driver --> database (tables, ledger)
```

### Components

**Transactions** (`runtime/transaction.ts`, `driver.ts`, `mysql-driver.ts`,
`mariadb-driver.ts`, `executor.ts`). State: one pinned connection, a savepoint
counter and a `poisoned` flag for each outer transaction. Operations: BEGIN, the
callback's queries, nested `transaction` (SAVEPOINT, RELEASE, ROLLBACK TO and
RELEASE), COMMIT, ROLLBACK, giving the connection back. Hard: any command can fail,
each engine reacts differently (PostgreSQL aborts the transaction, MySQL may roll
all of it back, SQLite opens one with SAVEPOINT), the connection can die under
COMMIT, and callbacks are free to catch errors. Correct when a failed nested block
loses its own writes and no others, a rejected transaction leaves nothing, nothing
becomes durable except by the outer COMMIT, and the connection comes back clean.

**SQLite gate** (`createSqliteClient` in `driver.ts`). State: the handle, the promise
that the next call is chained behind. Operations: queries, transactions (which hold
the gate for their callback), `PRAGMA foreign_keys` around a migration, wrapping the
handle again, `close`. Hard: all async functions of a program share the handle, and
every `await` lets others in. Correct when no call joins another's transaction, every
caller is told the truth, the pragma is what the migration needs, and the gate never
stays closed.

**Dev lock** (`migrate/dev-lock.ts`). State: a lock file with the holder's pid, its
mtime; per process what it has read of it. Operations: exclusive create and write,
read, judge, take over, wait, time out, release; a signal handler that releases beside
the work. Interacts with other processes through the file system only. Hard: file system
calls of two processes interleave; processes die, exit, are interrupted and are slow.
Correct when two processes are never at work, no lock is left behind by a process that
ended, and everyone ends.

**Migration runner** (`migrate/runner.ts`) and **dev workflow** (`dev-workflow.ts`).
State: the folders on disk, the ledger, the tables, an advisory lock (PostgreSQL),
`GET_LOCK` (MySQL) or the write lock (SQLite). Operations: `deploy`, `dev` (reconcile,
deploy, generate, reconcile or deploy again, under the dev lock), `down`, `reset`,
`db push`. Hard: concurrent processes, half-applied files where DDL autocommits, edited
and merged files, kills. Correct when deploys are serialized, files are applied in
order, once and whole, and the ledger tells the truth about tables and checksums.

**Generate** (`codegen/generate.ts`). State: `snapshot.json`, migration folders,
generated files. Writes them one by one, the snapshot before the folder. Hard: a kill
between two of them; two generates at once; names that collide. Correct when the files
build the snapshot and the snapshot describes the database.

**Schema diff** (`codegen/diff-manifest.ts`, ALTER of the dialects). Two manifests to
ordered DDL and blocked destructive changes. Correct when the DDL applied to the first
gives the second, never refers to what is not there and loses no data it did not report.

**Schema to manifest, introspection** (`codegen/schema-to-manifest.ts`, `introspect/`,
plugins' column kinds). Relation inference, naming and validation; predicates of partial
indexes; what `db pull` writes for a database. Hard: a round trip through the text of
three catalogs. Correct when a pull or a push ends where schema and database agree.

**Query writes** (`runtime/query/create|update|delete|upsert|find-or-create|
relation-writes`). Stateless between calls but for caches of statement texts; one call
may be several statements, in a transaction of its own unless the caller is in one. Hard:
other writers in between on engines without RETURNING, a nested write that fails half-way.
Correct when what is answered is what was written.

**Query reads, pagination, aggregates** (`runtime/query/find`, `relation-planner`,
`projection`, `compile-where`, `paginate`, `cursor`, `aggregate`). Compilers with caches
keyed by the shape of a call and, for relations, batches of dependent selects. Hard: a key
that does not separate what compiles differently; related rows read later than their
parents; pages beside writers; NULL. Correct when the answer is the one the arguments
describe, whatever was asked before.

**Studio** (`studio/`, `studio-web/`): an HTTP server over the client and a web grid that
stages edits and saves them one request at a time. Hard: the user goes on while a save or
a fetch is under way, and answers come late. Correct when nothing staged is lost.

**Client** (`runtime/client.ts`): builds the accessors once, and a client for each
transaction. **Errors** (`runtime/*-error.ts`): tables from driver codes to error
classes. **Emitters** (`codegen/emit-*`): print TypeScript. **SQL utilities** (`sql/`):
builder, template, statement splitter. **Schema DSL** (`schema/`): builders and
compile-time types. **CLI, seed, utilities, docs server**: arguments, prompts, script
loading. `PROJECT.json` gives each of these its files, status and what is left out.

## 2. The modules

### NestedTransaction and Transactions

`NestedTransaction` is the promise alone: blocks form a tree, each ends *kept* or
*dropped*, and the outer one makes durable in one step the writes whose whole chain
of blocks was kept. `Abort` may make them durable too: the answer to a COMMIT that
took effect can be lost, and no client can tell.

`Transactions` is the code. Block 0 is the outer callback, block *c* the nested one
under savepoint `neoorm_sp_c`; `counter` is `savepointCounter` and `poisoned` is
`state.poisoned`. `pc[b]` is where the callback or the code around it is: `body`
(running), `threw` (in the catch), `undone` (between ROLLBACK TO and RELEASE),
`resolved`, `rejected`, or `leaked` (rejected, with the transaction still open on the
connection). A command and its answer are one step, because a connection
runs its commands in the order they were sent and each block awaits its own.

| action | code |
|---|---|
| `BeginPooled` / `BeginSqlite` | BEGIN inside / before the try, READ ONLY or `query_only` |
| `Query`, `QueryReadonly` | the transaction client's `query`: poison check, then the statement |
| `Nest`, `NestRefused` | nested `transaction`: options and poison checks, `SAVEPOINT` before the try |
| `ReturnNested` | `RELEASE`; its failure falls into the catch |
| `RollbackTo`, `ReleaseUndone` | `rollbackAndReleaseSavepoint` and its poisoning |
| `ReturnPoisoned` | `SavepointStackError` instead of COMMIT |
| `CommitPostgres`, `CommitMysql`, `CommitSqlite` | COMMIT and its failures |
| `RollbackOuter` | the outer catch and finally: `RolledBack`, or `Leaks`, a ROLLBACK whose failure on a live connection is swallowed |

The server is part of the state (`began`, `aborted`, `stack`, `layer`, `durable`), an
external component modelled from how the engines answer: PostgreSQL's aborted
transaction, whose COMMIT succeeds and rolls back; MySQL's deadlock and SQLite's
disk-full rollback of everything (`"txn"` faults), after which statements autocommit
and savepoints are gone; SQLite's RELEASE that commits when no BEGIN is open.
`engine` is chosen in `Init` and stays.

The callback is free: it writes, nests, throws, returns, and catches nested failures
or not. Three constants say what else callbacks may do: `Overlap` (nested blocks side
by side, or queries of a parent while a child runs), `Swallow` (catch the error of a
plain query) and `SavepointFaults` (SAVEPOINT itself may fail on a live connection).

### DevLock

Every file system call is a step, since another process may act between any two:
`Open` (`wx`), `WriteContent`, `CleanUp`, `ReadHolder`, `Judge` (`isPidAlive`),
`Break` (`tryUnlinkLock`), `Stat`, `ReadOwn`, `UnlinkOwn`. `Unlink` removes *whatever
file has the name now*; `broken` remembers whose lock another process removed. The
clocks are the environment's: `Expire` (a wait passes `timeoutMs`), `Age` (a lock
passes `staleMs`). `fn` and the release are two threads of control: `Finish` is `fn`
returning, which starts the release; `Signal` is SIGINT or SIGTERM, whose handler starts it
while `fn` goes on (`atWork`, `signalled`), until `ProcessExit` ends both. `fn` may end first
(`FinishSignalled`): the release in its finally returns at once. The handler's release can be
cut short (`CutShort`) by a second signal, or by `process.exit(1)` of the command line when
`fn` throws meanwhile. `Crash` is a kill, or a signal outside `fn`. A pid reused by another program is not modelled: it makes a dead holder
look alive, which is the same as a holder that has not died.

### SqliteGate

`queue` and `running` are the chain of promises behind `gate`. A task is a single
write, a transaction, or a migration that takes three turns: `PRAGMA foreign_keys =
OFF`, the transaction, `ON` (`withSqliteForeignKeysOff`). A synchronous turn is one
step; a transaction holds the gate over many, and its writes (`TxWrite`) go past it.
`Reenter` is a callback that awaits the outer client and so waits for itself.
`ON` is in a `finally`, so a failed turn is followed by the next one all the same.
`Rewrap` is `sqliteClient` called again on a handle it has wrapped, which runs its
pragmas past the gate, and `Close` closes the handle at any moment.

### Deploy

Processes run `deploy`, `dev` or `down` against one database; every query is a step.

| state | code |
|---|---|
| `up`, `down` | version of each folder's `migration.sql` and `down.sql` |
| `ran`, `content` | how often each statement of a file is in effect, and of which version |
| `ledger` | the set of rows of `_neoorm_migrations`, each with its id, name and checksums |
| `lock` | `pg_advisory_xact_lock`, `GET_LOCK`, or SQLite's write lock |
| `ops` | what an open transaction did (run, undo, record, forget) and nobody else sees |
| `todo`, `batch`, `fix` | files a command still has to handle, planned, or caught up |
| `devLock` | who holds the dev lock |

A `deploy` is `Lock`, `Read` (`listAppliedMigrations`), `Plan` (the disk: checksums,
pending files, `assertMigrationsInOrder`), `Collide` (the query of the live tables), `Apply`
per statement and `RecordApplied` per file, `Deployed` (COMMIT, unlock). A `dev` is `Read`,
`Plan`, `Collide` and, where pending files create tables that are already there,
`Introspect`, `CatchUp`, `RecordCaughtUp`, `Reconciled`, and then a deploy. A `down` is `Choose`, then per migration `Check`,
`Revert` (undo by `down.sql`, then the DELETE) and `Reverted`. `Refused` is a statement
the database rejects or SQLITE_BUSY, `Fails` a failing statement or COMMIT or a killed
process, `GetLockTimesOut` the MySQL lock that was not granted, `Edit` a changed file.
On MySQL `Does` publishes each statement at once (`Autocommits`), but the reconcile's
INSERTs stay in their transaction. `setup`, chosen in `Init`, fixes engine, commands and
bounds of a behaviour, so that one run covers all of them. A name stands for its place in
filename order, a version for its content (checksums are equal exactly when the content
is). The dev lock is exclusive here; how far the real one is from that is `DevLock`.

### Workflow

The same commands from the outside, with `generate`, `reset` and `db push`, over one
project directory: every file that is written (`code`, `snapshot.json`, the four files of
a folder) and every transaction is a step, and two processes interleave and are killed
between steps. A schema is the set of tables and columns it has; SQL is what it creates
and drops. History variables say what happened to a project: `torn` (a kill between two
writes that belong together), `raced` (commands without a lock side by side), `jumbled`
(a new folder sorts before an older one) and `drifted` (how the database went past the
files). `Orderly` is none of the first three.

### SchemaDiff, Introspect, IndexWhere, Relations, Where

`SchemaDiff`: `Diff` turns two manifests into a plan, a sequence of *sets* of statements:
loops over the columns of a manifest run in the order of `schema.ts`, which may be any.
`Run` lets the database do one statement if it can, with each engine's rules for indexes,
foreign keys and NOT NULL, and SQLite's rebuild. A column carries the property its data was
written under, so a wrong copy shows. Six gaps are known and named (`NamesChangeHands`,
`IndexRenamed`, `ReferencesCreated`, `CycleDropped`, `IndexedDropped`, `RequiredRenamed`):
the property is stated for diffs without them.

`Introspect`: one column through `dbPush` (read the catalog, compare, alter), `dbPull` and
`Edit`, with each catalog's types and texts of defaults. `IndexWhere`: a `where` compiles to
tokens, the catalog stores them, pull parses them into a tree and writes a `where` again.
`Relations`: `pull` names the foreign keys of a database, `generate` infers, validates and
refuses, queries follow a name. `Where`: a `where` compiles to a tree with placeholders,
evaluated in three-valued logic, and the clause cache keeps the tree under the shape key.

### Writes, RelationWrites, ManyWrites

`Writes`: clients run create, findOrCreate, upsert, update and delete of single rows on
four dialects, in a transaction or not; each statement the code sends is a step and others
come in between. Row locks and the snapshot of MySQL's REPEATABLE READ are modelled
(`owner`, `snap`, `View`). History: `seen` (rows that were there while an operation ran) and
`did`. `RelationWrites`: a bag of nested operations becomes a plan of statements, in a
transaction of its own where the code opens one; any statement may fail. `ManyWrites`:
createMany, updateMany and deleteMany and their AndReturn forms with select-first,
synthesised ids, re-reads, increments and the cached UPDATE text.

### Paginate, RelationLoad, Reads, Aggregates

`Paginate`: a walk after or before cursors, or in windows, while others write; a cursor
holds the order column as the driver rounds it (`Grain`). `RelationLoad`: the planner decides
per relation between join, aggregate and batch query, its plan is cached by signature,
batches run after the main query with writers in between (`moments` are the databases the
call has seen). `Reads`: which columns the SQL selects, what the row mapper keeps and the
statement cache. `Aggregates`: texts with numbered placeholders through WHERE and HAVING,
cached, answered as each driver types its cells, and parsed back.

### StudioGrid

Rows shown, staged cells, drafts, and jobs (save, delete, row sheet) that send one request
after the other with what their closure captured, while the user goes on and answers of
list requests come late or fail. `rough` remembers whether jobs failed or overlapped and
whether answers were overtaken.

### MCSchema and MCParts

Parts that share nothing but the database are checked in two runs: `part` says which one a
behaviour is of, and the variables of the part are `v1`, `v2`, … (in `MCSchema` those of
`Workflow`, whose properties are stated there and say nothing of the other parts, in which no
command is at rest or runs). A behaviour stays in its part, so parts share model values, and each is symmetric in
its own. `Where` is in `MCSchema` because it recurses over filters, and a module reaching
RECURSIVE cannot be proved about; `MCParts` is. `InOrder` is a constraint that leaves
behaviours of `Workflow` once they are no longer `Orderly`, after the step that made them so
was checked.

## 3. Runs, and what they show

| run | instance | states | result |
|---|---|---|---|
| `transactions` | 3 engines, 3 nested blocks, 2 writes, 2 faults | 121k | all 7 properties hold |
| `transactions_overlap` | SQLite, 2 nested blocks, no fault, writes beside a running block | | finding 1 |
| `devlock` | 3 processes, signals, 1 kill, exits, stale locks | 167k | all 3 hold |
| `devlock_race` | 3 processes, exits, no kill or signal, nothing stale | | finding 2 |
| `gate_mixed` | 1 writer, 1 transaction, 2 migrations, 2 faults, 1 rewrap | 463k | all 6 hold |
| `deploy` | 2 runners, 3 files of 2 statements, 7 setups | 194k | all 8 hold |
| `deploy_mysql_timeout` | 2 deploys, `GET_LOCK` times out | | finding 3 |
| `schema` | 6 parts, below | 1.29M | all 9 hold |
| `parts` | 8 parts, below | 2.05M | all 7 hold |
| `writes_conditional` | 2 clients, updates with extra filters | | finding 4 |
| `where_cache` | 2 wheres, cache of 1 | | finding 5 |
| `plan_cache` | 2 finds with a filter on a relation | | finding 6 |

**Transactions.** `ResolvedKeepsSurvivors`: a transaction that resolves leaves exactly
the writes of kept blocks. `RejectedLeavesNothing`: one that rejects leaves nothing
unless the answer to COMMIT was lost. `DurableOnlyAtCommit`: no autocommit and no
RELEASE ever makes a write durable; this is what poisoning is for.
`StackIsTheRunningChain`: server savepoints and running blocks agree until poisoned.
`ReturnedClean` (unless `leaked`), `EveryTransactionSettles`, and the refinement
`ImplementsNestedTransaction`. `OuterWritesAreKept` is what the docs say of the outer
callback's own writes; finding 1 is its violation where a callback uses `tx` beside a block.

**DevLock.** Two processes are at work only if one had its lock removed by another, or was
signalled, has given up its lock and is about to exit (`ExclusiveUntilBroken`): nothing else
brings two together, and the window of a signal, in which `fn` still runs without a lock, is
named and not hidden. Plain exclusion fails even without a signal (finding 2). `LockHasOwner`:
no orphan of a process that ended, unless it was killed or its handler's release was cut
short. `EveryoneEnds`.

**SqliteGate.** `NoForeignWrite`, `AnswersAreTrue`, `GateHoldsTransaction`,
`ForeignKeysRestored`; `MigrationUnchecked`: a migration's statements see foreign keys off
unless another migration or a rewrap outside a transaction fell between its `OFF` and its `ON`
(`overlapped`). With two migrations in the run those overlaps happen: two migrations of one
handle do disturb each other, since the `ON` of the first precedes the transaction of the other,
and the property says that single writes, transactions, failures and `close` never do that. `EveryCallAnswered` but for a callback that awaits
the outer client: it waits for the gate it holds itself.

**Deploy.** `OneDeployWhenAwaited`; `LedgerInOrder`; `RecordedRan`: a row means that every
statement of the file has run, and exactly once unless MySQL had a failure or a timed-out
lock; `UnrecordedLeftNothing` and `BatchIsWhole` (all files of a run or none) where DDL is
transactional; `ChecksumOfWhatRan` although files may be edited at any moment;
`EveryCommandEnds`. The setups are those for which the code means these to hold: see the
limits in section 4.

**Schema.** `FilesSnapshotDatabase`: at rest the folders build what `snapshot.json` says
(`MigrationsBuildSnapshot`), and it describes the database (`SnapshotIsDatabase`).
`Revertible`: the last row can be undone and gives the database before it. `DevReachesSchema`:
a dev that comes through leaves database and generated files at the schema it compiled.
`DiffReachesAndKeeps`: the DDL runs to its end, gives the new schema with the old data, and
loses nothing unless it may. `SchemaIsDatabase`: after a push or pull the next push has
nothing to do. `IndexCoversItsRows`, after any number of pulls. `PulledIsAccepted`, `NamesLead`:
pulled schemas compile, and every relation leads both ways. `WhereSelectsItsRows`: a
clause answered without the database is empty, and shapes that are keyed whole never get each
other's clause.

**Parts.** `WritesAnswerTruly`: a row answered was there, and `created` is true exactly when
it was made. `NestedWritesAreWhole`: related as asked, or nothing changed. `PagesAreTrue`: a
walk visits rows nobody wrote once, in order; flags are true of a quiet table.
`LoadedAsAsked`: related rows and columns are those asked for, whatever was read before.
`AnsweredAreAffected`: the rows answered are the rows written. `GridKeepsItsWord`: what is
staged is kept until written or discarded, a draft becomes one row, the rows shown settle on
those asked for. `AnswersAsAsked`: aggregates answer what was asked through the cache.

Each property of a passing run has a mutant in the modules (commented `Mutant:`) that
changes one definition the way a plausible bug would, and breaks that property.

### Bounds

*Transactions*: three nested blocks are the least with a block that has both a parent and a
sibling or child; two writes are enough to lose one and keep the other, two faults to fail a
command and then its clean-up. *DevLock*: three processes are the race in which judge, victim
and successor differ. *Deploy*: three files with two statements give an order, a batch of more
than one and a half-applied file; two runners and up to three commands a concurrent pair and
a retry. *Workflow*: one table, one column, two processes, three commands, one edit, one kill.
*SchemaDiff*: two properties, two SQL names and an index name are enough to rename, swap and
reuse. *Where*: a cache of one entry, since only the pair of filler and asker matters; filters
of two entries and one level. *Writes*: two clients on one key with two values and three
operations: the operation, the rival and one before both (`Unconditional = FALSE` leaves the
plain update and delete to the proof). *Paginate*: ids 1 to 3, ranks 0 and 1, so that ties and
order both occur, pages of 1 and 2, two writes by others. *RelationLoad*: two posts and
comments, one tag, two finds, one change in between. *StudioGrid*: three gestures, one fault,
one foreign write, two jobs and requests at a time. *ManyWrites*: two stored and two
new ids, a cached text only before `updateMany`. *Aggregates*, *Reads*: two calls, the
second through the cache. Faults, kills, edits and commands are counted in the guards of the
actions named above.

### Fairness

*Transactions*: every driver step is awaited and every callback ends (`Leave` of each
block is weakly fair); nothing says that it succeeds. *DevLock*: a live process takes
its next step and the clock reaches `timeoutMs`; a work function ends. *SqliteGate*:
the runtime runs the queue in order and callbacks return. *Deploy*: a process that is
not killed takes its next step, and since only `maxRuns` commands are started nobody can
take the lock from a waiter for ever, so weak fairness of `Step` is enough. It is never
assumed that a statement succeeds or that a lock is obtained.

Deadlock is checked in all runs: each module has a stutter (`Finished`, `AllEnded`, `Stopped`,
`AllIdle`, `Rest`, `Ended`) for the states in which the system may stop.

## 4. Proofs

All theorems are checked by `tlapm` to the last leaf with the library's facts about
finite sets, sequences and well-founded induction, and hold for every value of the
constants that the named assumptions allow.

**`TransactionsProofs`**, for every `N`, `W`, `MaxFaults` and set of engines:

- `TypeCorrect`, with no further assumption.
- `RejectionIsClean`, `ConnectionIsClean`, `CommitIsTheOnlyWay`, `StackIsChain` under
  `Sequential`: callbacks await each nested block (`Overlap = FALSE`) and let errors of
  plain queries reach them (`Swallow = FALSE`). Finding 1 is what happens otherwise.
- `SurvivorsAreKept` and the refinement `PromiseIsKept` (`Transactions` implements
  `NestedTransaction`) under `Careful`, which adds that SAVEPOINT itself does not fail:
  on PostgreSQL a failing one aborts the transaction without poisoning it, and a callback
  that catches its error resolves with nothing committed. The runs leave this out as well
  (`SavepointFaults = FALSE`): no property covers that hazard.

`RejectedLeavesNothing` is not inductive: that a statement is not autocommitted
depends on a transaction being open whenever a callback may send one. `IInv` adds
`InTransaction` (a callback that may send a command does so inside BEGIN, unless the
connection is dead or the transaction poisoned), `NothingYet`, `SettledClean` and
`Chain`: the running blocks lie on one chain of increasing numbers, so only the
innermost sends commands. `Chain` is needed because a `"txn"` fault closes the
transaction under *all* running blocks, while only the innermost has the error; by the
time its parent may go on, ROLLBACK TO has failed and poisoned the stack. The second
part relates server and blocks: the savepoint stack is the chain (`Numbered`), nobody
works in an aborted transaction (`NotAborted`), every write sits in the layer of the
innermost block that still covers it (`Homes`), and kept blocks' writes survive (`Kept`).
The refinement maps each step of the driver to a step of the promise or a stutter.

**`DevLockProofs`**, for every set of processes: `TypeCorrect`; `WorkIsHeld` (`fn` runs
between the acquisition and the release, or on beside the release of a signal); `Ownership`
(whoever owns the lock has its file there, or is in `broken`), and from both
`ExclusionUntilBroken`; `NoOrphanedLock`; and `QuietExclusion`: with no kill, no signal,
no exit and no stale lock (`Quiet`) the lock is a mutual exclusion, by the invariant
that nobody is ever about to remove another's file.

**`SqliteGateProofs`**, for any number of tasks, faults and rewraps: `TypeCorrect`,
`NothingJoins`, `EveryAnswerIsTrue`, `GateIsTheTransaction`, `ForeignKeysComeBack`. The
invariant says where a task is in terms of queue and gate (`PlacesAgree`), what the handle
is in by who holds it (`HandleAgrees`), when foreign keys are off (`OffForMigration`) and
what has been told (`ToldTrue`). `RebuildsDoNotCascade` (`MigrationUnchecked`) holds for any
number of migrators: `MigrationInv` says that a migration under way that met no other one and no
rewrap has foreign keys off on the handle.

**`DeployProofs`**, for every set of setups, runners and files.
`BaseInv` is the type invariant with what each place of a command implies; on it rest

| theorem | holds | why not always |
|---|---|---|
| `TypeCorrect`, `BatchesAreWhole`, `FailuresLeaveNothing` | always (the last two speak of engines with transactional DDL) | |
| `DeploysAreSerialized`, `ChecksumsAreTrue` | no GET_LOCK times out | finding 3 |
| `DeploysKeepOrder` | nor does a `dev` record a catch-up | on MySQL a dev records rows beside an edited history; on PostgreSQL with dev, deploy and down together |
| `RecordedHasRun` | PostgreSQL, SQLite; not dev and down on one database | MySQL: a fault between `down.sql` and the DELETE leaves a row without tables; a dev catches up what a down is undoing |

with `Holds` (who is past the lock holds it), `Checksums`, `Ordered`, `Exclusion` and `Ran`.
These limits are the code's, not the proofs': TLC finds the counterexamples when the setups
of `MCDeploy` are widened that way.

**`WorkflowProofs`**, for every set of items, commands, names and files of generated code, any
number of runs, edits and kills, under `WellFormed` (marks are no content): `TypeCorrect`,
`FilesStayInStep` (`FilesSnapshotDatabase`), `AppliedStayRevertible` (`Revertible`) and the
action property `DevAlwaysReaches` (`DevReachesSchema`), all from `WorkflowInvariant`.

The three properties speak of rest or of one step, and none is inductive. `IInv` says always
that types hold and every command is at a place of its verb (`Places`), and of `Orderly`
histories `Body`:

- `Exclusive`: beside a command at work there are at most deploys, so what it read is still so;
- `Written`, `Met`: what a generate has read and written by each place, and what a command
  knows of the database (a dev that deploys meets no collision; a catch-up met one);
- `LedgerOnce`: a row names a folder, and each once;
- `Agreed`: what folders, ledger, snapshot and database have in common, by what went past the
  files (`drifted`). *Forward* (resets only): the folders build the schema the project stands
  for. *Followed* (a down, and what it undid applied again): each folder is the step between
  the schemas before and after it and `down.sql` the step back (`FilesAgree`), and the database
  is what the recorded files make (`LedgerAgrees`). *Adopted* (push, catch-up): the pending
  files lead from the database to the snapshot. After a down alone, the snapshot is the database.

`Stands` is what the project stands for: `snapshot.json`, or, while a generate has written it
but not `migration.sql`, the schema that generate started from; this is the gap a kill makes
visible (`torn`). A catch-up needs one more argument. It records files without running them,
which would break the order of the ledger if a deploy could apply one of them meanwhile; but a
pending file that drops a table before one creates it (`Barred`) makes every deploy collide.
What a sequence of files makes of a database (`Applied`) is stated without recursion (created
by one and dropped by none after it), so that it can be reasoned about; its lemmas split it at
a file, at the newest, and at what is recorded.

**`StudioGridProofs`**, under `WellFormed`: `GridIsAlwaysRight`, for any values, gestures, jobs
and list requests. `GridInv` says that what is staged is held by an edit under its own key or
by a draft, and by a request of every save that runs (`StagedRight`); that numbers of drafts
are never used again and, as long as jobs neither failed nor overlapped, each is still to be
sent once or made (`DraftsRight`); and that, as long as no answer was overtaken, the newest list
request on its way, or else the rows shown, have the filter (`AnswersRight`). A request
addresses a row by a key, and the user may give a row another key while it is on its way; the
invariant has a witness, `own`, which says to what row each key has ever belonged, and every
request, edit and staged cell goes to the owner of its key (`Owners`).

**`WritesProofs`** and **`PartsProofs`** state the properties of the composition that the run
checks: a behaviour is of one part from its first state on (`part`), and the part's invariant is
kept by its steps. What a part defines has its prefix there (`W!`, `R!`, `P!`, `L!`, `F!`, `M!`).
The assumptions are those of `MCParts`, each part's `WellFormed`: marks are no values, keys are
numbers. They are two modules because a prover's context with all parts in it is slow.
`GridAlwaysKeepsItsWord` is `StudioGridProofs`' invariant in the composition; the others:

- `WritesAlwaysAnswerTruly`, for any number of clients, keys, values and operations. The
  invariant says of every client which statement it is at and what it knows (`AtItsPlace`),
  that reads and rows were there (`ReadsWereThere`, `PreRowIsThere`), that in a transaction its
  row lock keeps others out (`Locks`, `InsertedStays`, `UpsertedStays`), and that a row whose
  unique key made an INSERT fail was there (`RivalStays`). `ConditionalUpdateIsAtomic` is not a
  theorem: finding 4.
- `NestedWritesAreAlwaysWhole`, for every kind of relation, engine, combination of operations
  and any tables. Which statements are still to run says what the tables are: each kind has the
  stages its plan goes through (`InverseStage` for a key in the other table, `LinkStage` for
  links, `OwnerStage` for the parent's own key), every statement leads to the next, and the last
  is what was asked for. A failure leaves nothing because a plan runs in a transaction unless it
  is one write of an outgoing key; what that can leave is the row connectOrCreate made, and the
  property names it.
- `PagesAreAlwaysTrue`, for any table, page size, direction, window and number of writes by
  others, under `Grain = 1`. Rows are totally ordered by column and tiebreaker; a query's
  answer is the ordered prefix of the rows after the cursor (`Fetched`); so a walk goes
  `Onward`, visits only what is behind its cursor (`VisitedBehind`), and has left out nothing
  there that nobody wrote (`NoneLeftOut`); `Flags` is the same of a quiet table. With
  `Grain = 2`, a cursor that loses the microseconds of a timestamp column, `WalkVisitsOnce` is
  false and TLC shows it.
- `LoadsAreAlwaysAsAsked`, of `RelationLoad` and `Reads`. For any posts, comments, tags, labels,
  number of finds and changes by others: a plan kept under a signature has that signature, so
  the plan of a find has the shape of its `with` (`Planned`), and with the call's own filter
  values (`OwnValues`; finding 6 is what happens otherwise) it is that `with` (`SameShape`); the
  databases seen since the find began include the present one and that of its parents
  (`Seen`); each relation is unset, or as it was at one of them (`Loaded`). In `Reads`, calls
  with the same signature compile to the same text (`SameQuery`), so the cache answers each
  with its own (`CacheRight`); what the SQL selects is at least what is asked, with the keys
  that relations hang on (`OwnColumnsRight`, `TargetColumnsRight`), and what is projected is
  exactly that (`Projected`), whichever way a relation comes (`AlongRight`, `FetchedRight`); so
  every row is right (`RowsRight`), and `strip()` takes away its columns once
  (`StrippedRight`). `Lost` names the calls for which this is not so; see section 6.
- `AnsweredAreAlwaysAffected`, for any ids, stored rows and authors. A text in the cache was
  built for some call with the same key, and calls with one key have one text and one order of
  parameters (`TextsRight`). The invariant says by phase what the table was and became and
  what the call has mapped (`ManySelecting`, `ManyWriting`, `ManyReloading`, `ManyNesting`):
  only the ids the call is about have changed (`Written`), and as long as no other client came
  between its statements (`disturbed`) they are those its filter names.

The data of the calls of `ManyWrites`, and the tables, picks and `with` objects of `Reads`, are
those of the modules; the argument does not depend on `MaxReads`.

**Only model-checked.** Liveness (`EveryTransactionSettles`, `EveryoneEnds`,
`EveryCallAnswered`, `EveryCommandEnds`): fairness is outside the prover. `AnswersAsAsked` of
`parts`, and in `schema` everything but the commands (`DiffReachesAndKeeps`, `SchemaIsDatabase`,
`IndexCoversItsRows`, `PulledIsAccepted`, `NamesLead`, `WhereSelectsItsRows`): these fold and
recurse over texts, filters, predicates and manifests, and induction over data is out of the
prover's reach. The same command properties are proved of `Workflow` by itself, which is the part
of `MCSchema` the run checks them in.

## 5. Findings

1. `transactions_overlap`: a write through the outer `tx` while a nested block runs is
   undone by that block's ROLLBACK TO, and the outer transaction resolves without it;
   `docs/transactions.md:36` promises that a nested failure rolls back only that block, and
   its example that outer writes are kept. The trace has no failing command: an outer write
   beside block 1, block 1 throws, ROLLBACK TO, RELEASE, COMMIT.
2. `devlock_race`: a waiter judges the holder it read and then unlinks by name the
   lock that a third process has created since; two are at work.
3. `deploy_mysql_timeout`: the answer of `GET_LOCK(name, 30)` is not looked at; after
   30 s a second deploy works beside the first.
4. `writes_conditional`: on MySQL and MariaDB a conditional update selects, updates and
   selects again by primary key without looking at how many rows the UPDATE matched, and
   answers another writer's row where `docs/queries.md:78` promises `null`.
5. `where_cache`: the shape key does not separate everything that compiles differently;
   after `{a: 1}`, `{a: undefined}` is answered by `a = $1` with undefined bound, and after
   `{a: undefined}`, `{a: null}` selects every row.
6. `plan_cache`: a relation plan is kept under the columns of its `where`, not their values,
   and holds the values of the call it was made for.

## 6. What is not modelled, and what is known to differ

The properties leave out some behaviours of the code that are known to differ from its docs or
from a reasonable wish. They are named predicates in the modules or were left out of the
instance, and are listed here for whoever works on that code.

- *Transactions, gate*: query hooks, isolation levels; a SAVEPOINT that fails on PostgreSQL
  (section 4), and the next use of a connection that was leaked; a transaction client kept after its
  callback still writes to the SQLite handle (`driver.ts:373`). A write of another task
  between `PRAGMA OFF` and the migration's transaction runs with foreign keys off; a migration
  whose `PRAGMA ON` finds the handle closed is told of failure though it committed.
- *Dev lock*: what two processes do to the files in the window of a signal (above).
- *Deploy*: a fault beside a `down` on MySQL, where a kill between `down.sql` and its DELETE
  leaves a row without tables. The disk reads of `Plan` (checksums of recorded files, the
  listing) are one step: an edit between them only decides which command notices it. `Collide`
  reads the pending files after its query; which tables a file creates does not change.
- *Where*: the second cache, by shape and values (`compile-where.ts:1362`). It is filled only
  together with the shells, once per new shape, and both maps drop their oldest entry at the
  same size, so a shape whose shell is gone has no entry there: that lookup never finds one.
- *Generate, diff*: the text of files. The gaps of `SchemaDiff` named above. On SQLite `db push`
  without `--accept-data-loss` rebuilds a table and loses a column it reports as not applied;
  on MySQL unsafe type changes are not reported as destructive, and DROP CHECK fails where none was.
- *Introspection*: MariaDB, views; SQLite REAL is pulled as `real()` without its import; the
  removal of a check or of DEFERRABLE never reaches SQLite; predicates `IndexWhere` calls `Known`.
- *Relations*: two keys with one column name and one inverse name, the second of which loses
  its inverse (`Hidden`); the side of a one-to-one is told by the column's name; a SQLite pull
  drops `.unique()` of a key.
- *Writes*: MySQL's upsert fires on any unique index; findOrCreate in a REPEATABLE READ
  transaction may not see the row it lost to; both of two deletes may get the row.
  Nested `disconnect: []`, `delete: []` and `false` act on all children; a to-one bag takes one
  operation only; to-one connectOrCreate leaves an orphan when its parent fails.
- *Many writes*: SQLite has no DEFAULT in VALUES; MySQL's createManyAndReturn synthesises wrong
  ids beside explicit serial keys and, with skipDuplicates, answers rows that were there; tables
  without a primary key are read again by predicate.
- *Reads*: findById with an inline `with` ignores includeHidden; findUnique over a partial
  unique index loses its predicate when its `with` joins; a joined to-one of only NULLs is
  answered null, a batched one whose select omits the key too; `strip()` is lost with relations.
  `skip` without `take`, raw `where` of counts, distinct and text search are not modelled.
- *Aggregates*: groupBy quotes columns as PostgreSQL on every dialect, so MySQL groups by
  constants; `_min` of digit text answers numbers; sums beyond 2^53 are rounded; a column
  named `all` hides `_all`.
- *Pagination*: NULLs in the order column are skipped; the text of a cursor.
- *Studio*: a cell typed during a save is cleared with it; a save that fails half-way
  creates its drafts again; late answers of an older filter win (`rough`). Bulk updates, import,
  export, playground and the SQL console are not modelled.

Emitters, the schema DSL's types, error tables, dialect text, SQL builder, CLI parsing and the
docs server hold no state and no order that TLC could examine; they stay out.

**Next.** What is left to prove without induction over data: the names of `Relations`. For the
rest of `schema` and for `Aggregates`, definitions without recursion, as `Applied` is in
`Workflow`, would have to come first.
