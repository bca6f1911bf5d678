------------------------------- MODULE Workflow -------------------------------
(***************************************************************************)
(* What the commands of the CLI do to the project directory and the         *)
(* development database: `generate` (no lock), `migrate dev` (under the     *)
(* lock of DevLock), `migrate deploy`, `migrate down`, `migrate reset` and  *)
(* `db push`.  A schema is the set of tables and columns it has.  Every     *)
(* file that is written and every transaction is one step; commands run     *)
(* concurrently and may be killed between two steps.                        *)
(***************************************************************************)
EXTENDS Naturals, Sequences, FiniteSets, SequencesExt

CONSTANTS
  Commands,     \* the command processes
  Verbs,        \* what they may run
  Tables,       \* what a schema may have: created by CREATE TABLE
  Columns,      \* or added to a table by ALTER TABLE
  LastFile,     \* how many TypeScript files are generated
  NoFile,
  Seconds,      \* timestamps a migration name may get
  MaxRuns,      \* bound: commands started
  MaxEdits,     \* bound: changes of schema.ts
  MaxCrashes    \* bound: processes killed

Items == Tables \cup Columns

\* A generate writes some file; NoFile is no content, and no name is 0.
WellFormed ==
  /\ Verbs \subseteq {"generate", "dev", "deploy", "down", "reset", "push"}
  /\ LastFile \in Nat \ {0} /\ MaxRuns \in Nat
  /\ Seconds \subseteq Nat \ {0} /\ IsFiniteSet(Seconds)
  /\ \A manifest \in SUBSET Items : NoFile # manifest
  /\ \A sql \in [add : SUBSET Items, drop : SUBSET Items] : NoFile # sql

VARIABLES
  schema,    \* schema.ts
  code,      \* generated file -> the schema it was generated from, or NoFile
  snapshot,  \* snapshot.json, or NoFile
  folder,    \* migration name -> its files sql, down, before, each or NoFile
  db,        \* what the database has
  ledger,    \* rows [name, sql, down] of _neoorm_migrations, by id
  devLock,   \* who holds the lock of `migrate dev`
  pc, job,   \* process -> where it is, its local variables
  runs, edits, crashes,
  torn,      \* a command was killed after its first and before its last write (history)
  raced,     \* a command that takes no lock ran beside another one (history)
  jumbled,   \* a migration was named before an earlier one (history)
  drifted    \* ways around the files that were taken: "push", "partial" (a push that left
             \* something out or files pending), "catch-up", "down", "redo" and "fork" (a migration applied
             \* or made after a down), "reset" (history)

files == <<code, snapshot, folder>>
database == <<db, ledger>>
history == <<torn, raced, jumbled, drifted>>
counts == <<runs, edits, crashes>>
vars == <<schema, files, database, devLock, pc, job, counts, history>>

\* timestamp_slug and its suffix _1 when that folder is taken.
Names == {10 * t + k : t \in Seconds, k \in 0..MaxRuns}
Nothing == [add |-> {}, drop |-> {}]
Unwritten == [sql |-> NoFile, down |-> NoFile, before |-> NoFile]

\* diffManifest: the statements that lead from one schema to another.
Diff(from, to) == [add |-> to \ from, drop |-> from \ to]
\* The statements run only on a database without what they create and with what they drop.
Runs(sql, state) == sql.add \cap state = {} /\ sql.drop \subseteq state
Perform(sql, state) == (state \ sql.drop) \cup sql.add
Known(manifest) == IF manifest = NoFile THEN {} ELSE manifest
Blocked(p, sql) == sql.drop # {} /\ ~job[p].accept

OnDisk == {n \in Names : folder[n].sql # NoFile}
Recorded == {ledger[i].name : i \in DOMAIN ledger}
Sorted(names) ==
  CHOOSE s \in [1..Cardinality(names) -> names] : \A i, j \in DOMAIN s : i < j => s[i] < s[j]

\* What the named files of a directory make of a database, in name order: what
\* one of them creates and none after it drops, and what was there and none drops.
Applied(dir, names, state) ==
  {x \in Items :
     \/ \E n \in names : x \in dir[n].sql.add /\ \A m \in names : m > n => x \notin dir[m].sql.drop
     \/ x \in state /\ \A n \in names : x \notin dir[n].sql.drop}
\* Each of them runs on what those before it have made.
AllRun(dir, names, state) ==
  \A n \in names : Runs(dir[n].sql, Applied(dir, {m \in names : m < n}, state))

Build(names) == Applied(folder, names, {})

Begun(verb, accept, named) ==
  [verb |-> verb, accept |-> accept, named |-> named, target |-> {}, prev |-> NoFile,
   sql |-> Nothing, todo |-> <<>>, name |-> 0, file |-> 1, created |-> FALSE]
Idle == Begun("none", FALSE, FALSE)

Init ==
  /\ schema \in SUBSET Items
  /\ code = [f \in 1..LastFile |-> NoFile] /\ snapshot = NoFile
  /\ folder = [n \in Names |-> Unwritten] /\ db = {} /\ ledger = <<>>
  /\ devLock = NoFile
  /\ pc = [p \in Commands |-> "idle"] /\ job = [p \in Commands |-> Idle]
  /\ runs = 0 /\ edits = 0 /\ crashes = 0
  /\ torn = FALSE /\ raced = FALSE /\ jumbled = FALSE /\ drifted = {}

Goto(p, place) == pc' = [pc EXCEPT ![p] = place]
Local(p, record) == job' = [job EXCEPT ![p] = record]
Quiet == UNCHANGED <<schema, devLock, counts, history>>
---------------------------------------------------------------------------
(* Commands. *)

First(verb) ==
  CASE verb = "generate" -> "compile" [] verb = "dev" -> "lock" [] verb = "deploy" -> "deploy"
    [] verb = "down" -> "down" [] verb = "reset" -> "reset" [] verb = "push" -> "push"

\* A deploy may run beside a deploy, a generate or a dev; what else takes no
\* lock overlaps whatever runs and is not waiting for the lock of dev.
Overlaps(p, verb) ==
  \E q \in Commands \ {p} :
    /\ pc[q] \notin {"idle", "lock", "failed"}
    /\ LET pair == {verb, job[q].verb}
       IN ~("deploy" \in pair /\ pair \subseteq {"deploy", "generate", "dev"})

Start(p) ==
  /\ pc[p] = "idle" /\ runs < MaxRuns
  /\ \E verb \in Verbs, accept, named \in BOOLEAN :
       /\ verb \in {"deploy", "down", "reset"} => ~accept
       /\ verb \notin {"generate", "dev"} => ~named
       /\ Local(p, Begun(verb, accept, named))
       /\ Goto(p, First(verb))
       /\ raced' = (raced \/ (verb # "dev" /\ Overlaps(p, verb)))
  /\ runs' = runs + 1
  /\ UNCHANGED <<schema, files, database, devLock, edits, crashes, torn, jumbled, drifted>>

\* The lock that DevLock describes, taken at once or waited for in vain.
Lock(p) ==
  /\ pc[p] = "lock"
  /\ IF devLock = NoFile THEN devLock' = p /\ Goto(p, "target") /\ raced' = (raced \/ Overlaps(p, "dev"))
     ELSE Goto(p, "failed") /\ UNCHANGED <<devLock, raced>>
  /\ UNCHANGED <<schema, files, database, job, counts, torn, jumbled, drifted>>

\* Either the workflow's end or its error leaves the command and its lock.
End(p) ==
  /\ pc[p] \in {"done", "failed"}
  /\ devLock' = IF devLock = p THEN NoFile ELSE devLock
  /\ Goto(p, "idle") /\ Local(p, Idle)
  /\ UNCHANGED <<schema, files, database, counts, history>>

\* compileSchemaToManifest for the first reconcile of `migrate dev`.
Target(p) ==
  /\ pc[p] = "target"
  /\ Local(p, [job[p] EXCEPT !.target = schema]) /\ Goto(p, "reconcile")
  /\ Quiet /\ UNCHANGED <<files, database>>
---------------------------------------------------------------------------
(* generateFromSchema. *)

\* schema.ts is read and compiled; the snapshot is read after it.
Compile(p) ==
  /\ pc[p] = "compile"
  /\ Local(p, [job[p] EXCEPT !.target = schema]) /\ Goto(p, "preview")
  /\ Quiet /\ UNCHANGED <<files, database>>

\* Mutant: the snapshot follows the schema even when its migration is blocked.
AfterCodeAlways(p) == "snapshot"

\* updateSnapshot: not when something destructive was blocked.
AfterCode(p) == IF Blocked(p, Diff(Known(job[p].prev), job[p].target)) THEN "generated" ELSE "snapshot"

\* computeMigrationPreview, and the error for a missing name: a prompt asks
\* for it and the whole generate is done again.
Preview(p) ==
  /\ pc[p] = "preview"
  /\ LET sql == Diff(Known(snapshot), job[p].target)
         written == IF Blocked(p, sql) THEN Nothing ELSE sql
     IN /\ Local(p, [job[p] EXCEPT !.prev = snapshot, !.sql = written])
        /\ Goto(p, IF written # Nothing /\ ~job[p].named THEN "prompt" ELSE "code")
  /\ Quiet /\ UNCHANGED <<files, database>>

\* Answered, or no terminal: the command fails.
Prompt(p) ==
  /\ pc[p] = "prompt"
  /\ \/ Local(p, [job[p] EXCEPT !.named = TRUE]) /\ Goto(p, "compile")
     \/ UNCHANGED job /\ Goto(p, "failed")
  /\ Quiet /\ UNCHANGED <<files, database>>

\* manifest.ts, query-types.ts, ... client.ts, one after the other.
WriteCode(p) ==
  /\ pc[p] = "code"
  /\ LET n == job[p].file
     IN /\ code' = [code EXCEPT ![n] = job[p].target]
        /\ Local(p, [job[p] EXCEPT !.file = IF n < LastFile THEN n + 1 ELSE 1])
        /\ Goto(p, IF n < LastFile THEN "code" ELSE AfterCode(p))
  /\ Quiet /\ UNCHANGED <<snapshot, folder, database>>

WriteSnapshot(p) ==
  /\ pc[p] = "snapshot"
  /\ snapshot' = job[p].target
  /\ Goto(p, IF job[p].sql = Nothing THEN "generated" ELSE "resolve")
  /\ Quiet /\ UNCHANGED <<code, folder, database, job>>

FirstFree(t, k) == folder[10 * t + k].sql = NoFile /\ \A j \in 0..k - 1 : folder[10 * t + j].sql # NoFile

\* migrationTimestamp and resolveUniqueMigrationName: a name is free if its
\* migration.sql cannot be read.
ResolveName(p) ==
  /\ pc[p] = "resolve"
  /\ \E t \in Seconds, k \in 0..MaxRuns :
       /\ FirstFree(t, k)
       /\ Local(p, [job[p] EXCEPT !.name = 10 * t + k])
       /\ jumbled' = (jumbled \/ \E other \in OnDisk : 10 * t + k < other)
  /\ drifted' = IF "down" \in drifted THEN drifted \cup {"fork"} ELSE drifted
  /\ Goto(p, "sql")
  /\ UNCHANGED <<schema, files, database, devLock, counts, torn, raced>>

WriteFile(p, file, content, next) ==
  /\ folder' = [folder EXCEPT ![job[p].name][file] = content]
  /\ Goto(p, next)
  /\ Quiet /\ UNCHANGED <<code, snapshot, database>>

WriteSql(p) ==
  /\ pc[p] = "sql" /\ WriteFile(p, "sql", job[p].sql, "down.sql") /\ UNCHANGED job

\* Mutant: the down script is the forward one.
WriteDownForward(p) ==
  /\ pc[p] = "down.sql" /\ UNCHANGED job
  /\ WriteFile(p, "down", Diff(Known(job[p].prev), job[p].target), "before")

\* buildDownSql: the diff from the new schema back to the snapshot it came from.
WriteDown(p) ==
  /\ pc[p] = "down.sql" /\ UNCHANGED job
  /\ WriteFile(p, "down", Diff(job[p].target, Known(job[p].prev)), "before")

WriteBefore(p) ==
  /\ pc[p] = "before" /\ Local(p, [job[p] EXCEPT !.created = TRUE])
  /\ WriteFile(p, "before", Known(job[p].prev), "generated")

\* Mutant: what was generated is left to the next deploy.
GeneratedOnly(p) == pc[p] = "generated" /\ Goto(p, "done") /\ Quiet /\ UNCHANGED <<files, database, job>>

\* generate is done; migrate dev applies the migration it wrote, if any.
Generated(p) ==
  /\ pc[p] = "generated"
  /\ Goto(p, IF job[p].verb = "dev" /\ job[p].created THEN "reconcile" ELSE "done")
  /\ Quiet /\ UNCHANGED <<files, database, job>>
---------------------------------------------------------------------------
(* The runner, on a database that rolls DDL back. *)

\* verifyAppliedMigrationChecksums and assertMigrationsInOrder.
Sound ==
  /\ \A i \in DOMAIN ledger : folder[ledger[i].name].sql = ledger[i].sql
  /\ \A n \in OnDisk \ Recorded : \A m \in Recorded : m < n

Pending == OnDisk \ Recorded
\* readPendingCreateCollisions: a pending CREATE TABLE of a table that exists.
Collides == \E n \in Pending : folder[n].sql.add \cap Tables \cap db # {}

Row(n) == [name |-> n, sql |-> folder[n].sql, down |-> folder[n].down]
Rows(names) == LET sorted == Sorted(names) IN [i \in DOMAIN sorted |-> Row(sorted[i])]

\* A pending folder that another process has not finished yet.
HalfWritten == \E q \in Commands : pc[q] \in {"down.sql", "before"}

AfterDeploy(p) == IF job[p].verb = "dev" /\ ~job[p].created THEN "compile" ELSE "done"

\* migrateDeploy, one transaction under its lock: all pending files or none.
MigrateDeploy(p) ==
  /\ pc[p] = "deploy"
  /\ IF Sound /\ ~Collides /\ AllRun(folder, Pending, db)
     THEN /\ db' = Applied(folder, Pending, db)
          /\ ledger' = ledger \o Rows(Pending)
          /\ raced' = (raced \/ HalfWritten)
          /\ drifted' = IF "down" \in drifted /\ Pending # {} THEN drifted \cup {"redo"} ELSE drifted
          /\ Goto(p, AfterDeploy(p))
     ELSE Goto(p, "failed") /\ UNCHANGED <<database, raced, drifted>>
  /\ UNCHANGED <<schema, files, devLock, job, counts, torn, jumbled>>

\* reconcilePendingCreates: what it reads and decides.
Reconcile(p) ==
  /\ pc[p] = "reconcile"
  /\ LET fix == Diff(db, job[p].target)
     IN IF ~Sound THEN Goto(p, "failed") /\ UNCHANGED job
        ELSE IF ~Collides THEN Goto(p, "deploy") /\ UNCHANGED job
        ELSE IF Blocked(p, fix) THEN Goto(p, "failed") /\ UNCHANGED job
        ELSE /\ Local(p, [job[p] EXCEPT !.sql = fix, !.todo = Sorted(Pending)])
             /\ Goto(p, "catch-up")
  /\ Quiet /\ UNCHANGED <<files, database>>

\* applySql of the difference between the live database and the target.
CatchUp(p) ==
  /\ pc[p] = "catch-up"
  /\ IF Runs(job[p].sql, db)
     THEN /\ db' = Perform(job[p].sql, db) /\ Goto(p, "record")
          /\ drifted' = drifted \cup {"catch-up"}
     ELSE Goto(p, "failed") /\ UNCHANGED <<db, drifted>>
  /\ UNCHANGED <<schema, files, ledger, devLock, job, counts, torn, raced, jumbled>>

RecordPending(p) ==
  /\ pc[p] = "record"
  /\ LET names == ToSet(job[p].todo)
     IN IF names \cap Recorded = {}
        THEN ledger' = ledger \o Rows(names) /\ Goto(p, "adopt")
        ELSE ledger' = ledger /\ Goto(p, "failed")
  /\ Quiet /\ UNCHANGED <<files, db, job>>

\* writeSnapshot(target); the second time the new migration was recorded.
Adopt(p) ==
  /\ pc[p] = "adopt"
  /\ snapshot' = job[p].target
  /\ Goto(p, IF job[p].created THEN "done" ELSE "deploy")
  /\ Quiet /\ UNCHANGED <<code, folder, database, job>>

\* Mutant: the snapshot that is restored is the one before the newest migration.
SnapshotOfNewest(names) == Head(names)

\* oldestReverted, whose snapshot.before.json is restored.
SnapshotOf(names) == Last(names)

\* migrateDown: the last rows, and every down.sql must be there.
Down(p) ==
  /\ pc[p] = "down"
  /\ \E steps \in 1..2 :
       LET names == [i \in 1..steps |-> ledger[Len(ledger) - i + 1].name]
       IN IF steps <= Len(ledger) /\ \A i \in DOMAIN names : folder[names[i]].down # NoFile
          THEN Local(p, [job[p] EXCEPT !.todo = names, !.name = SnapshotOf(names)]) /\ Goto(p, "revert")
          ELSE UNCHANGED job /\ Goto(p, "failed")
  /\ Quiet /\ UNCHANGED <<files, database>>

\* revertMigration: down.sql, if it is the one that was recorded.
Revert(p) ==
  /\ pc[p] = "revert"
  /\ LET n == Head(job[p].todo)
         script == folder[n].down
         recorded == {i \in DOMAIN ledger : ledger[i].name = n /\ ledger[i].down = script}
     IN IF recorded # {} /\ script # NoFile /\ Runs(script, db)
        THEN /\ db' = Perform(script, db)
             /\ \E i \in recorded : ledger' = RemoveAt(ledger, i)
             /\ Local(p, [job[p] EXCEPT !.todo = Tail(@)])
             /\ Goto(p, IF Len(job[p].todo) = 1 THEN "restore" ELSE "revert")
             /\ drifted' = drifted \cup {"down"}
        ELSE Goto(p, "failed") /\ UNCHANGED <<database, job, drifted>>
  /\ UNCHANGED <<schema, files, devLock, counts, torn, raced, jumbled>>

\* readSnapshotBefore of the oldest migration reverted.
Restore(p) ==
  /\ pc[p] = "restore"
  /\ LET before == folder[job[p].name].before
     IN IF before # NoFile THEN snapshot' = before /\ Goto(p, "done")
        ELSE snapshot' = snapshot /\ Goto(p, "failed")
  /\ Quiet /\ UNCHANGED <<code, folder, database, job>>

\* resetDatabaseSchema drops everything, the ledger too.
Reset(p) ==
  /\ pc[p] = "reset"
  /\ db' = {} /\ ledger' = <<>>
  /\ \E skipApply \in BOOLEAN : Goto(p, IF skipApply THEN "done" ELSE "deploy")
  /\ drifted' = drifted \cup {"reset"}
  /\ UNCHANGED <<schema, files, devLock, job, counts, torn, raced, jumbled>>

\* pushCurrentSchema compiles, introspects and leaves out what is destructive.
Push(p) ==
  /\ pc[p] = "push"
  /\ LET sql == Diff(db, schema)
     IN Local(p, [job[p] EXCEPT !.target = schema, !.created = Blocked(p, sql),
                                !.sql = IF Blocked(p, sql) THEN [sql EXCEPT !.drop = {}] ELSE sql])
  /\ Goto(p, "pushing")
  /\ Quiet /\ UNCHANGED <<files, database>>

PushSql(p) ==
  /\ pc[p] = "pushing"
  /\ IF Runs(job[p].sql, db)
     THEN /\ db' = Perform(job[p].sql, db)
          /\ Goto(p, IF job[p].created THEN "done" ELSE "pushed")
          /\ drifted' = drifted \cup {IF job[p].created \/ Pending # {} THEN "partial" ELSE "push"}
     ELSE Goto(p, "failed") /\ UNCHANGED <<db, drifted>>
  /\ UNCHANGED <<schema, files, ledger, devLock, job, counts, torn, raced, jumbled>>

PushSnapshot(p) ==
  /\ pc[p] = "pushed"
  /\ snapshot' = job[p].target /\ Goto(p, "done")
  /\ Quiet /\ UNCHANGED <<code, folder, database, job>>
---------------------------------------------------------------------------
(* The world. *)

Edit ==
  /\ edits < MaxEdits /\ edits' = edits + 1
  /\ \E s \in SUBSET Items : s # schema /\ schema' = s
  /\ UNCHANGED <<files, database, devLock, pc, job, runs, crashes, history>>

\* The process is killed; a lock it leaves is taken over (DevLock).
Crash(p) ==
  /\ pc[p] \notin {"idle", "done", "failed"}
  /\ crashes < MaxCrashes /\ crashes' = crashes + 1
  /\ torn' = (torn \/ pc[p] \in {"resolve", "sql", "down.sql", "before", "record", "adopt", "restore", "pushed"}
                   \/ (pc[p] = "revert" /\ "down" \in drifted))
  /\ devLock' = IF devLock = p THEN NoFile ELSE devLock
  /\ Goto(p, "idle") /\ Local(p, Idle)
  /\ UNCHANGED <<schema, files, database, runs, edits, raced, jumbled, drifted>>

Generating(p) ==
  \/ Compile(p) \/ Preview(p) \/ Prompt(p) \/ WriteCode(p) \/ WriteSnapshot(p)
  \/ ResolveName(p) \/ WriteSql(p) \/ WriteDown(p) \/ WriteBefore(p) \/ Generated(p)
Migrating(p) ==
  \/ MigrateDeploy(p) \/ Reconcile(p) \/ CatchUp(p) \/ RecordPending(p) \/ Adopt(p)
  \/ Down(p) \/ Revert(p) \/ Restore(p) \/ Reset(p) \/ Push(p) \/ PushSql(p) \/ PushSnapshot(p)

Rest ==
  /\ \A p \in Commands : pc[p] = "idle"
  /\ runs = MaxRuns /\ edits = MaxEdits
  /\ UNCHANGED vars

Next ==
  \/ \E p \in Commands :
       Start(p) \/ Lock(p) \/ End(p) \/ Target(p) \/ Generating(p) \/ Migrating(p) \/ Crash(p)
  \/ Edit \/ Rest

Spec == Init /\ [][Next]_vars
---------------------------------------------------------------------------
(* Properties. *)

AtRest == \A p \in Commands : pc[p] = "idle"
Orderly == ~torn /\ ~raced /\ ~jumbled

\* At rest, the migration folders in name order build exactly the schema of
\* snapshot.json, so that the next diff starts where the files end: if no
\* command was killed while it published, none without a lock ran beside
\* another one, names came in order and nothing went past the files.
MigrationsBuildSnapshot ==
  AtRest /\ Orderly /\ drifted \subseteq {"reset"} => Build(OnDisk) = Known(snapshot)

\* At rest, with nothing pending, snapshot.json describes the database, after a
\* push or a catch-up as well, or after a reset; and so it does after a
\* rollback, of any number of steps, until it is applied again.
SnapshotIsDatabase ==
  AtRest /\ Orderly
    /\ \/ Pending = {} /\ (drifted \subseteq {"push", "catch-up"} \/ drifted = {"reset"})
       \/ drifted = {"down"}
    => Known(snapshot) = db

\* A `migrate dev` that nothing went past is not refused by the database, and
\* once it is through, the database and every generated file have the schema
\* it compiled last.
DevReaches ==
  \A p \in Commands :
    (job[p].verb = "dev" /\ Orderly' /\ drifted' \subseteq {"reset"}) =>
      /\ ~(pc[p] = "deploy" /\ pc'[p] = "failed")
      /\ (pc[p] # "done" /\ pc'[p] = "done" /\ ~Blocked(p, Diff(db', job[p].target))) =>
           db' = job[p].target /\ \A f \in DOMAIN code : code'[f] = db'

\* Whatever is recorded can be reverted: its folder is complete, and undoing
\* the last row gives the database that the rows before it made.
AppliedCanBeReverted ==
  AtRest /\ Orderly /\ drifted \subseteq {"down", "redo", "reset"} /\ ledger # <<>> =>
    LET row == Last(ledger)
    IN /\ folder[row.name].down = row.down /\ row.down # NoFile /\ folder[row.name].before # NoFile
       /\ Runs(row.down, db)
       /\ Perform(row.down, db) = folder[row.name].before

\* At rest the migration files build the snapshot, and the snapshot describes
\* the database.
FilesSnapshotDatabase == MigrationsBuildSnapshot /\ SnapshotIsDatabase
\* What is applied can be reverted.
Revertible == AppliedCanBeReverted
\* A migrate dev that nothing went past reaches the schema it compiled.
DevReachesSchema == [][DevReaches]_vars
=============================================================================
