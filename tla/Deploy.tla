-------------------------------- MODULE Deploy --------------------------------
(***************************************************************************)
(* Migrations on one database: concurrent `migrate deploy`, `migrate dev`   *)
(* (its reconcilePendingCreates and deploy) and `migrate down` processes,   *)
(* the folders on disk, the ledger _neoorm_migrations and what the files'   *)
(* statements did.  Every query is one step.  A transaction keeps what it   *)
(* did to itself until COMMIT; a statement that touches what another open   *)
(* transaction did waits for it.  On MySQL every statement autocommits.     *)
(***************************************************************************)
EXTENDS Naturals, FiniteSets, FiniteSetsExt

CONSTANTS
  Setups,      \* databases and uses of them, one of which a behaviour has
  Runners,     \* the processes
  NoRunner,
  LastName,    \* migration folders are 1..LastName, in filename order
  Creates,     \* those whose first statement is a CREATE TABLE
  DownSteps    \* `migrate down --steps`

Names == 1..LastName
Slots == 1..2  \* a file's statements

ASSUME NamesAssumption ==
  /\ LastName \in Nat \ {0} /\ NoRunner \notin Runners
  /\ Creates \subseteq Names /\ DownSteps \in Nat \ {0}
ASSUME SetupsAssumption ==
  Setups \subseteq
    [dialect : {"postgresql", "sqlite", "mysql"},  \* "mysql" is also mariadb
     commands : SUBSET {"deploy", "dev", "down"},  \* what the runners start
     pushed : SUBSET Creates,  \* tables that `db push` may have created before
     timeouts : BOOLEAN,       \* a GET_LOCK may time out
     maxRuns : Nat,            \* bound: commands started
     maxFaults : Nat,          \* bound: statements that fail, processes killed
     maxEdits : Nat]           \* bound: edits of a migration.sql or down.sql

VARIABLES
  setup,     \* the setup, which does not change
  up, down,  \* name -> version of migration.sql and down.sql, 0 = no folder
  ran,       \* name -> slot -> how often that statement is in effect
  ledger,    \* the committed rows; their ids order them
  lock,      \* advisory lock, GET_LOCK or SQLite's write lock: its holder
  devLock,   \* the lock file of `migrate dev` (DevLock): its holder
  pc, cmd,   \* runner -> where it is, in which command
  records,   \* runner -> the ledger it has read
  batch,     \* runner -> the pending names (or those to revert) it decided on
  todo,      \* runner -> the names still to do
  fix,       \* runner -> the tables a catch-up still creates
  next,      \* runner -> the statement of First(r) that is next
  hash,      \* runner -> version of the file it applies
  ops,       \* runner -> what its open transaction did, each thing once
  content,   \* name -> version of migration.sql that was run (history)
  caughtUp,  \* recorded names whose row a reconcile wrote, not run (history)
  runs, faults, edits

disk == <<up, down>>
db == <<ran, ledger>>
own == <<records, batch, todo, fix, next, hash>>
counts == <<runs, faults, edits>>
vars == <<setup, disk, db, lock, devLock, pc, cmd, own, ops, content, caughtUp, counts>>

Dialect == setup.dialect

Rows == [id : Nat, name : Names, up : 1..2, down : 1..2]
Recorded(rows) == {row.name : row \in rows}
Row(rows, n) == CHOOSE row \in rows : row.name = n

Init ==
  /\ setup \in Setups
  /\ \E present \in SUBSET Names :
       up = [n \in Names |-> IF n \in present THEN 1 ELSE 0] /\ down = up
  /\ \E pushed \in SUBSET setup.pushed :
       ran = [n \in Names |-> [s \in Slots |-> IF n \in pushed /\ s = 1 THEN 1 ELSE 0]]
  /\ ledger = {} /\ lock = NoRunner /\ devLock = NoRunner
  /\ pc = [r \in Runners |-> "idle"] /\ cmd = [r \in Runners |-> "deploy"]
  /\ records = [r \in Runners |-> {}] /\ batch = [r \in Runners |-> {}]
  /\ todo = [r \in Runners |-> {}] /\ fix = [r \in Runners |-> {}]
  /\ next = [r \in Runners |-> 1]
  /\ hash = [r \in Runners |-> 0] /\ ops = [r \in Runners |-> {}]
  /\ content = [n \in Names |-> 0] /\ caughtUp = {}
  /\ runs = 0 /\ faults = 0 /\ edits = 0
---------------------------------------------------------------------------
(* The database. *)

\* A new row's id is greater than those of all rows, open transactions' too.
RecordedBy(did) == {op.row : op \in {o \in did : o.kind = "record"}}
AllRows == ledger \cup RecordedBy(UNION {ops[r] : r \in Runners})
NewId == 1 + Max({0} \cup {row.id : row \in AllRows})

Run(n, s) == [kind |-> "run", name |-> n, slot |-> s]
Record(n, u, d) ==
  [kind |-> "record", name |-> n, row |-> [id |-> NewId, name |-> n, up |-> u, down |-> d]]
Undo(n) == [kind |-> "undo", name |-> n]
Forget(n) == [kind |-> "forget", name |-> n]

\* The tables and the ledger after these statements.
After(did) ==
  [ran |-> [n \in Names |-> [s \in Slots |->
              IF Undo(n) \in did THEN 0 ELSE ran[n][s] + (IF Run(n, s) \in did THEN 1 ELSE 0)]],
   ledger |-> {row \in ledger : Forget(row.name) \notin did} \cup RecordedBy(did)]

\* CREATE TABLE and DROP TABLE without IF [NOT] EXISTS, UNIQUE (name).
Can(state, op) ==
  CASE op.kind = "run" ->
         op.name \in Creates /\ op.slot = 1 => state.ran[op.name][1] = 0
    [] op.kind = "undo" -> op.name \in Creates => state.ran[op.name][1] # 0
    [] op.kind = "record" -> op.name \notin Recorded(state.ledger)
    [] op.kind = "forget" -> TRUE

\* What a transaction sees: what is committed and what it did itself.
Visible(r) == After(ops[r])

OnTable(op) ==
  op.name \in Creates /\ (op.kind = "undo" \/ (op.kind = "run" /\ op.slot = 1))
OnLedger(op) == op.kind \in {"record", "forget"}

\* op waits for another connection's transaction.
Blocked(r, op) ==
  IF Dialect = "sqlite" THEN lock \notin {r, NoRunner}
  ELSE \E q \in Runners \ {r} : \E other \in ops[q] :
         /\ other.name = op.name
         /\ (OnTable(op) /\ OnTable(other)) \/ (OnLedger(op) /\ OnLedger(other))

\* Mutant: the files are applied with the pool's client, outside the transaction.
AutocommitsFiles(r) == pc[r] = "applying"

\* Statements autocommit: all but reconcile's INSERTs, on MySQL.
Autocommits(r) == Dialect = "mysql" /\ pc[r] # "recording"

\* r's statement goes through, in its transaction or at once.  A transaction
\* that is not a deploy takes SQLite's write lock with its first write.
Does(r, op) ==
  /\ ~Blocked(r, op) /\ Can(Visible(r), op)
  /\ IF Autocommits(r)
     THEN ran' = After({op}).ran /\ ledger' = After({op}).ledger /\ UNCHANGED ops
     ELSE ops' = [ops EXCEPT ![r] = @ \cup {op}] /\ UNCHANGED db
  /\ lock' = IF Dialect = "sqlite" THEN r ELSE lock

\* Mutant: the lock belongs to the session and nobody releases it.
StaysLocked(r) == lock

\* The lock after r's transaction or deploy has ended.
Unlocked(r) == IF lock = r THEN NoRunner ELSE lock

\* COMMIT of what r did.
Publish(r) ==
  /\ ran' = Visible(r).ran /\ ledger' = Visible(r).ledger
  /\ ops' = [ops EXCEPT ![r] = {}]

\* The name r does next: files in the order of their names, reverts newest first.
Before(command, rows, n, m) ==
  IF command = "down" THEN Row(rows, n).id >= Row(rows, m).id ELSE n <= m
FirstOf(names, command, rows) ==
  CHOOSE n \in names : \A m \in names : Before(command, rows, n, m)
First(r) == FirstOf(todo[r], cmd[r], records[r])

\* The statement r sends next: the catch-up's, a file's, or the ledger's.
Sends(r) ==
  \/ pc[r] = "catching" /\ fix[r] # {}
  \/ pc[r] \in {"applying", "recording"} /\ todo[r] # {}
  \/ pc[r] \in {"undoing", "forgetting"}
Statement(r) ==
  LET n == First(r)
  IN CASE pc[r] = "catching" -> Run(Min(fix[r]), 1)
       [] pc[r] = "recording" -> Record(n, up[n], down[n])
       [] pc[r] = "applying" -> IF next[r] \in Slots THEN Run(n, next[r])
                                ELSE Record(n, hash[r], down[n])
       [] pc[r] = "undoing" -> Undo(n)
       [] pc[r] = "forgetting" -> Forget(n)
---------------------------------------------------------------------------
(* The commands. *)

Goto(r, place) == pc' = [pc EXCEPT ![r] = place]
Decides(r, names) ==
  batch' = [batch EXCEPT ![r] = names] /\ todo' = [todo EXCEPT ![r] = names]

\* Mutant: the list of files is kept for the next command.
EndsKeepsTodo(r) ==
  /\ Goto(r, "idle")
  /\ records' = [records EXCEPT ![r] = {}] /\ batch' = [batch EXCEPT ![r] = {}]
  /\ UNCHANGED <<cmd, todo, fix, next, hash, devLock>>

\* The command is over and keeps nothing.
Ends(r) ==
  /\ Goto(r, "idle")
  /\ records' = [records EXCEPT ![r] = {}] /\ batch' = [batch EXCEPT ![r] = {}]
  /\ todo' = [todo EXCEPT ![r] = {}] /\ fix' = [fix EXCEPT ![r] = {}]
  /\ next' = [next EXCEPT ![r] = 1] /\ hash' = [hash EXCEPT ![r] = 0]
  /\ devLock' = IF devLock = r THEN NoRunner ELSE devLock
  /\ UNCHANGED cmd

Start(r) ==
  /\ pc[r] = "idle" /\ runs < setup.maxRuns
  /\ \E c \in setup.commands :
       /\ c = "dev" => devLock = NoRunner
       /\ devLock' = IF c = "dev" THEN r ELSE devLock
       /\ cmd' = [cmd EXCEPT ![r] = c]
       /\ Goto(r, IF c = "deploy" THEN "locking" ELSE "reading")
  /\ runs' = runs + 1
  /\ UNCHANGED <<setup, disk, db, lock, own, ops, content, caughtUp, faults, edits>>

\* Mutant: the lock is asked for and not waited for.
LockNotAwaited(r) ==
  /\ pc[r] = "locking"
  /\ lock' = r /\ Goto(r, "reading")
  /\ UNCHANGED <<devLock, disk, db, cmd, own, ops, content, caughtUp, counts>>

\* pg_advisory_xact_lock, BEGIN IMMEDIATE or GET_LOCK.
Lock(r) ==
  /\ pc[r] = "locking" /\ lock = NoRunner
  /\ lock' = r /\ Goto(r, "reading")
  /\ UNCHANGED <<devLock, disk, db, cmd, own, ops, content, caughtUp, counts>>

\* GET_LOCK answers 0 after 30 s, and its answer is not looked at.
GetLockTimesOut(r) ==
  /\ Dialect = "mysql" /\ setup.timeouts
  /\ pc[r] = "locking" /\ lock # NoRunner
  /\ Goto(r, "reading")
  /\ UNCHANGED <<devLock, disk, db, lock, cmd, own, ops, content, caughtUp, counts>>

\* listAppliedMigrations.
Read(r) ==
  /\ pc[r] = "reading"
  /\ records' = [records EXCEPT ![r] = ledger]
  /\ Goto(r, IF cmd[r] = "down" THEN "choosing" ELSE "planning")
  /\ UNCHANGED <<devLock, disk, db, lock, cmd, batch, todo, fix, next, hash, ops,
                 content, caughtUp, counts>>

Pending(r) == {n \in Names : up[n] # 0} \ Recorded(records[r])
Verified(r) == \A row \in records[r] : up[row.name] = row.up
\* Mutant: no assertMigrationsInOrder.
InOrderUnchecked(r) == TRUE
InOrder(r) == \A n \in Pending(r), m \in Recorded(records[r]) : m < n
Collides(r) == \E n \in batch[r] \cap Creates : ran[n][1] # 0

\* The disk: the checksums of the recorded files, the pending ones, their order.
Plan(r) ==
  /\ pc[r] = "planning"
  /\ IF Verified(r) /\ InOrder(r)
     THEN /\ Decides(r, Pending(r)) /\ Goto(r, "colliding")
          /\ UNCHANGED <<lock, devLock, cmd, records, fix, next, hash>>
     ELSE Ends(r) /\ lock' = Unlocked(r)
  /\ UNCHANGED <<disk, db, ops, content, caughtUp, counts>>

\* The live tables: a deploy goes on to the files if it collides with none, a
\* dev to the catch-up if it does, and else to its deploy, which reads again.
Collide(r) ==
  /\ pc[r] = "colliding"
  /\ \/ /\ cmd[r] = "deploy" /\ Collides(r)
        /\ Ends(r)
        /\ lock' = Unlocked(r)
     \/ /\ cmd[r] = "deploy" <=> ~Collides(r)
        /\ Goto(r, IF cmd[r] = "deploy" THEN "applying" ELSE "introspecting")
        /\ UNCHANGED <<lock, devLock, cmd, own>>
     \/ /\ cmd[r] = "dev" /\ ~Collides(r)
        /\ cmd' = [cmd EXCEPT ![r] = "deploy"] /\ Goto(r, "locking")
        /\ Decides(r, {})
        /\ UNCHANGED <<lock, devLock, records, fix, next, hash>>
  /\ UNCHANGED <<disk, db, ops, content, caughtUp, counts>>

\* introspectLiveManifest and the diff to schema.ts, which has all tables.
Introspect(r) ==
  /\ pc[r] = "introspecting"
  /\ fix' = [fix EXCEPT ![r] = {n \in Creates : up[n] # 0 /\ ran[n][1] = 0}]
  /\ Goto(r, "catching")
  /\ UNCHANGED <<devLock, disk, db, lock, cmd, records, batch, todo, next, hash, ops,
                 content, caughtUp, counts>>

\* applySql: the catch-up's statements, and the COMMIT of their transaction.
CatchUp(r) ==
  /\ pc[r] = "catching"
  /\ \/ /\ fix[r] # {}
        /\ Does(r, Statement(r))
        /\ fix' = [fix EXCEPT ![r] = @ \ {Min(fix[r])}]
        /\ UNCHANGED pc
     \/ /\ fix[r] = {}
        /\ Publish(r) /\ lock' = Unlocked(r)
        /\ Goto(r, "recording")
        /\ UNCHANGED fix
  /\ UNCHANGED <<devLock, disk, cmd, records, batch, todo, next, hash, content, caughtUp, counts>>

\* The pending files become ledger rows, in a transaction of their own.
RecordCaughtUp(r) ==
  /\ pc[r] = "recording" /\ todo[r] # {}
  /\ Does(r, Statement(r))
  /\ todo' = [todo EXCEPT ![r] = @ \ {First(r)}]
  /\ UNCHANGED <<devLock, disk, pc, cmd, records, batch, fix, next, hash, content, caughtUp, counts>>

\* Its COMMIT; migrate dev goes on to its deploy.
Reconciled(r) ==
  /\ pc[r] = "recording" /\ todo[r] = {}
  /\ Publish(r) /\ lock' = Unlocked(r)
  /\ caughtUp' = caughtUp \cup batch[r]
  /\ cmd' = [cmd EXCEPT ![r] = "deploy"] /\ Goto(r, "locking")
  /\ records' = [records EXCEPT ![r] = {}] /\ batch' = [batch EXCEPT ![r] = {}]
  /\ UNCHANGED <<devLock, disk, todo, fix, next, hash, content, counts>>

\* Mutant: the checksum is that of the file as it is when the row is written.
ApplyHashesLate(r) ==
  /\ pc[r] = "applying" /\ todo[r] # {} /\ next[r] \in Slots
  /\ LET n == First(r)
     IN /\ hash' = [hash EXCEPT ![r] = up[n]]
        /\ content' = IF next[r] = 1 THEN [content EXCEPT ![n] = up[n]] ELSE content
  /\ Does(r, Statement(r))
  /\ next' = [next EXCEPT ![r] = @ + 1]
  /\ UNCHANGED <<devLock, disk, pc, cmd, records, batch, todo, fix, caughtUp, counts>>

\* applyMigration: the file is read once, then its statements run in turn.
Apply(r) ==
  /\ pc[r] = "applying" /\ todo[r] # {} /\ next[r] \in Slots
  /\ LET n == First(r)
     IN IF next[r] = 1
        THEN /\ hash' = [hash EXCEPT ![r] = up[n]]
             /\ content' = [content EXCEPT ![n] = up[n]]
        ELSE UNCHANGED <<hash, content>>
  /\ Does(r, Statement(r))
  /\ next' = [next EXCEPT ![r] = @ + 1]
  /\ UNCHANGED <<devLock, disk, pc, cmd, records, batch, todo, fix, caughtUp, counts>>

\* Mutant: the next file starts where this one ended.
RecordAppliedKeepsNext(r) ==
  /\ pc[r] = "applying" /\ todo[r] # {} /\ next[r] \notin Slots
  /\ Does(r, Statement(r))
  /\ todo' = [todo EXCEPT ![r] = @ \ {First(r)}]
  /\ UNCHANGED <<devLock, disk, pc, cmd, records, batch, fix, next, hash, content, caughtUp, counts>>

\* Its ledger row comes last.
RecordApplied(r) ==
  /\ pc[r] = "applying" /\ todo[r] # {} /\ next[r] \notin Slots
  /\ Does(r, Statement(r))
  /\ todo' = [todo EXCEPT ![r] = @ \ {First(r)}]
  /\ next' = [next EXCEPT ![r] = 1]
  /\ UNCHANGED <<devLock, disk, pc, cmd, records, batch, fix, hash, content, caughtUp, counts>>

\* All files are done: COMMIT, and the lock is free.
Deployed(r) ==
  /\ pc[r] = "applying" /\ todo[r] = {}
  /\ Publish(r) /\ lock' = Unlocked(r)
  /\ Ends(r)
  /\ UNCHANGED <<disk, content, caughtUp, counts>>

\* migrateDown takes the last rows of the ledger, newest first.
Choose(r) ==
  /\ pc[r] = "choosing"
  /\ IF Cardinality(records[r]) < DownSteps
     THEN Ends(r)
     ELSE /\ Decides(r, {row.name : row \in {a \in records[r] :
                 Cardinality({b \in records[r] : b.id > a.id}) < DownSteps}})
          /\ Goto(r, "checking")
          /\ UNCHANGED <<devLock, cmd, records, fix, next, hash>>
  /\ UNCHANGED <<disk, db, lock, ops, content, caughtUp, counts>>

\* revertMigration reads the ledger again: still applied, down.sql unchanged.
Check(r) ==
  /\ pc[r] = "checking"
  /\ LET n == First(r)
     IN IF n \in Recorded(ledger) /\ Row(ledger, n).down = down[n]
        THEN Goto(r, "undoing") /\ UNCHANGED <<devLock, cmd, own>>
        ELSE Ends(r)
  /\ UNCHANGED <<disk, db, lock, ops, content, caughtUp, counts>>

\* down.sql, then the ledger row, in a transaction per migration.
Revert(r) ==
  /\ pc[r] \in {"undoing", "forgetting"}
  /\ Does(r, Statement(r))
  /\ Goto(r, IF pc[r] = "undoing" THEN "forgetting" ELSE "reverted")
  /\ caughtUp' = caughtUp \cap Recorded(ledger')
  /\ UNCHANGED <<devLock, disk, cmd, own, content, counts>>

Reverted(r) ==
  /\ pc[r] = "reverted"
  /\ Publish(r) /\ lock' = Unlocked(r)
  /\ caughtUp' = caughtUp \cap Recorded(ledger')
  /\ IF todo[r] = {First(r)}
     THEN Ends(r)
     ELSE /\ todo' = [todo EXCEPT ![r] = @ \ {First(r)}] /\ Goto(r, "checking")
          /\ UNCHANGED <<devLock, cmd, records, batch, fix, next, hash>>
  /\ UNCHANGED <<disk, content, counts>>

\* The transaction is rolled back, the lock released, the error reported.
RollsBack(r) ==
  /\ ops' = [ops EXCEPT ![r] = {}] /\ lock' = Unlocked(r)
  /\ Ends(r)
  /\ UNCHANGED <<setup, disk, db, content, caughtUp, runs, edits>>

\* A statement the database refuses, or that waits too long for SQLite's lock.
Refused(r) ==
  /\ \/ Sends(r) /\ ~Blocked(r, Statement(r)) /\ ~Can(Visible(r), Statement(r))
     \/ Dialect = "sqlite" /\ lock \notin {r, NoRunner} /\ (Sends(r) \/ pc[r] = "locking")
  /\ RollsBack(r) /\ UNCHANGED faults

\* A statement or COMMIT fails, or the process is killed.
Fails(r) ==
  /\ pc[r] # "idle" /\ faults < setup.maxFaults
  /\ RollsBack(r) /\ faults' = faults + 1

Deploying(r) ==
  /\ \/ Lock(r) \/ GetLockTimesOut(r) \/ Read(r) \/ Plan(r) \/ Collide(r)
     \/ Apply(r) \/ RecordApplied(r) \/ Deployed(r)
  /\ UNCHANGED setup
Reconciling(r) ==
  /\ Introspect(r) \/ CatchUp(r) \/ RecordCaughtUp(r) \/ Reconciled(r)
  /\ UNCHANGED setup
Reverting(r) ==
  /\ Choose(r) \/ Check(r) \/ Revert(r) \/ Reverted(r)
  /\ UNCHANGED setup

Step(r) == Deploying(r) \/ Reconciling(r) \/ Reverting(r) \/ Refused(r)

\* A merge brings a folder; someone edits a file of one.
Edit ==
  /\ edits < setup.maxEdits /\ edits' = edits + 1
  /\ \E n \in Names, v \in 1..2 :
       \/ up[n] = 0 /\ up' = [up EXCEPT ![n] = v] /\ down' = [down EXCEPT ![n] = v]
       \/ up[n] \notin {0, v} /\ up' = [up EXCEPT ![n] = v] /\ UNCHANGED down
       \/ down[n] \notin {0, v} /\ down' = [down EXCEPT ![n] = v] /\ UNCHANGED up
  /\ UNCHANGED <<setup, devLock, db, lock, pc, cmd, own, ops, content, caughtUp, runs, faults>>

AllIdle == (\A r \in Runners : pc[r] = "idle") /\ UNCHANGED vars

Next ==
  \/ \E r \in Runners : Start(r) \/ Step(r) \/ Fails(r)
  \/ Edit \/ AllIdle

Spec == Init /\ [][Next]_vars

\* Every process goes on; a lock that is free can be taken.
Fairness == \A r \in Runners : WF_vars(Step(r))
FairSpec == Spec /\ Fairness
---------------------------------------------------------------------------
(* Properties. *)

Places == {"idle", "locking", "reading", "planning", "colliding", "introspecting", "catching",
           "recording", "applying", "choosing", "checking", "undoing", "forgetting", "reverted"}
Ops == [kind : {"run"}, name : Names, slot : Slots] \cup [kind : {"undo", "forget"}, name : Names]
         \cup [kind : {"record"}, name : Names, row : Rows]

TypeOK ==
  /\ setup \in Setups
  /\ up \in [Names -> 0..2] /\ down \in [Names -> 0..2]
  /\ ran \in [Names -> [Slots -> Nat]] /\ ledger \subseteq Rows
  /\ {lock, devLock} \subseteq Runners \cup {NoRunner}
  /\ pc \in [Runners -> Places] /\ cmd \in [Runners -> {"deploy", "dev", "down"}]
  /\ records \in [Runners -> SUBSET Rows]
  /\ batch \in [Runners -> SUBSET Names] /\ todo \in [Runners -> SUBSET Names]
  /\ \A r \in Runners : todo[r] \subseteq batch[r]
  /\ fix \in [Runners -> SUBSET Creates]
  /\ next \in [Runners -> 1..3] /\ hash \in [Runners -> 0..2]
  /\ ops \in [Runners -> SUBSET Ops]
  /\ content \in [Names -> 0..2] /\ caughtUp \subseteq Names
  /\ runs \in 0..setup.maxRuns /\ faults \in 0..setup.maxFaults
  /\ edits \in 0..setup.maxEdits

\* "Serializes concurrent deploys": at most one is between its lock and its end.
OneDeployAtATime ==
  \A r, q \in Runners :
    (\A x \in {r, q} : cmd[x] = "deploy" /\ pc[x] \notin {"idle", "locking"}) => r = q

\* As long as no GET_LOCK times out, that is what the lock achieves on every
\* database, whoever fails or is killed while holding it.
OneDeployWhenAwaited == setup.timeouts \/ OneDeployAtATime

\* An earlier file never runs after a later one: rows are in filename order.
LedgerInOrder == \A a, b \in ledger : a.id < b.id <=> a.name < b.name

\* On MySQL a revert's statements take effect one by one.
HalfReverted(n) ==
  Dialect = "mysql" /\ \E r \in Runners : pc[r] = "forgetting" /\ First(r) = n

\* A file that stops half-way, or that two deploys apply, runs again on MySQL.
MayRunAgain == Dialect = "mysql" /\ (faults > 0 \/ setup.timeouts)

\* The row comes last: every statement of a recorded file has run, and exactly
\* once where a transaction or an undisturbed lock covers the file; for one
\* that a reconcile recorded its table is there.
RecordedRan ==
  \A n \in Recorded(ledger) : HalfReverted(n) \/
    IF n \in caughtUp
    THEN n \in Creates => ran[n][1] = 1
    ELSE \A s \in Slots : ran[n][s] = 1 \/ (MayRunAgain /\ ran[n][s] > 1)

\* Where statements do not autocommit, a file that is not recorded left nothing
\* behind, but for a table that a push or a dev's catch-up made.
UnrecordedLeftNothing ==
  Dialect # "mysql" =>
    \A n \in Names \ Recorded(ledger), s \in Slots :
      \/ ran[n][s] = 0
      \/ s = 1 /\ (n \in setup.pushed \/ (n \in Creates /\ "dev" \in setup.commands))

\* The checksum recorded is that of the content that was run, even if the file
\* is edited while it is applied.
ChecksumOfWhatRan ==
  \A row \in ledger : row.name \notin caughtUp => row.up = content[row.name]

\* A deploy's rows appear all at once: one that fails leaves none of them.
BatchIsWhole ==
  [][Dialect # "mysql" =>
       \A n \in Recorded(ledger') \ Recorded(ledger) :
         \E r \in Runners : n \in batch[r] /\ batch[r] \subseteq Recorded(ledger')]_vars

\* Every command ends, whoever fails while holding the lock.
EveryCommandEnds == \A r \in Runners : pc[r] # "idle" ~> pc[r] = "idle"
=============================================================================
