------------------------------ MODULE SqliteGate ------------------------------
(***************************************************************************)
(* One SQLite handle behind createSqliteClient: every query and transaction *)
(* of the outer client goes through a FIFO gate, a transaction holds the    *)
(* gate while its callback awaits, and its writes use the inner client that *)
(* skips the gate.  Tasks are concurrent async functions of the program:    *)
(* single writes, $transactions, and migrations that run a transaction      *)
(* between PRAGMA foreign_keys = OFF and ON, each a turn at the gate.       *)
(* Wrapping the handle again and closing it go past the gate.               *)
(***************************************************************************)
EXTENDS Naturals, Sequences, FiniteSets

CONSTANTS
  Writers,      \* tasks that send one write through the outer client
  Transactors,  \* tasks that run one transaction
  Migrators,    \* tasks that run withSqliteForeignKeysOff(transaction)
  MaxFaults,    \* bound: statements, BEGINs and COMMITs that fail
  Reentrant,    \* callbacks may await the outer client instead of theirs
  MaxRewraps,   \* bound: sqliteClient called again with other options
  Nobody

Tasks == Writers \cup Transactors \cup Migrators

ASSUME TasksAssumption ==
  /\ Nobody \notin Tasks
  /\ Writers \cap Transactors = {} /\ Writers \cap Migrators = {}
  /\ Transactors \cap Migrators = {}
ASSUME ModesAssumption == MaxFaults \in Nat /\ MaxRewraps \in Nat /\ Reentrant \in BOOLEAN

\* Mutant: foreign keys are turned off only after the transaction.
TurnsLate(t) == IF t \in Writers THEN <<"write">>
                ELSE IF t \in Transactors THEN <<"tx">> ELSE <<"tx", "off", "on">>

\* The turns a task takes at the gate, one after the other.
Turns(t) == IF t \in Writers THEN <<"write">>
            ELSE IF t \in Transactors THEN <<"tx">> ELSE <<"off", "tx", "on">>

VARIABLES
  place,      \* task -> "ready" | "queued" | "running" | "stuck" | "ended"
  turn,       \* task -> how many turns it has taken
  queue,      \* the tasks behind the gate, in the order of their enqueue
  running,    \* the task whose turn it is, or Nobody
  began,      \* a transaction is open on the handle
  pending,    \* tasks with a write in the open transaction
  durable,    \* tasks with a committed write
  failed,     \* tasks that were told their write or transaction failed
  foreignKeys,\* PRAGMA foreign_keys
  unchecked,  \* tasks that wrote with foreign keys off (history)
  checked,    \* tasks that wrote with foreign keys on (history)
  overlapped, \* migrators that met another one, or a rewrap, under way (history)
  faults,
  rewraps,    \* times the handle was wrapped again
  closed      \* close() was called

vars == <<place, turn, queue, running, began, pending, durable, failed,
          foreignKeys, unchecked, checked, overlapped, faults, rewraps, closed>>
gate == <<place, turn, queue, running>>

Init ==
  /\ place = [t \in Tasks |-> "ready"] /\ turn = [t \in Tasks |-> 0]
  /\ queue = <<>> /\ running = Nobody
  /\ began = FALSE /\ pending = {} /\ durable = {} /\ failed = {}
  /\ foreignKeys = TRUE /\ faults = 0
  /\ unchecked = {} /\ checked = {} /\ overlapped = {}
  /\ rewraps = 0 /\ closed = FALSE

Kind(t) == Turns(t)[turn[t] + 1]

\* The client's call: its work is chained behind the gate.
Enqueue(t) ==
  /\ place[t] = "ready"
  /\ queue' = Append(queue, t)
  /\ place' = [place EXCEPT ![t] = "queued"]
  /\ UNCHANGED <<turn, running, began, pending, durable, failed,
                 foreignKeys, unchecked, checked, overlapped, faults, rewraps, closed>>

\* The first of the queue may go once the gate's promise has settled.
AtGate(t) == running = Nobody /\ queue # <<>> /\ Head(queue) = t

\* A turn that is over: the task goes on to its next one or has ended.
TurnOver(t) ==
  /\ turn' = [turn EXCEPT ![t] = @ + 1]
  /\ place' = [place EXCEPT ![t] =
                 IF turn[t] + 1 = Len(Turns(t)) THEN "ended" ELSE "ready"]
  /\ running' = Nobody

\* Who wrote under which setting of foreign_keys.
Wrote(t) ==
  /\ unchecked' = IF foreignKeys THEN unchecked ELSE unchecked \cup {t}
  /\ checked' = IF foreignKeys THEN checked \cup {t} ELSE checked
  /\ UNCHANGED overlapped

\* The task is told of a statement, BEGIN or COMMIT that failed; on a closed handle all do.
Fails(t) ==
  /\ failed' = failed \cup {t}
  /\ IF closed THEN faults' = faults ELSE faults < MaxFaults /\ faults' = faults + 1

\* Mutant: a single write runs at once, not behind the gate.
WriteUngated(t) ==
  /\ queue # <<>> /\ t \in {queue[i] : i \in DOMAIN queue} /\ Kind(t) = "write"
  /\ queue' = SelectSeq(queue, LAMBDA u : u # t)
  /\ IF began THEN pending' = pending \cup {t} /\ UNCHANGED durable
              ELSE durable' = durable \cup {t} /\ UNCHANGED pending
  /\ Wrote(t)
  /\ turn' = [turn EXCEPT ![t] = @ + 1]
  /\ place' = [place EXCEPT ![t] = "ended"]
  /\ UNCHANGED <<running, began, failed, foreignKeys, faults, rewraps, closed>>

\* runQuery of a write: synchronous, so the whole turn is one step.
Write(t) ==
  /\ AtGate(t) /\ Kind(t) = "write"
  /\ queue' = Tail(queue)
  /\ TurnOver(t)
  /\ \/ /\ IF began THEN pending' = pending \cup {t} /\ UNCHANGED durable
                    ELSE durable' = durable \cup {t} /\ UNCHANGED pending
        /\ ~closed /\ Wrote(t)
        /\ UNCHANGED <<failed, faults>>
     \/ /\ Fails(t)
        /\ UNCHANGED <<pending, durable, unchecked, checked, overlapped>>
  /\ UNCHANGED <<began, foreignKeys, rewraps, closed>>

\* The task has no turn left to take: its function has thrown.
Ends(t) ==
  /\ place' = [place EXCEPT ![t] = "ended"] /\ turn' = [turn EXCEPT ![t] = Len(Turns(t))]
  /\ running' = Nobody

\* The migrators between their OFF and their ON.
UnderWay == {m \in Migrators : turn[m] \in 1..2}

\* PRAGMA foreign_keys, which SQLite ignores inside a transaction; on a closed
\* handle it throws, before the try or out of the finally.
Pragma(t) ==
  /\ AtGate(t) /\ Kind(t) \in {"off", "on"}
  /\ queue' = Tail(queue)
  /\ \/ /\ ~closed /\ TurnOver(t)
        /\ foreignKeys' = IF began THEN foreignKeys ELSE Kind(t) = "on"
        /\ overlapped' = IF Kind(t) = "off" /\ UnderWay # {}
                         THEN overlapped \cup UnderWay \cup {t} ELSE overlapped
        /\ UNCHANGED <<failed, faults>>
     \/ /\ closed /\ Ends(t) /\ Fails(t)
        /\ UNCHANGED <<foreignKeys, overlapped>>
  /\ UNCHANGED <<began, pending, durable, unchecked, checked, rewraps, closed>>

\* db.exec(BEGIN) before the try: SQLITE_BUSY ends the turn at once.
Begin(t) ==
  /\ AtGate(t) /\ Kind(t) = "tx"
  /\ queue' = Tail(queue)
  /\ \/ /\ ~closed /\ began' = TRUE
        /\ running' = t /\ place' = [place EXCEPT ![t] = "running"]
        /\ UNCHANGED <<turn, failed, faults>>
     \/ /\ TurnOver(t) /\ Fails(t)
        /\ UNCHANGED began
  /\ UNCHANGED <<pending, durable, foreignKeys,
                 unchecked, checked, overlapped, rewraps, closed>>

\* A write through the inner client, which skips the gate.
TxWrite(t) ==
  /\ place[t] = "running" /\ t \notin pending /\ ~closed
  /\ pending' = pending \cup {t}
  /\ Wrote(t)
  /\ UNCHANGED <<gate, began, durable, failed, foreignKeys, faults, rewraps, closed>>

\* The callback awaits the outer client: that work is behind its own.
Reenter(t) ==
  /\ Reentrant /\ place[t] = "running"
  /\ queue' = Append(queue, t)
  /\ place' = [place EXCEPT ![t] = "stuck"]
  /\ UNCHANGED <<turn, running, began, pending, durable, failed,
                 foreignKeys, unchecked, checked, overlapped, faults, rewraps, closed>>

\* Mutant: the gate opens when the callback returns, before the COMMIT.
CommitAfterGate(t) ==
  /\ place[t] = "running"
  /\ TurnOver(t) /\ UNCHANGED <<queue, began, pending, durable, failed,
                                foreignKeys, unchecked, checked, overlapped, faults, rewraps, closed>>

\* The callback returned: COMMIT, and the gate opens.
Commit(t) ==
  /\ place[t] = "running" /\ ~closed
  /\ durable' = durable \cup pending /\ pending' = {}
  /\ began' = FALSE
  /\ TurnOver(t)
  /\ UNCHANGED <<queue, failed, foreignKeys,
                 unchecked, checked, overlapped, faults, rewraps, closed>>

\* Mutant: the finally of withSqliteForeignKeysOff is left out on an error.
RollbackSkipsOn(t) ==
  /\ place[t] = "running" /\ Fails(t)
  /\ pending' = {} /\ began' = FALSE
  /\ turn' = [turn EXCEPT ![t] = Len(Turns(t))]
  /\ place' = [place EXCEPT ![t] = "ended"] /\ running' = Nobody
  /\ UNCHANGED <<queue, durable, foreignKeys,
                 unchecked, checked, overlapped, rewraps, closed>>

\* Mutant: the gate chains on run itself, so a rejection closes it for ever.
RollbackKeepsGate(t) ==
  /\ place[t] = "running" /\ Fails(t)
  /\ pending' = {} /\ began' = FALSE
  /\ place' = [place EXCEPT ![t] = "ended"]
  /\ UNCHANGED <<turn, queue, running, durable, foreignKeys,
                 unchecked, checked, overlapped, rewraps, closed>>

\* The callback threw or COMMIT failed: ROLLBACK, and the gate opens as well.
Rollback(t) ==
  /\ place[t] = "running" /\ Fails(t)
  /\ pending' = {} /\ began' = FALSE
  /\ TurnOver(t)
  /\ UNCHANGED <<queue, durable, foreignKeys,
                 unchecked, checked, overlapped, rewraps, closed>>

\* sqliteClient with other options runs the PRAGMAs at once, past the gate.
Rewrap ==
  /\ rewraps < MaxRewraps /\ ~closed
  /\ rewraps' = rewraps + 1
  /\ IF began THEN UNCHANGED <<foreignKeys, overlapped>>
              ELSE foreignKeys' = TRUE /\ overlapped' = overlapped \cup UnderWay
  /\ UNCHANGED <<gate, began, pending, durable, failed, unchecked, checked, faults, closed>>

\* Mutant: close() leaves the open transaction to be committed.
CloseCommits ==
  /\ ~closed /\ closed' = TRUE
  /\ began' = FALSE /\ pending' = {} /\ durable' = durable \cup pending
  /\ UNCHANGED <<gate, failed, foreignKeys,
                 unchecked, checked, overlapped, faults, rewraps>>

\* close() is not enqueued: SQLite rolls back the transaction that is open.
Close ==
  /\ ~closed /\ closed' = TRUE
  /\ began' = FALSE /\ pending' = {}
  /\ UNCHANGED <<gate, durable, failed, foreignKeys,
                 unchecked, checked, overlapped, faults, rewraps>>

Turn(t) == Write(t) \/ Pragma(t) \/ Begin(t)

\* All tasks have ended, or a callback waits for the gate it holds itself.
Stopped ==
  /\ \A t \in Tasks : place[t] \notin {"ready", "running"}
  /\ running = Nobody => queue = <<>>
  /\ UNCHANGED vars

Next ==
  \/ \E t \in Tasks : \/ Enqueue(t) \/ Turn(t)
                      \/ TxWrite(t) \/ Reenter(t) \/ Commit(t) \/ Rollback(t)
  \/ Rewrap \/ Close
  \/ Stopped

Spec == Init /\ [][Next]_vars

\* Every async function goes on, the gate runs its queue, callbacks settle.
Fairness == \A t \in Tasks : /\ WF_vars(Enqueue(t)) /\ WF_vars(Turn(t))
                             /\ WF_vars(Commit(t) \/ Rollback(t))
FairSpec == Spec /\ Fairness
---------------------------------------------------------------------------
(* Properties. *)

TypeOK ==
  /\ place \in [Tasks -> {"ready", "queued", "running", "stuck", "ended"}]
  /\ turn \in [Tasks -> 0..3] /\ \A t \in Tasks : turn[t] <= Len(Turns(t))
  /\ queue \in Seq(Tasks) /\ running \in Tasks \cup {Nobody}
  /\ began \in BOOLEAN /\ foreignKeys \in BOOLEAN
  /\ pending \subseteq Tasks /\ durable \subseteq Tasks /\ failed \subseteq Tasks
  /\ unchecked \subseteq Tasks /\ checked \subseteq Tasks /\ overlapped \subseteq Tasks
  /\ faults \in 0..MaxFaults /\ rewraps \in 0..MaxRewraps /\ closed \in BOOLEAN

\* No write joins another task's open transaction.
NoForeignWrite == pending \subseteq {running}

\* What a task was told is true when it has ended: its write is committed, or
\* it failed and nothing of it is.  No other task's rollback undoes it, and no
\* close() under it.  Only a migration whose PRAGMA foreign_keys = ON found the
\* handle closed is told of a failure when its transaction was committed.
AnswersAreTrue ==
  \A t \in Tasks : place[t] = "ended" =>
    /\ t \notin failed /\ t \in checked \cup unchecked => t \in durable
    /\ t \in durable => t \notin failed \/ (t \in Migrators /\ closed)

\* The gate is held exactly while a transaction is open on the handle; only
\* close() ends the transaction and leaves the gate held.
GateHoldsTransaction == IF closed THEN ~began ELSE began <=> running # Nobody

\* A migration's statements run with foreign keys off, so that a rebuild can
\* drop a parent table without cascading into its children, unless another
\* migration or, outside a transaction, a rewrap came between its OFF and its
\* ON.  (Two that overlap do disturb each other: the ON of the first one to
\* end falls before the transaction of the other.)
MigrationUnchecked == Migrators \cap checked \subseteq overlapped

\* When all tasks have ended, foreign keys are enforced on an open handle.
ForeignKeysRestored == (\A t \in Tasks : place[t] = "ended") => foreignKeys \/ closed

\* Every call is answered, after a close() as well, unless a callback waits
\* for the gate it holds.
EveryCallAnswered ==
  \A t \in Tasks : place[t] = "queued" ~> place[t] = "ended" \/ \E u \in Tasks : place[u] = "stuck"
=============================================================================
