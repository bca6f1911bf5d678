------------------------------- MODULE Writes -------------------------------
(***************************************************************************)
(* The single-row writes of the query runtime on rows addressed by a unique *)
(* key: create, findOrCreate, upsert, update and delete with extra filters. *)
(* Each statement is one step; what a dialect cannot do in one statement    *)
(* (xmax, RETURNING) the code does in several, and other clients run        *)
(* between them.  An operation runs on its own or as the only one of a      *)
(* user's transaction, which reads from its snapshot on MySQL and MariaDB.  *)
(***************************************************************************)
EXTENDS Naturals, FiniteSets

CONSTANTS
  Clients,
  Keys,       \* values of the unique column
  Values,     \* values of another column
  Dialects,   \* of "postgres", "sqlite", "mysql", "mariadb"
  NoRow,
  Nobody,
  MaxOps,     \* bound: operations started
  Unconditional  \* bound: whether other updates and deletes are made than those Conditional

\* The keys and values of rows are no marks, and a row is none either.
Distinct == Nobody \notin Clients /\ NoRow \notin [id : Nat, v : Values]

VARIABLES
  dialect,
  current,    \* key -> its row as the last write left it, or NoRow
  stable,     \* key -> its row as last committed
  owner,      \* key -> the transaction that has it locked, or Nobody
  op,         \* client -> its operation
  pc,         \* client -> its next statement
  local,      \* client -> what it has read: pre (rows before the write), row, id
  answer,     \* client -> what the caller got
  snap,       \* client -> what its transaction sees
  started,    \* operations started, also the source of fresh ids
  seen,       \* client -> the rows its key had since it started (history)
  did         \* client -> whether its write inserted or changed a row, and
              \* whether another took away the row of its key since (history)

table == <<current, stable, owner>>
vars == <<dialect, table, op, pc, local, answer, snap, started, seen, did>>

MySqlFamily == dialect \in {"mysql", "mariadb"}
supportsReturning == dialect # "mysql"
supportsUpdateReturning == ~MySqlFamily
supportsXmax == dialect = "postgres"

NoOp == [verb |-> "none", key |-> CHOOSE k \in Keys : TRUE, extra |-> {}, data |-> NoRow, back |-> FALSE, tx |-> FALSE]
Nothing == [kind |-> "none", row |-> NoRow, created |-> FALSE]
Unread == [pre |-> NoRow, row |-> NoRow]
DidNothing == [inserted |-> FALSE, changed |-> FALSE, lost |-> FALSE]

Init ==
  /\ dialect \in Dialects
  /\ current \in [Keys -> {NoRow} \cup [id : {0}, v : Values]]
  /\ stable = current /\ owner = [k \in Keys |-> Nobody]
  /\ op = [c \in Clients |-> NoOp] /\ pc = [c \in Clients |-> "idle"]
  /\ local = [c \in Clients |-> Unread] /\ answer = [c \in Clients |-> Nothing]
  /\ snap = [c \in Clients |-> [k \in Keys |-> NoRow]] /\ started = 0
  /\ seen = [c \in Clients |-> {}] /\ did = [c \in Clients |-> DidNothing]
---------------------------------------------------------------------------
(* The database. *)

Key(c) == op[c].key
InTx(c) == op[c].tx /\ pc[c] \notin {"idle", "answered"}

\* What a SELECT of client c sees: its own writes, its snapshot on the MySQL
\* family, and else what is committed.
View(c) ==
  LET k == Key(c)
  IN IF owner[k] = c THEN current[k] ELSE IF op[c].tx /\ MySqlFamily THEN snap[c][k] ELSE stable[k]

\* The first SELECT of an operation, which makes the snapshot.
FirstRead(c) == snap' = [snap EXCEPT ![c] = IF op[c].tx /\ MySqlFamily THEN stable ELSE @]
FirstView(c) == stable[Key(c)]

\* A transaction holds the gate of a SQLite handle; elsewhere a write waits for
\* the row's lock.
Turn(c) == dialect = "sqlite" => \A d \in Clients \ {c} : ~InTx(d)
Free(c) == Turn(c) /\ owner[Key(c)] \in {Nobody, c}

\* The row is what the other clients meet from now on.
Happens(c, row) ==
  /\ seen' = [d \in Clients |-> IF pc[d] # "idle" /\ Key(d) = Key(c) THEN seen[d] \cup ({row} \ {NoRow}) ELSE seen[d]]
  /\ current' = [current EXCEPT ![Key(c)] = row]
  /\ IF op[c].tx THEN owner' = [owner EXCEPT ![Key(c)] = c] /\ UNCHANGED stable
     ELSE stable' = [stable EXCEPT ![Key(c)] = row] /\ UNCHANGED owner

Did(c, row, what) ==
  did' = [d \in Clients |->
    IF d = c THEN [did[c] EXCEPT ![what] = TRUE]
    ELSE IF pc[d] # "idle" /\ Key(d) = Key(c) /\ row = NoRow THEN [did[d] EXCEPT !.lost = TRUE] ELSE did[d]]

Write(c, row, what) == Free(c) /\ Happens(c, row) /\ Did(c, row, what)
Untouched(c) == Free(c) /\ UNCHANGED <<table, seen, did>>
Unwritten == UNCHANGED <<table, seen, did>>

Goto(c, place) == pc' = [pc EXCEPT ![c] = place]
Ended(c) == IF op[c].tx THEN "commit" ELSE "answered"
Answer(c, kind, row, created) ==
  /\ answer' = [answer EXCEPT ![c] = [kind |-> kind, row |-> row, created |-> created]]
  /\ Goto(c, Ended(c)) /\ UNCHANGED local
Read(c, field, row) == local' = [local EXCEPT ![c][field] = row] /\ UNCHANGED answer
Unchanged == UNCHANGED <<dialect, op, started>>
Rest == Unchanged /\ UNCHANGED snap

New(c) == op[c].data
\* The extra filters of update and delete, compiled as AND predicates.
Matches(c, row) == row # NoRow /\ (op[c].extra = {} \/ row.v \in op[c].extra)
Changed(c, row) == [row EXCEPT !.v = New(c).v]
---------------------------------------------------------------------------
(* Statements, by the operation they belong to. *)

\* Where the call has to read before it writes.
FirstStatement(call) ==
  IF \/ call.verb = "update" /\ call.back /\ ~supportsUpdateReturning
     \/ call.verb = "delete" /\ call.back /\ ~supportsReturning
     \/ call.verb = "upsert" /\ ~supportsReturning THEN "pre"
  ELSE IF call.verb = "findOrCreate" THEN IF supportsXmax THEN "conflict" ELSE "find"
  ELSE IF call.verb = "create" THEN "insert" ELSE call.verb

Begin(c, call) ==
  /\ op' = [op EXCEPT ![c] = call] /\ Goto(c, FirstStatement(call))
  /\ seen' = [seen EXCEPT ![c] = {stable[call.key], current[call.key]} \ {NoRow}]

\* Only updates and deletes take extra filters and may leave their row unasked;
\* the hard ones have a filter, which the row as they leave it does not match.
Conditional(call) == call.extra # {} /\ call.data.v \notin call.extra
Calls ==
  {call \in [verb : {"create", "findOrCreate", "upsert", "update", "delete"}, key : Keys,
             extra : {{w} : w \in Values} \cup {{}}, data : [id : {started + 1}, v : Values],
             back : BOOLEAN, tx : BOOLEAN] :
     IF call.verb \in {"update", "delete"} THEN Unconditional \/ Conditional(call)
     ELSE call.extra = {} /\ call.back}

Start(c) ==
  /\ pc[c] = "idle" /\ started < MaxOps /\ Turn(c)
  /\ \E call \in Calls : Begin(c, call)
  /\ started' = started + 1
  /\ UNCHANGED <<dialect, table, local, answer, did, snap>>

\* findOrCreate on PostgreSQL: INSERT ... ON CONFLICT DO UPDATE, xmax = 0.
InsertOrReturn(c) ==
  /\ pc[c] = "conflict"
  /\ LET row == current[Key(c)]
     IN IF row = NoRow THEN Write(c, New(c), "inserted") /\ Answer(c, "row", New(c), TRUE)
        ELSE Untouched(c) /\ Answer(c, "row", row, FALSE)
  /\ Rest

\* The lookup of findOrCreateWithoutReturning.
Find(c) ==
  /\ pc[c] = "find" /\ Turn(c) /\ Unwritten
  /\ FirstRead(c) /\ Unchanged
  /\ IF FirstView(c) # NoRow THEN Answer(c, "row", FirstView(c), FALSE)
     ELSE Goto(c, "insert") /\ UNCHANGED <<local, answer>>

\* A unique violation is an error of create, and a retry of findOrCreate.
Duplicate(c) ==
  IF op[c].verb = "findOrCreate" THEN Goto(c, "retry") /\ UNCHANGED <<local, answer>>
  ELSE Answer(c, "error", NoRow, FALSE)

\* runCreate: RETURNING, or a reload by the primary key.
Insert(c) ==
  /\ pc[c] = "insert"
  /\ IF current[Key(c)] # NoRow THEN Untouched(c) /\ Duplicate(c)
     ELSE /\ Write(c, New(c), "inserted")
          /\ IF supportsReturning THEN Answer(c, "row", New(c), TRUE)
             ELSE Goto(c, "inserted") /\ UNCHANGED <<local, answer>>
  /\ Rest

\* fetchInsertedRow: an INSERT that finds nothing to return fails.
FetchInserted(c) ==
  /\ pc[c] = "inserted" /\ Turn(c) /\ Unwritten
  /\ IF View(c) # NoRow /\ View(c).id = New(c).id THEN Answer(c, "row", View(c), TRUE)
     ELSE Answer(c, "error", NoRow, FALSE)
  /\ Rest

\* Mutant: what the retry finds is reported as created.
RetryCreated(c) ==
  /\ pc[c] = "retry" /\ Turn(c) /\ Unwritten
  /\ IF View(c) # NoRow THEN Answer(c, "row", View(c), TRUE) ELSE Answer(c, "error", NoRow, FALSE)
  /\ Rest

\* The lookup after a unique violation.
Retry(c) ==
  /\ pc[c] = "retry" /\ Turn(c) /\ Unwritten
  /\ IF View(c) # NoRow THEN Answer(c, "row", View(c), FALSE) ELSE Answer(c, "error", NoRow, FALSE)
  /\ Rest

\* The row before the write: upsert by its key, update and delete by the filter.
PreRead(c) ==
  /\ pc[c] = "pre" /\ Turn(c) /\ Unwritten
  /\ FirstRead(c) /\ Unchanged
  /\ IF op[c].verb = "upsert" \/ Matches(c, FirstView(c)) THEN Read(c, "pre", FirstView(c)) /\ Goto(c, op[c].verb)
     ELSE Answer(c, "null", NoRow, FALSE)

\* INSERT ... ON CONFLICT DO UPDATE, or ON DUPLICATE KEY UPDATE.
Upsert(c) ==
  /\ pc[c] = "upsert"
  /\ LET row == current[Key(c)]
         result == IF row = NoRow THEN New(c) ELSE Changed(c, row)
     IN /\ Write(c, result, IF row = NoRow THEN "inserted" ELSE "changed")
        /\ IF supportsReturning THEN Answer(c, "row", result, FALSE)
           ELSE Goto(c, "reload") /\ UNCHANGED <<local, answer>>
  /\ Rest

Update(c) ==
  /\ pc[c] = "update"
  /\ LET row == current[Key(c)]
         reload == op[c].back /\ ~supportsUpdateReturning
     IN IF Matches(c, row)
        THEN /\ Write(c, Changed(c, row), "changed")
             /\ IF reload THEN Goto(c, "reload") /\ UNCHANGED <<local, answer>>
                ELSE Answer(c, "row", Changed(c, row), FALSE)
        ELSE /\ Untouched(c)
             /\ IF reload THEN Goto(c, "reload") /\ UNCHANGED <<local, answer>>
                ELSE Answer(c, "null", NoRow, FALSE)
  /\ Rest

\* Without RETURNING the row read before is the answer, whatever DELETE did.
Delete(c) ==
  /\ pc[c] = "delete"
  /\ LET row == current[Key(c)]
         known == op[c].back /\ ~supportsReturning
     IN IF Matches(c, row)
        THEN Write(c, NoRow, "changed") /\ Answer(c, "row", IF known THEN local[c].pre ELSE row, FALSE)
        ELSE /\ Untouched(c)
             /\ IF known THEN Answer(c, "row", local[c].pre, FALSE) ELSE Answer(c, "null", NoRow, FALSE)
  /\ Rest

\* Mutant: the row asked for, not the row read before.
FallbackRequested(c) == New(c)

\* reloaded[0] ?? preRows[0] ?? the request.
Fallback(c) == IF local[c].pre # NoRow THEN local[c].pre ELSE New(c)

\* The re-select after a write: upsert by its key, update by the primary key.
Reload(c) ==
  /\ pc[c] = "reload" /\ Turn(c) /\ Unwritten
  /\ LET row == View(c)
         found == row # NoRow /\ (op[c].verb = "upsert" \/ row.id = local[c].pre.id)
     IN Answer(c, "row", IF found THEN row ELSE Fallback(c), FALSE)
  /\ Rest

\* COMMIT of the user's transaction, or ROLLBACK because the operation threw.
EndTransaction(c) ==
  /\ pc[c] = "commit"
  /\ LET mine == {k \in Keys : owner[k] = c}
         kept == answer[c].kind # "error"
     IN /\ stable' = [k \in Keys |-> IF k \in mine /\ kept THEN current[k] ELSE stable[k]]
        /\ current' = [k \in Keys |-> IF k \in mine /\ ~kept THEN stable[k] ELSE current[k]]
        /\ owner' = [k \in Keys |-> IF k \in mine THEN Nobody ELSE owner[k]]
  /\ Goto(c, "answered")
  /\ UNCHANGED <<local, answer, seen, did>> /\ Rest

End(c) ==
  /\ pc[c] = "answered"
  /\ Goto(c, "idle") /\ op' = [op EXCEPT ![c] = NoOp]
  /\ local' = [local EXCEPT ![c] = Unread] /\ answer' = [answer EXCEPT ![c] = Nothing]
  /\ snap' = [snap EXCEPT ![c] = [k \in Keys |-> NoRow]]
  /\ seen' = [seen EXCEPT ![c] = {}] /\ did' = [did EXCEPT ![c] = DidNothing]
  /\ UNCHANGED <<dialect, table, started>>

Finished == started = MaxOps /\ (\A c \in Clients : pc[c] = "idle") /\ UNCHANGED vars

Next ==
  \/ \E c \in Clients :
       \/ Start(c) \/ InsertOrReturn(c) \/ Find(c) \/ Insert(c) \/ FetchInserted(c) \/ Retry(c)
       \/ PreRead(c) \/ Upsert(c) \/ Update(c) \/ Delete(c) \/ Reload(c) \/ EndTransaction(c) \/ End(c)
  \/ Finished

Spec == Init /\ [][Next]_vars
---------------------------------------------------------------------------
(* Properties. *)

Answered(c, verbs) == pc[c] \in {"commit", "answered"} /\ op[c].verb \in verbs

\* Every row an operation answers was in the table while it ran; only an
\* upsert whose row another client took away may answer the request instead.
AnswersWereThere ==
  \A c \in Clients :
    Answered(c, {"create", "findOrCreate", "upsert", "update", "delete"}) /\ answer[c].kind = "row" /\ op[c].back =>
      \/ answer[c].row \in seen[c]
      \/ op[c].verb = "upsert" /\ did[c].lost

\* findOrCreate answers created exactly when its own INSERT made the row, and
\* outside a transaction it only fails when another client took away the row it lost to.
CreatedOrFound ==
  \A c \in Clients :
    Answered(c, {"findOrCreate"}) =>
      /\ answer[c].kind = "row" => (answer[c].created <=> did[c].inserted)
      /\ answer[c].kind = "error" => did[c].lost \/ op[c].tx

\* "if the extras do not match, the update touches 0 rows and returns null":
\* an update that answers a row changed one.
ConditionalUpdateIsAtomic ==
  \A c \in Clients : Answered(c, {"update"}) => (answer[c].kind = "row" <=> did[c].changed)
=============================================================================
