----------------------------- MODULE Transactions -----------------------------
(***************************************************************************)
(* db.$transaction as the drivers run it: one pinned connection, BEGIN, the *)
(* user's callback, nested callbacks under savepoints neoorm_sp_1, _2, ..., *)
(* COMMIT or ROLLBACK.  Block 0 is the outer callback and block c > 0 the   *)
(* nested one under neoorm_sp_c.  The callback is free: it may write, nest, *)
(* catch a nested failure, throw or return.  A command and its answer are   *)
(* one step: the connection runs commands in the order they are sent.       *)
(*                                                                          *)
(* The protocol is written four times in the code (pg pool and executor,    *)
(* mysql2, mariadb, SQLite); the differences are the Begin and Commit       *)
(* actions and what each engine does with a failing command.                *)
(***************************************************************************)
EXTENDS Naturals, Sequences

CONSTANTS
  Engines,          \* those a transaction may run on
  N,                \* bound: nested blocks in one transaction
  W,                \* bound: writes in one transaction
  MaxFaults,        \* bound: commands that fail of themselves
  Overlap,          \* callbacks may run nested blocks side by side (Promise.all)
  Swallow,          \* callbacks may catch the error of a plain query
  SavepointFaults   \* SAVEPOINT itself may fail

ASSUME EnginesAssumption == Engines \subseteq {"postgresql", "mysql", "sqlite"}
ASSUME BoundsAssumption == N \in Nat /\ W \in Nat /\ MaxFaults \in Nat
ASSUME ModesAssumption ==
  Overlap \in BOOLEAN /\ Swallow \in BOOLEAN /\ SavepointFaults \in BOOLEAN

Nested == 1..N
Blocks == 0..N
Writes == 1..W
Nobody == N + 1

VARIABLES
  engine,    \* the database engine, which does not change
  pc,        \* block -> where its callback or the code around it is
  parent,    \* nested block -> the block that opened it
  raised,    \* block -> an error its callback must still deal with
  counter,   \* savepointCounter
  poisoned,  \* state.poisoned
  owner,     \* write -> block whose query succeeded with it (history)
  inDoubt,   \* COMMIT took effect but its answer was lost (history)
  faults,    \* commands that failed of themselves so far
  began,     \* server: a transaction begun by BEGIN is open
  aborted,   \* server, postgresql: current transaction is aborted
  dead,      \* the connection is gone
  readonly,  \* server: READ ONLY transaction, or PRAGMA query_only
  stack,     \* server: open savepoints, oldest first
  layer,     \* server: uncommitted writes made directly above a savepoint
  durable    \* server: committed writes

client == <<pc, parent, raised, counter, poisoned, owner, inDoubt>>
server == <<began, aborted, dead, readonly, stack, layer, durable>>
vars == <<engine, pc, parent, raised, counter, poisoned, owner, inDoubt, faults,
          began, aborted, dead, readonly, stack, layer, durable>>

Running == {"body", "threw", "undone"}
Settled == {"idle", "resolved", "rejected"}
Answered == {"resolved", "rejected", "leaked"}   \* of the outer block

---------------------------------------------------------------------------
(* The server: what the engines do with each command. *)

Depth(c) == CHOOSE i \in DOMAIN stack : stack[i] = c
IsOpen(c) == \E i \in DOMAIN stack : stack[i] = c
Top == IF stack = <<>> THEN 0 ELSE stack[Len(stack)]
Empty == [b \in Blocks |-> {}]
Uncommitted == UNION {layer[b] : b \in Blocks}

\* The layers of the savepoints from depth i upwards.
Above(i) == {stack[j] : j \in i..Len(stack)}

\* SAVEPOINT: MySQL accepts it outside a transaction and forgets it; SQLite
\* opens a transaction with it.
ServerSavepoint(c) ==
  /\ stack' = IF began \/ engine = "sqlite" THEN Append(stack, c) ELSE stack
  /\ UNCHANGED <<began, aborted, dead, readonly, layer, durable>>

\* ROLLBACK TO keeps savepoint c, drops those above it, undoes their writes
\* and ends postgresql's aborted state.
ServerRollbackTo(c) ==
  /\ stack' = SubSeq(stack, 1, Depth(c))
  /\ layer' = [b \in Blocks |-> IF b \in Above(Depth(c)) THEN {} ELSE layer[b]]
  /\ aborted' = FALSE
  /\ UNCHANGED <<began, dead, readonly, durable>>

\* RELEASE drops savepoint c and those above it and keeps their writes one
\* level down; the level below the last savepoint is committed on the spot
\* when no BEGIN is open (SQLite).
ServerRelease(c) ==
  LET d == Depth(c)
      kept == UNION {layer[b] : b \in Above(d)}
      below == IF d = 1 THEN 0 ELSE stack[d - 1]
      atOnce == d = 1 /\ ~began
  IN /\ stack' = SubSeq(stack, 1, d - 1)
     /\ layer' = [b \in Blocks |->
                    CASE b \in Above(d) -> {}
                      [] b = below /\ ~atOnce -> layer[b] \cup kept
                      [] OTHER -> layer[b]]
     /\ durable' = IF atOnce THEN durable \cup kept ELSE durable
     /\ UNCHANGED <<began, aborted, dead, readonly>>

\* Outside any transaction a write commits by itself.
ServerWrite(w) ==
  /\ IF began \/ stack # <<>>
     THEN /\ layer' = [layer EXCEPT ![Top] = @ \cup {w}]
          /\ UNCHANGED durable
     ELSE /\ durable' = durable \cup {w}
          /\ UNCHANGED layer
  /\ UNCHANGED <<began, aborted, dead, readonly, stack>>

\* The transaction ends, its writes kept or not; READ ONLY ends with it, but
\* PRAGMA query_only is the client's to turn off.
ServerEnd(kept, stillReadonly) ==
  /\ durable' = durable \cup kept
  /\ began' = FALSE /\ aborted' = FALSE
  /\ stack' = <<>> /\ layer' = Empty
  /\ readonly' = stillReadonly

\* A command is refused because of what happened before it.
Refused == (dead \/ aborted) /\ UNCHANGED <<server, faults>>

\* A command naming savepoint c is refused when c is not open.
NoSuchSavepoint(c) ==
  /\ ~dead /\ ~IsOpen(c)
  /\ aborted' = (engine = "postgresql" /\ began)
  /\ UNCHANGED <<began, dead, readonly, stack, layer, durable, faults>>

\* A command fails of itself: only the statement (which aborts postgresql's
\* transaction), the engine rolls the whole transaction back ("txn": MySQL
\* deadlock, SQLite disk full), or the connection dies.
Fault(kinds) ==
  /\ faults < MaxFaults /\ ~dead
  /\ faults' = faults + 1
  /\ \E kind \in kinds :
       /\ aborted => kind = "dead"
       /\ kind = "txn" => engine # "postgresql"
       /\ began' = (began /\ kind = "stmt")
       /\ stack' = IF kind = "stmt" THEN stack ELSE <<>>
       /\ layer' = IF kind = "stmt" THEN layer ELSE Empty
       /\ aborted' = (kind = "stmt" /\ engine = "postgresql" /\ began)
       /\ dead' = (kind = "dead")
  /\ UNCHANGED <<readonly, durable>>
---------------------------------------------------------------------------
(* The client. *)

\* A callback awaits each block it opens, or all of them before it returns.
HasRunning(b) == \E c \in Nested : parent[c] = b /\ pc[c] \in Running
Waiting(b) == ~Overlap /\ HasRunning(b)
InBody(b) == pc[b] = "body" /\ ~raised[b] /\ ~Waiting(b)
Returns(b) == InBody(b) /\ ~HasRunning(b)

\* An error reaches callback b from one of its own queries.
Raise(b) ==
  \E caught \in {FALSE, Swallow} : raised' = [raised EXCEPT ![b] = ~caught]

\* Block c rejects: the callback that awaits it catches the error or not.
RejectTo(c) ==
  \/ UNCHANGED raised
  \/ pc[parent[c]] = "body" /\ raised' = [raised EXCEPT ![parent[c]] = TRUE]

Init ==
  /\ engine \in Engines
  /\ pc = [b \in Blocks |-> "idle"]
  /\ parent = [c \in Nested |-> 0]
  /\ raised = [b \in Blocks |-> FALSE]
  /\ counter = 0 /\ poisoned = FALSE
  /\ owner = [w \in Writes |-> Nobody] /\ inDoubt = FALSE
  /\ faults = 0
  /\ began = FALSE /\ aborted = FALSE /\ dead = FALSE /\ readonly = FALSE
  /\ stack = <<>> /\ layer = Empty /\ durable = {}

Goto(b, place) == pc' = [pc EXCEPT ![b] = place]

BeginSucceeds ==
  /\ began' = TRUE
  /\ \E readOnly \in BOOLEAN : readonly' = readOnly
  /\ Goto(0, "body")
  /\ UNCHANGED <<aborted, dead, stack, layer, durable, faults>>

\* pool.connect failed, before the try: nothing to roll back.
NoConnection == Fault({"dead"}) /\ Goto(0, "rejected")

\* Mutant: the callback starts although BEGIN was never sent.
BeginForgotten ==
  /\ pc[0] = "idle" /\ Goto(0, "body")
  /\ UNCHANGED <<parent, raised, counter, poisoned, owner, inDoubt, faults, server>>

\* pg, mysql2 and mariadb: BEGIN is inside the try.
BeginPooled ==
  /\ engine \in {"postgresql", "mysql"} /\ pc[0] = "idle"
  /\ \/ BeginSucceeds
     \/ NoConnection
     \/ Fault({"stmt", "dead"}) /\ Goto(0, "threw")
  /\ UNCHANGED <<parent, raised, counter, poisoned, owner, inDoubt>>

\* db.exec(BEGIN) is before the try, PRAGMA query_only = ON inside it.
BeginSqlite ==
  /\ engine = "sqlite" /\ pc[0] = "idle"
  /\ \/ BeginSucceeds
     \/ Fault({"stmt"}) /\ Goto(0, "rejected")
     \/ /\ faults < MaxFaults /\ faults' = faults + 1
        /\ began' = TRUE /\ Goto(0, "threw")
        /\ UNCHANGED <<aborted, dead, readonly, stack, layer, durable>>
  /\ UNCHANGED <<parent, raised, counter, poisoned, owner, inDoubt>>

\* tx.query of a write: assertSavepointStackOpen, then the statement.
Query(b, w) ==
  /\ InBody(b)
  /\ owner[w] = Nobody /\ \A v \in 1..(w - 1) : owner[v] # Nobody
  /\ \/ /\ poisoned
        /\ Raise(b)
        /\ UNCHANGED <<owner, server, faults>>
     \/ /\ ~poisoned /\ ~dead /\ ~aborted /\ ~readonly
        /\ owner' = [owner EXCEPT ![w] = b]
        /\ ServerWrite(w)
        /\ UNCHANGED <<raised, faults>>
     \/ /\ ~poisoned
        /\ Raise(b)
        /\ Refused \/ Fault({"stmt", "txn", "dead"})
        /\ UNCHANGED owner
  /\ UNCHANGED <<pc, parent, counter, poisoned, inDoubt>>

\* A write in a read-only transaction is a statement error.
QueryReadonly(b) ==
  /\ InBody(b) /\ ~poisoned /\ readonly /\ ~dead /\ ~aborted
  /\ aborted' = (engine = "postgresql" /\ began)
  /\ Raise(b)
  /\ UNCHANGED <<pc, parent, counter, poisoned, owner, inDoubt, faults,
                 began, dead, readonly, stack, layer, durable>>

\* tx.transaction: assertNoSavepointOptions and assertSavepointStackOpen may
\* throw; otherwise SAVEPOINT, which runInSavepoint sends before its try.
NestRefused(b) ==
  /\ InBody(b) /\ counter < N
  /\ \E options \in BOOLEAN : options \/ poisoned
  /\ raised' \in {raised, [raised EXCEPT ![b] = TRUE]}
  /\ UNCHANGED <<pc, parent, counter, poisoned, owner, inDoubt, faults, server>>

Nest(b, c) ==
  /\ InBody(b) /\ c = counter + 1 /\ ~poisoned
  /\ counter' = c
  /\ parent' = [parent EXCEPT ![c] = b]
  /\ \/ /\ ~dead /\ ~aborted /\ (began \/ engine # "postgresql")
        /\ ServerSavepoint(c) /\ Goto(c, "body")
        /\ UNCHANGED <<raised, faults>>
     \/ /\ Goto(c, "rejected")
        /\ raised' \in {raised, [raised EXCEPT ![b] = TRUE]}
        /\ \/ Refused
           \/ Fault(IF SavepointFaults THEN {"stmt", "dead"} ELSE {"dead"})
           \/ engine = "postgresql" /\ ~began /\ UNCHANGED <<server, faults>>
  /\ UNCHANGED <<poisoned, owner, inDoubt>>

\* The nested callback returns: RELEASE, whose failure falls into the catch.
ReturnNested(c) ==
  /\ Returns(c)
  /\ \/ /\ ~dead /\ ~aborted /\ IsOpen(c)
        /\ ServerRelease(c) /\ Goto(c, "resolved")
        /\ UNCHANGED faults
     \/ /\ Goto(c, "threw")
        /\ Refused \/ NoSuchSavepoint(c) \/ Fault({"stmt", "dead"})
  /\ UNCHANGED <<parent, raised, counter, poisoned, owner, inDoubt>>

\* A callback throws, by itself or because an error reached it.
Throw(b) ==
  /\ pc[b] = "body" /\ ~Waiting(b)
  /\ Goto(b, "threw")
  /\ raised' = [raised EXCEPT ![b] = FALSE]
  /\ UNCHANGED <<parent, counter, poisoned, owner, inDoubt, faults, server>>

\* Mutant: a ROLLBACK TO that fails does not poison.
RollbackToNoPoison(c) ==
  /\ pc[c] = "threw"
  /\ \/ /\ ~dead /\ IsOpen(c)
        /\ ServerRollbackTo(c) /\ Goto(c, "undone")
        /\ UNCHANGED <<raised, faults>>
     \/ /\ Goto(c, "rejected") /\ RejectTo(c)
        /\ \/ dead /\ UNCHANGED <<server, faults>>
           \/ NoSuchSavepoint(c)
           \/ Fault({"stmt", "dead"})
  /\ UNCHANGED <<parent, counter, poisoned, owner, inDoubt>>

\* Mutant: the catch only releases the savepoint.
RollbackToSkipped(c) ==
  /\ pc[c] = "threw" /\ Goto(c, "undone")
  /\ UNCHANGED <<parent, raised, counter, poisoned, owner, inDoubt, faults, server>>

\* rollbackAndReleaseSavepoint, first half.
RollbackTo(c) ==
  /\ pc[c] = "threw"
  /\ \/ /\ ~dead /\ IsOpen(c)
        /\ ServerRollbackTo(c) /\ Goto(c, "undone")
        /\ UNCHANGED <<raised, poisoned, faults>>
     \/ /\ Goto(c, "rejected") /\ poisoned' = TRUE /\ RejectTo(c)
        /\ \/ dead /\ UNCHANGED <<server, faults>>
           \/ NoSuchSavepoint(c)
           \/ Fault({"stmt", "dead"})
  /\ UNCHANGED <<parent, counter, owner, inDoubt>>

\* Mutant: the catch only rolls back to the savepoint.
ReleaseSkipped(c) ==
  /\ pc[c] = "undone"
  /\ Goto(c, "rejected") /\ RejectTo(c)
  /\ UNCHANGED <<parent, counter, poisoned, owner, inDoubt, faults, server>>

\* rollbackAndReleaseSavepoint, second half.
ReleaseUndone(c) ==
  /\ pc[c] = "undone"
  /\ Goto(c, "rejected") /\ RejectTo(c)
  /\ \/ /\ ~dead /\ ~aborted /\ IsOpen(c)
        /\ ServerRelease(c)
        /\ UNCHANGED <<poisoned, faults>>
     \/ /\ poisoned' = TRUE
        /\ Refused \/ NoSuchSavepoint(c) \/ Fault({"stmt", "dead"})
  /\ UNCHANGED <<parent, counter, owner, inDoubt>>

\* The outer callback returned over a savepoint stack that is not closed:
\* SavepointStackError, and the catch rolls back.
ReturnPoisoned ==
  /\ Returns(0) /\ poisoned
  /\ Goto(0, "threw")
  /\ UNCHANGED <<parent, raised, counter, poisoned, owner, inDoubt, faults, server>>

CommitAccepted ==
  /\ ServerEnd(Uncommitted, FALSE) /\ Goto(0, "resolved")
  /\ UNCHANGED <<dead, inDoubt, faults>>

\* The connection dies under COMMIT, before or after the server ran it.
CommitLost ==
  /\ faults < MaxFaults /\ ~dead /\ ~aborted /\ faults' = faults + 1
  /\ dead' = TRUE /\ Goto(0, "threw")
  /\ \E done \in BOOLEAN :
       /\ ServerEnd(IF done THEN Uncommitted ELSE {}, readonly)
       /\ inDoubt' = done

CommitFailed == Goto(0, "threw") /\ UNCHANGED inDoubt /\ Refused

\* COMMIT of an aborted postgresql transaction rolls back and reports no error.
CommitPostgres ==
  /\ engine = "postgresql" /\ Returns(0) /\ ~poisoned
  /\ \/ ~dead /\ ~aborted /\ CommitAccepted
     \/ /\ ~dead /\ aborted
        /\ ServerEnd({}, FALSE) /\ Goto(0, "resolved")
        /\ UNCHANGED <<dead, inDoubt, faults>>
     \/ /\ faults < MaxFaults /\ ~dead /\ ~aborted   \* a deferred constraint
        /\ faults' = faults + 1 /\ ServerEnd({}, FALSE)
        /\ Goto(0, "threw") /\ UNCHANGED <<dead, inDoubt>>
     \/ CommitLost
     \/ dead /\ CommitFailed
  /\ UNCHANGED <<parent, raised, counter, poisoned, owner>>

\* With nothing open MySQL's COMMIT is a no-op that succeeds.
CommitMysql ==
  /\ engine = "mysql" /\ Returns(0) /\ ~poisoned
  /\ \/ ~dead /\ CommitAccepted
     \/ CommitLost
     \/ CommitFailed
  /\ UNCHANGED <<parent, raised, counter, poisoned, owner>>

\* SQLite refuses COMMIT when no transaction is open, and SQLITE_BUSY leaves
\* the transaction open for the ROLLBACK in the catch.
CommitSqlite ==
  /\ engine = "sqlite" /\ Returns(0) /\ ~poisoned
  /\ \/ began /\ CommitAccepted
     \/ /\ ~began /\ Goto(0, "threw")
        /\ UNCHANGED <<server, inDoubt, faults>>
     \/ Fault({"stmt"}) /\ Goto(0, "threw") /\ UNCHANGED inDoubt
  /\ UNCHANGED <<parent, raised, counter, poisoned, owner>>

\* Mutant: PRAGMA query_only stays on.
RollbackOuterStaysReadonly ==
  /\ pc[0] = "threw" /\ Goto(0, "rejected")
  /\ ServerEnd({}, readonly)
  /\ UNCHANGED <<dead, parent, raised, counter, poisoned, owner, inDoubt, faults>>

\* Mutant: ROLLBACK on a connection that is gone is awaited for ever.
RollbackOuterHangs ==
  /\ pc[0] = "threw" /\ ~dead
  /\ Goto(0, "rejected")
  /\ ServerEnd({}, FALSE)
  /\ UNCHANGED <<dead, parent, raised, counter, poisoned, owner, inDoubt, faults>>

\* ROLLBACK ends the transaction, or there is none left to end.
RolledBack == ServerEnd({}, FALSE) /\ Goto(0, "rejected") /\ UNCHANGED <<dead, faults>>

\* ROLLBACK fails on a connection that lives (a timeout of the client): its
\* error is swallowed and the transaction stays open on the connection.
Leaks ==
  /\ ~dead /\ faults < MaxFaults /\ faults' = faults + 1
  /\ readonly' = (readonly /\ engine # "sqlite")
  /\ Goto(0, "leaked")
  /\ UNCHANGED <<began, aborted, dead, stack, layer, durable>>

\* The catch and the finally: ROLLBACK whatever happens to it, PRAGMA
\* query_only = OFF on SQLite, and the connection goes back to the pool.
RollbackOuter ==
  /\ pc[0] = "threw"
  /\ RolledBack \/ Leaks
  /\ UNCHANGED <<parent, raised, counter, poisoned, owner, inDoubt>>

Begin == UNCHANGED engine /\ (BeginPooled \/ BeginSqlite)
Commit == CommitPostgres \/ CommitMysql \/ CommitSqlite

\* The steps the drivers take by themselves, and those the callback decides on.
Driver ==
  UNCHANGED engine /\ (RollbackOuter \/ \E c \in Nested : RollbackTo(c) \/ ReleaseUndone(c))
Leave(b) ==
  /\ UNCHANGED engine
  /\ Throw(b) \/ (b = 0 /\ (Commit \/ ReturnPoisoned)) \/ (b \in Nested /\ ReturnNested(b))
Use(b) ==
  /\ UNCHANGED engine
  /\ \/ \E w \in Writes : Query(b, w)
     \/ QueryReadonly(b) \/ NestRefused(b)
     \/ \E c \in Nested : Nest(b, c)

Finished ==
  /\ pc[0] \in Answered /\ \A c \in Nested : pc[c] \in Settled
  /\ UNCHANGED vars

Next ==
  \/ Begin \/ Driver
  \/ \E b \in Blocks : Leave(b) \/ Use(b)
  \/ Finished

Spec == Init /\ [][Next]_vars

\* The drivers' own steps are awaited, and every callback ends.
Fairness ==
  /\ WF_vars(Begin) /\ WF_vars(Driver)
  /\ \A b \in Blocks : WF_vars(Leave(b))
FairSpec == Spec /\ Fairness
---------------------------------------------------------------------------
(* Properties. *)

TypeOK ==
  /\ engine \in Engines
  /\ pc \in [Blocks -> {"idle", "body", "threw", "undone", "resolved", "rejected", "leaked"}]
  /\ parent \in [Nested -> Blocks]
  /\ raised \in [Blocks -> BOOLEAN]
  /\ counter \in 0..N /\ poisoned \in BOOLEAN
  /\ owner \in [Writes -> Blocks \cup {Nobody}] /\ inDoubt \in BOOLEAN
  /\ faults \in 0..MaxFaults
  /\ began \in BOOLEAN /\ aborted \in BOOLEAN /\ dead \in BOOLEAN
  /\ readonly \in BOOLEAN
  /\ stack \in Seq(Nested)
  /\ layer \in [Blocks -> SUBSET Writes] /\ durable \in SUBSET Writes

\* What the program was told of each block, and so what must be durable.
Promised ==
  INSTANCE NestedTransaction WITH
    status <- [b \in Blocks |->
                 CASE pc[b] = "idle" -> "idle"
                   [] pc[b] \in Running -> "open"
                   [] pc[b] = "resolved" -> "kept"
                   [] pc[b] \in {"rejected", "leaked"} -> "dropped"],
    durable <- IF pc[0] = "threw" /\ inDoubt THEN {} ELSE durable

\* The protocol implements the promise of docs/transactions.md: a nested
\* failure drops that block's writes and no others, COMMIT keeps the rest.
ImplementsNestedTransaction == Promised!Spec

\* A $transaction that rejects leaves nothing behind, unless the answer to
\* its COMMIT was lost: no statement runs after the engine gave up BEGIN.
RejectedLeavesNothing == pc[0] \in {"rejected", "leaked"} => durable = {} \/ inDoubt

\* A $transaction that resolves leaves exactly the writes of the blocks that
\* resolved inside blocks that resolved.
ResolvedKeepsSurvivors == pc[0] = "resolved" => durable = Promised!Surviving

\* docs/transactions.md: outer writes are kept even if the nested block failed.
OuterWritesAreKept ==
  pc[0] = "resolved" => \A w \in Writes : owner[w] = 0 => w \in durable

\* While nothing was lost, the server's savepoint stack is the chain of
\* running nested blocks: a savepoint that could not be popped poisons.
StackIsTheRunningChain ==
  began /\ ~poisoned =>
    /\ {stack[i] : i \in DOMAIN stack} = {c \in Nested : pc[c] \in Running}
    /\ \A i, j \in DOMAIN stack : i < j => stack[i] < stack[j]

\* The connection goes back to the pool (or the handle to the next caller)
\* outside any transaction, without savepoints and writable, unless its
\* ROLLBACK failed while it lived ("leaked"), which nobody is told of.
ReturnedClean ==
  pc[0] \in {"resolved", "rejected"} => ~began /\ stack = <<>> /\ ~readonly

\* Writes become durable in one step, the COMMIT of the outer transaction,
\* never one by one through an autocommitted statement or a RELEASE.
DurableOnlyAtCommit ==
  [][durable' # durable => pc[0] = "body" /\ pc'[0] # "body"]_vars

\* A transaction whose callback ends settles, whatever fails on the way.
EveryTransactionSettles ==
  pc[0] # "idle" ~> pc[0] \in Answered
=============================================================================
