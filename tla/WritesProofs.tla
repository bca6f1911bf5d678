----------------------------- MODULE WritesProofs -----------------------------
(***************************************************************************)
(* Proofs about Writes and RelationWrites as parts of MCParts: a behaviour   *)
(* is of one part from its first state on, and the part's own invariant is   *)
(* kept by its own steps.                                                    *)
(*                                                                           *)
(* What single-row writes answer, for any number of clients, keys, values    *)
(* and operations on every dialect: an invariant of each client about the    *)
(* rows its key may have, kept by its own statements and by those that other *)
(* clients run in between.                                                   *)
(*                                                                           *)
(* A nested relation write leaves the rows and links its operations ask for, *)
(* and only the one write that runs outside a transaction can fail leaving   *)
(* something behind, for any tables, arguments and engine: which statements  *)
(* are still to run says what the tables are.  Each kind of relation has the *)
(* stages its statements go through (InverseStage for a foreign key in the   *)
(* other table, LinkStage for links, OwnerStage for the parent's own foreign *)
(* key); every statement leads from one to the next, and the last is what    *)
(* was asked for.                                                            *)
(***************************************************************************)
EXTENDS MCParts, FiniteSetTheorems, TLAPS

(* Single-row writes: the lemmas are about that part, whose variables these are. *)
dialect == v1
current == v2
stable == v3
owner == v4
op == v5
statement == v6
local == v7
said == v8
snap == v9
started == v10
seen == v11
did == v12
USE DEF dialect, current, stable, owner, op, statement, local, said, snap, started, seen, did

Row == [id : Nat, v : Values]
RowOrNone == Row \cup {NoRow}

OpOf(verbs, keys, rows) ==
  [verb : verbs, key : keys, extra : SUBSET Values, data : rows, back : BOOLEAN, tx : BOOLEAN]
Verbs == {"create", "findOrCreate", "upsert", "update", "delete"}
\* The statements before the answer.
Places == {"conflict", "find", "insert", "inserted", "retry", "pre", "upsert", "update", "delete", "reload"}
Active(c) == statement[c] # "idle"

TableOK ==
  /\ current \in [Keys -> RowOrNone] /\ stable \in [Keys -> RowOrNone]
  /\ owner \in [Keys -> Clients \cup {Nobody}]
CallsOK ==
  /\ DOMAIN op = Clients
  /\ \A c \in Clients : Active(c) => op[c] \in OpOf(Verbs, Keys, Row)
  /\ statement \in [Clients -> Places \cup {"idle", "commit", "answered"}]
LocalsOK ==
  /\ local \in [Clients -> [pre : RowOrNone, row : RowOrNone]]
  /\ said \in [Clients -> [kind : {"none", "row", "null", "error"}, row : RowOrNone, created : BOOLEAN]]
  /\ snap \in [Clients -> [Keys -> RowOrNone]]
HistoryOK ==
  /\ started \in Nat
  /\ seen \in [Clients -> SUBSET Row]
  /\ did \in [Clients -> [inserted : BOOLEAN, changed : BOOLEAN, lost : BOOLEAN]]
WriteTypeOK == TableOK /\ CallsOK /\ LocalsOK /\ HistoryOK

\* A row nobody has locked is committed, and only a transaction that has not ended locks one.
Locks ==
  \A k \in Keys :
    /\ owner[k] = Nobody => stable[k] = current[k]
    /\ owner[k] # Nobody => op[owner[k]].tx /\ statement[owner[k]] \notin {"idle", "answered"}

\* A client between two operations has read, written and met nothing.
Cleared(c) ==
  ~Active(c) => local[c] = W!Unread /\ snap[c] = [k \in Keys |-> NoRow] /\ did[c] = W!DidNothing

\* Whatever a client has read or may read of its key's row was there while it ran.
ReadsWereThere(c) ==
  Active(c) => {stable[W!Key(c)], current[W!Key(c)], snap[c][W!Key(c)], local[c].pre} \subseteq seen[c] \cup {NoRow}

\* Which verb is at which statement.
AtItsPlace(c) ==
  /\ statement[c] \in {"conflict", "find", "retry"} => op[c].verb = "findOrCreate"
  /\ statement[c] \in {"insert", "inserted"} => op[c].verb \in {"create", "findOrCreate"}
  /\ statement[c] \in {"upsert", "update", "delete"} => op[c].verb = statement[c]
  /\ statement[c] = "pre" => op[c].verb \in {"upsert", "update", "delete"}
  /\ statement[c] = "reload" => op[c].verb \in {"upsert", "update"}

\* A row is there for everyone, committed and uncommitted, and it is this client's.
Present(c) == stable[W!Key(c)] # NoRow /\ current[W!Key(c)] # NoRow
Mine(c) == Present(c) /\ stable[W!Key(c)].id = W!New(c).id /\ current[W!Key(c)].id = W!New(c).id

\* The inserted row is still there when it is reloaded by its id.
InsertedStays(c) ==
  /\ statement[c] = "inserted" => did[c].inserted /\ (op[c].tx \/ did[c].lost \/ Mine(c))
  /\ statement[c] \in {"conflict", "find", "insert", "retry"} => ~did[c].inserted
\* The row that was in the way of an INSERT is still there for the retry.
RivalStays(c) == statement[c] = "retry" => op[c].tx \/ did[c].lost \/ Present(c)
\* What is read before an update or a delete that has to answer it is a row.
PreRowIsThere(c) ==
  /\ statement[c] = "update" /\ op[c].back /\ ~W!supportsUpdateReturning => local[c].pre # NoRow
  /\ statement[c] = "delete" /\ op[c].back /\ ~W!supportsReturning => local[c].pre # NoRow
  /\ statement[c] = "reload" /\ op[c].verb = "update" => local[c].pre # NoRow
\* The row an upsert has written is still there when it is reloaded.
UpsertedStays(c) ==
  statement[c] = "reload" /\ op[c].verb = "upsert" =>
    \/ did[c].lost
    \/ op[c].tx /\ owner[W!Key(c)] = c /\ current[W!Key(c)] # NoRow
    \/ ~op[c].tx /\ Present(c)
AnswerIsTrue(c) ==
  statement[c] \in {"commit", "answered"} =>
    /\ said[c].kind = "row" => said[c].row \in seen[c] \/ (op[c].verb = "upsert" /\ did[c].lost)
    /\ op[c].verb = "findOrCreate" /\ said[c].kind = "row" => (said[c].created <=> did[c].inserted)
    /\ op[c].verb = "findOrCreate" /\ said[c].kind = "error" => did[c].lost \/ op[c].tx

ClientOK(c) ==
  /\ Cleared(c) /\ ReadsWereThere(c) /\ AtItsPlace(c) /\ InsertedStays(c) /\ RivalStays(c)
  /\ PreRowIsThere(c) /\ UpsertedStays(c) /\ AnswerIsTrue(c)

WritesAreRight == WriteTypeOK /\ Locks /\ \A c \in Clients : ClientOK(c)
---------------------------------------------------------------------------
(* What one client does to the table, and what that is for the others. *)

\* A statement of c leaves the operation and the other clients' own state alone.
Statement(c) ==
  /\ Active(c) /\ UNCHANGED <<op, dialect, started>>
  /\ \A d \in Clients \ {c} :
       statement'[d] = statement[d] /\ local'[d] = local[d] /\ said'[d] = said[d] /\ snap'[d] = snap[d]

\* What a write of c leaves in the table, in the histories and in the locks.
LEMMA WriteDoes ==
  ASSUME WriteTypeOK, NEW c \in Clients, Active(c),
         NEW row \in RowOrNone, NEW what \in {"inserted", "changed"}, W!Write(c, row, what)
  PROVE  /\ TableOK'
         /\ owner[W!Key(c)] \in {Nobody, c} /\ W!Key(c) \in Keys
         /\ current'[W!Key(c)] = row
         /\ \A k \in Keys \ {W!Key(c)} : current'[k] = current[k] /\ stable'[k] = stable[k] /\ owner'[k] = owner[k]
         /\ op[c].tx => owner'[W!Key(c)] = c /\ stable'[W!Key(c)] = stable[W!Key(c)]
         /\ ~op[c].tx => owner'[W!Key(c)] = owner[W!Key(c)] /\ stable'[W!Key(c)] = row
<1>1. op[c] \in OpOf(Verbs, Keys, Row) /\ W!Key(c) \in Keys /\ owner[W!Key(c)] \in {Nobody, c}
  BY DEF WriteTypeOK, CallsOK, W!Key, OpOf, W!Write, W!Free
<1>2. /\ current' \in [Keys -> RowOrNone] /\ current'[W!Key(c)] = row
      /\ \A k \in Keys \ {W!Key(c)} : current'[k] = current[k]
  BY <1>1 DEF W!Write, W!Happens, WriteTypeOK, TableOK
<1>3. ASSUME op[c].tx
      PROVE  /\ owner' \in [Keys -> Clients \cup {Nobody}] /\ stable' \in [Keys -> RowOrNone]
             /\ owner'[W!Key(c)] = c /\ stable'[W!Key(c)] = stable[W!Key(c)]
             /\ \A k \in Keys \ {W!Key(c)} : stable'[k] = stable[k] /\ owner'[k] = owner[k]
  BY <1>1, <1>3 DEF W!Write, W!Happens, WriteTypeOK, TableOK
<1>4. ASSUME ~op[c].tx
      PROVE  /\ owner' \in [Keys -> Clients \cup {Nobody}] /\ stable' \in [Keys -> RowOrNone]
             /\ owner'[W!Key(c)] = owner[W!Key(c)] /\ stable'[W!Key(c)] = row
             /\ \A k \in Keys \ {W!Key(c)} : stable'[k] = stable[k] /\ owner'[k] = owner[k]
  BY <1>1, <1>4 DEF W!Write, W!Happens, WriteTypeOK, TableOK
<1> QED BY <1>1, <1>2, <1>3, <1>4 DEF TableOK

\* What it leaves in the histories.
LEMMA WriteIsSeen ==
  ASSUME WriteTypeOK, NEW c \in Clients, Active(c),
         NEW row \in RowOrNone, NEW what \in {"inserted", "changed"}, W!Write(c, row, what)
  PROVE  /\ seen' \in [Clients -> SUBSET Row] /\ seen'[c] = seen[c] \cup ({row} \ {NoRow})
         /\ did' \in [Clients -> [inserted : BOOLEAN, changed : BOOLEAN, lost : BOOLEAN]]
         /\ did'[c].lost = did[c].lost
         /\ IF what = "inserted" THEN did'[c].inserted ELSE did'[c].inserted = did[c].inserted
<1>1. seen' = [d \in Clients |-> IF Active(d) /\ W!Key(d) = W!Key(c) THEN seen[d] \cup ({row} \ {NoRow}) ELSE seen[d]]
  BY DEF W!Write, W!Happens, Active
<1>2. seen \in [Clients -> SUBSET Row] /\ ({row} \ {NoRow}) \subseteq Row
  BY DEF WriteTypeOK, HistoryOK, RowOrNone
<1>3. seen' \in [Clients -> SUBSET Row] /\ seen'[c] = seen[c] \cup ({row} \ {NoRow})
  BY <1>1, <1>2
<1>4. /\ did' \in [Clients -> [inserted : BOOLEAN, changed : BOOLEAN, lost : BOOLEAN]]
      /\ did'[c].lost = did[c].lost
      /\ IF what = "inserted" THEN did'[c].inserted ELSE did'[c].inserted = did[c].inserted
  BY DEF W!Write, W!Did, WriteTypeOK, HistoryOK
<1> QED BY <1>3, <1>4

\* Whom a write of c is news for.
LEMMA WriteTold ==
  ASSUME WriteTypeOK, NEW c \in Clients, NEW d \in Clients, d # c, Active(c),
         NEW row \in RowOrNone, NEW what \in {"inserted", "changed"}, W!Write(c, row, what)
  PROVE  /\ Active(d) /\ W!Key(d) = W!Key(c) =>
              /\ seen'[d] = seen[d] \cup ({row} \ {NoRow})
              /\ did'[d] = IF row = NoRow THEN [did[d] EXCEPT !.lost = TRUE] ELSE did[d]
         /\ ~(Active(d) /\ W!Key(d) = W!Key(c)) => seen'[d] = seen[d] /\ did'[d] = did[d]
  BY DEF W!Write, W!Happens, W!Did, WriteTypeOK, HistoryOK, Active

\* What the others rely on survives a write that adds a row, changes one or takes it away.
LEMMA OthersKeep ==
  ASSUME WritesAreRight, W!Distinct, NEW c \in Clients, NEW d \in Clients, d # c, Statement(c),
         NEW row \in RowOrNone, NEW what \in {"inserted", "changed"}, W!Write(c, row, what),
         row = NoRow \/ current[W!Key(c)] = NoRow \/ row.id = current[W!Key(c)].id
  PROVE  ClientOK(d)'
<1> USE DEF WritesAreRight
<1> DEFINE told == Active(d) /\ W!Key(d) = W!Key(c)
<1>1. /\ Active(c) /\ op' = op /\ dialect' = dialect
      /\ statement'[d] = statement[d] /\ local'[d] = local[d] /\ said'[d] = said[d] /\ snap'[d] = snap[d]
  BY DEF Statement
<1>2. /\ owner[W!Key(c)] \in {Nobody, c} /\ W!Key(c) \in Keys /\ current'[W!Key(c)] = row
      /\ \A k \in Keys \ {W!Key(c)} : current'[k] = current[k] /\ stable'[k] = stable[k] /\ owner'[k] = owner[k]
      /\ op[c].tx => owner'[W!Key(c)] = c /\ stable'[W!Key(c)] = stable[W!Key(c)]
      /\ ~op[c].tx => owner'[W!Key(c)] = owner[W!Key(c)] /\ stable'[W!Key(c)] = row
  BY <1>1, WriteDoes
<1>3. /\ told => /\ seen'[d] = seen[d] \cup ({row} \ {NoRow})
                 /\ did'[d] = IF row = NoRow THEN [did[d] EXCEPT !.lost = TRUE] ELSE did[d]
      /\ ~told => seen'[d] = seen[d] /\ did'[d] = did[d]
  BY <1>1, WriteTold
<1>4. /\ Active(d)' = Active(d) /\ W!Key(d)' = W!Key(d) /\ W!New(d)' = W!New(d)
      /\ (W!supportsReturning' = W!supportsReturning) /\ (W!supportsUpdateReturning' = W!supportsUpdateReturning)
      /\ Active(d) => W!Key(d) \in Keys
  BY <1>1 DEF Active, W!Key, W!New, W!supportsReturning, W!supportsUpdateReturning, W!MySqlFamily, WriteTypeOK, CallsOK, OpOf
<1>5. /\ did[d] \in [inserted : BOOLEAN, changed : BOOLEAN, lost : BOOLEAN]
      /\ did'[d].inserted = did[d].inserted
      /\ did[d].lost => did'[d].lost
      /\ told /\ row = NoRow => did'[d].lost
      /\ row # NoRow => did'[d] = did[d]
  BY <1>3 DEF WriteTypeOK, HistoryOK
<1>6. owner[W!Key(c)] # d
  BY <1>2 DEF W!Distinct
<1>7. Cleared(d)'
  BY <1>1, <1>3, <1>4 DEF Cleared, ClientOK
<1>8. ReadsWereThere(d)'
  <2> SUFFICES ASSUME Active(d)
               PROVE {stable'[W!Key(d)], current'[W!Key(d)], snap'[d][W!Key(d)], local'[d].pre} \subseteq seen'[d] \cup {NoRow}
    BY <1>4 DEF ReadsWereThere
  <2>1. {stable[W!Key(d)], current[W!Key(d)], snap[d][W!Key(d)], local[d].pre} \subseteq seen[d] \cup {NoRow}
    BY DEF ClientOK, ReadsWereThere
  <2>2. CASE W!Key(d) # W!Key(c)
    BY <1>1, <1>2, <1>3, <1>4, <2>1, <2>2
  <2>3. CASE W!Key(d) = W!Key(c)
    BY <1>1, <1>2, <1>3, <1>4, <2>1, <2>3
  <2> QED BY <2>2, <2>3
<1>9. AtItsPlace(d)'
  BY <1>1 DEF AtItsPlace, ClientOK
<1>10. InsertedStays(d)'
  <2>1. statement[d] \in {"conflict", "find", "insert", "retry"} => ~did'[d].inserted
    BY <1>5 DEF ClientOK, InsertedStays
  <2>2. ASSUME statement[d] = "inserted", ~op[d].tx, ~did'[d].lost PROVE Mine(d)'
    <3>1. Active(d) /\ Mine(d) /\ ~did[d].lost
      BY <1>5, <2>2 DEF ClientOK, InsertedStays, Active
    <3>2. CASE W!Key(d) # W!Key(c)
      BY <1>2, <1>4, <3>1, <3>2 DEF Mine, Present
    <3>3. CASE W!Key(d) = W!Key(c)
      <4>1. row # NoRow /\ row.id = W!New(d).id
        BY <1>5, <2>2, <3>1, <3>3 DEF Mine, Present
      <4> QED BY <1>2, <1>4, <3>1, <3>3, <4>1 DEF Mine, Present
    <3> QED BY <3>2, <3>3
  <2> QED BY <1>1, <1>5, <2>1, <2>2 DEF ClientOK, InsertedStays
<1>11. RivalStays(d)'
  <2> SUFFICES ASSUME statement[d] = "retry", ~op[d].tx, ~did'[d].lost PROVE Present(d)'
    BY <1>1 DEF RivalStays
  <2>1. Active(d) /\ Present(d)
    BY <1>5 DEF ClientOK, RivalStays, Active
  <2>2. W!Key(d) = W!Key(c) => row # NoRow
    BY <1>5, <2>1
  <2> QED BY <1>2, <1>4, <2>1, <2>2 DEF Present
<1>12. PreRowIsThere(d)'
  BY <1>1, <1>4 DEF PreRowIsThere, ClientOK
<1>13. UpsertedStays(d)'
  <2> SUFFICES ASSUME statement[d] = "reload", op[d].verb = "upsert", ~did'[d].lost
               PROVE \/ op[d].tx /\ owner'[W!Key(d)] = d /\ current'[W!Key(d)] # NoRow
                     \/ ~op[d].tx /\ Present(d)'
    BY <1>1, <1>4 DEF UpsertedStays
  <2>1. /\ Active(d)
        /\ \/ op[d].tx /\ owner[W!Key(d)] = d /\ current[W!Key(d)] # NoRow
           \/ ~op[d].tx /\ Present(d)
    BY <1>5 DEF ClientOK, UpsertedStays, Active
  <2>2. W!Key(d) = W!Key(c) => row # NoRow
    BY <1>5, <2>1
  <2> QED BY <1>2, <1>4, <1>6, <2>1, <2>2 DEF Present
<1>14. AnswerIsTrue(d)'
  BY <1>1, <1>3, <1>5 DEF AnswerIsTrue, ClientOK
<1> QED BY <1>7, <1>8, <1>9, <1>10, <1>11, <1>12, <1>13, <1>14 DEF ClientOK

\* A statement that writes nothing leaves the others as they were.
LEMMA OthersRest ==
  ASSUME WritesAreRight, NEW c \in Clients, NEW d \in Clients, d # c, Statement(c), W!Unwritten
  PROVE  ClientOK(d)'
<1>1. /\ op' = op /\ dialect' = dialect /\ current' = current /\ stable' = stable /\ owner' = owner
      /\ seen' = seen /\ did' = did
      /\ statement'[d] = statement[d] /\ local'[d] = local[d] /\ said'[d] = said[d] /\ snap'[d] = snap[d]
  BY DEF Statement, W!Unwritten, W!table
<1>2. ClientOK(d)
  BY DEF WritesAreRight
<1> QED
  BY <1>1, <1>2 DEF ClientOK, Cleared, ReadsWereThere, AtItsPlace, InsertedStays, RivalStays, PreRowIsThere,
     UpsertedStays, AnswerIsTrue, Active, W!Key, W!New, Mine, Present, W!supportsReturning, W!supportsUpdateReturning, W!MySqlFamily

\* The locks after a statement: c has one only if its transaction goes on.
LEMMA LocksAfterWrite ==
  ASSUME WritesAreRight, W!Distinct, NEW c \in Clients, Statement(c), statement'[c] # "idle", op[c].tx => statement'[c] # "answered",
         NEW row \in RowOrNone, NEW what \in {"inserted", "changed"}, W!Write(c, row, what)
  PROVE  Locks'
<1>1. /\ owner[W!Key(c)] \in {Nobody, c} /\ current'[W!Key(c)] = row
      /\ \A k \in Keys \ {W!Key(c)} : current'[k] = current[k] /\ stable'[k] = stable[k] /\ owner'[k] = owner[k]
      /\ op[c].tx => owner'[W!Key(c)] = c /\ stable'[W!Key(c)] = stable[W!Key(c)]
      /\ ~op[c].tx => owner'[W!Key(c)] = owner[W!Key(c)] /\ stable'[W!Key(c)] = row
  BY WriteDoes DEF Statement, WritesAreRight
<1>2. \A k \in Keys : owner[k] \in Clients \cup {Nobody}
  BY DEF WritesAreRight, WriteTypeOK, TableOK
<1> QED BY <1>1, <1>2 DEF Locks, WritesAreRight, Statement, W!Distinct

LEMMA LocksAfterRest ==
  ASSUME WritesAreRight, NEW c \in Clients, Statement(c), statement'[c] # "idle", op[c].tx => statement'[c] # "answered", W!Unwritten
  PROVE  Locks'
<1>1. \A k \in Keys : owner[k] \in Clients \cup {Nobody}
  BY DEF WritesAreRight, WriteTypeOK, TableOK
<1> QED BY <1>1 DEF Locks, WritesAreRight, Statement, W!Unwritten, W!table
---------------------------------------------------------------------------
(* What c itself goes through. *)

LEMMA ViewWasThere ==
  ASSUME WritesAreRight, NEW c \in Clients, Active(c)
  PROVE  /\ W!Key(c) \in Keys /\ op[c] \in OpOf(Verbs, Keys, Row) /\ W!New(c) \in Row
         /\ {W!View(c), W!FirstView(c), current[W!Key(c)], local[c].pre} \subseteq RowOrNone
         /\ {W!View(c), W!FirstView(c), current[W!Key(c)], local[c].pre} \subseteq seen[c] \cup {NoRow}
<1>1. op[c] \in OpOf(Verbs, Keys, Row) /\ W!Key(c) \in Keys /\ W!New(c) \in Row
  BY DEF WritesAreRight, WriteTypeOK, CallsOK, W!Key, W!New, OpOf
<1>2. {stable[W!Key(c)], current[W!Key(c)], snap[c][W!Key(c)], local[c].pre} \subseteq seen[c] \cup {NoRow}
  BY DEF WritesAreRight, ClientOK, ReadsWereThere
<1>3. {stable[W!Key(c)], current[W!Key(c)], snap[c][W!Key(c)], local[c].pre} \subseteq RowOrNone
  BY <1>1 DEF WritesAreRight, WriteTypeOK, TableOK, LocalsOK
<1>4. W!View(c) \in {stable[W!Key(c)], current[W!Key(c)], snap[c][W!Key(c)]} /\ W!FirstView(c) = stable[W!Key(c)]
  BY DEF W!View, W!FirstView
<1> QED BY <1>1, <1>2, <1>3, <1>4

\* c goes on to another statement, and what it has read changes at most in one field.
LEMMA Goes ==
  ASSUME WriteTypeOK, NEW c \in Clients, Active(c), UNCHANGED op,
         NEW place \in Places \cup {"commit", "answered"}, W!Goto(c, place)
  PROVE  /\ CallsOK' /\ statement'[c] = place /\ Active(c)'
         /\ \A d \in Clients \ {c} : statement'[d] = statement[d]
<1>1. /\ statement' \in [Clients -> Places \cup {"idle", "commit", "answered"}] /\ statement'[c] = place
      /\ \A d \in Clients \ {c} : statement'[d] = statement[d]
  BY DEF W!Goto, WriteTypeOK, CallsOK
<1>2. place # "idle"
  BY DEF Places
<1> QED BY <1>1, <1>2 DEF CallsOK, WriteTypeOK, Active

\* c answers.
LEMMA Answers ==
  ASSUME WriteTypeOK, NEW c \in Clients, Active(c), UNCHANGED op,
         NEW kind \in {"row", "null", "error"}, NEW row \in RowOrNone, NEW created \in BOOLEAN,
         W!Answer(c, kind, row, created)
  PROVE  /\ CallsOK' /\ statement'[c] = W!Ended(c) /\ Active(c)' /\ local' = local
         /\ said' \in [Clients -> [kind : {"none", "row", "null", "error"}, row : RowOrNone, created : BOOLEAN]]
         /\ said'[c] = [kind |-> kind, row |-> row, created |-> created]
         /\ \A d \in Clients \ {c} : statement'[d] = statement[d] /\ said'[d] = said[d]
<1>1. W!Ended(c) \in Places \cup {"commit", "answered"} /\ W!Goto(c, W!Ended(c))
  BY DEF W!Ended, W!Answer
<1>2. /\ CallsOK' /\ statement'[c] = W!Ended(c) /\ Active(c)'
      /\ \A d \in Clients \ {c} : statement'[d] = statement[d]
  BY <1>1, Goes
<1>3. said' = [said EXCEPT ![c] = [kind |-> kind, row |-> row, created |-> created]] /\ local' = local
  BY DEF W!Answer
<1>4. said \in [Clients -> [kind : {"none", "row", "null", "error"}, row : RowOrNone, created : BOOLEAN]]
  BY DEF WriteTypeOK, LocalsOK
<1> QED BY <1>2, <1>3, <1>4

\* The snapshot of c, which is what is committed now.
LEMMA FirstReads ==
  ASSUME WritesAreRight, NEW c \in Clients, Active(c), W!FirstRead(c)
  PROVE  /\ snap' \in [Clients -> [Keys -> RowOrNone]]
         /\ \A d \in Clients \ {c} : snap'[d] = snap[d]
         /\ snap'[c][W!Key(c)] \in {snap[c][W!Key(c)], stable[W!Key(c)]}
  BY DEF W!FirstRead, WritesAreRight, WriteTypeOK, TableOK, LocalsOK

\* An answer that is true makes a client right, as long as what it read was there.
LEMMA AnsweredRightly ==
  ASSUME NEW c \in Clients, statement'[c] \in {"commit", "answered"}, ReadsWereThere(c)', AnswerIsTrue(c)'
  PROVE  ClientOK(c)'
  BY DEF ClientOK, Cleared, AtItsPlace, InsertedStays, RivalStays, PreRowIsThere, UpsertedStays, Active

\* After its own write c may read that row, or what it could read before.
LEMMA WrittenWasThere ==
  ASSUME WritesAreRight, NEW c \in Clients, Statement(c), snap'[c] = snap[c], local'[c].pre = local[c].pre,
         NEW row \in RowOrNone, NEW what \in {"inserted", "changed"}, W!Write(c, row, what)
  PROVE  ReadsWereThere(c)'
<1>1. /\ W!Key(c) \in Keys /\ W!Key(c)' = W!Key(c) /\ Active(c)
      /\ current'[W!Key(c)] = row /\ stable'[W!Key(c)] \in {row, stable[W!Key(c)]}
      /\ seen'[c] = seen[c] \cup ({row} \ {NoRow})
  <2>1. Active(c) /\ WriteTypeOK /\ W!Key(c)' = W!Key(c)
    BY DEF Statement, WritesAreRight, W!Key
  <2>2. /\ W!Key(c) \in Keys /\ current'[W!Key(c)] = row
        /\ op[c].tx => stable'[W!Key(c)] = stable[W!Key(c)]
        /\ ~op[c].tx => stable'[W!Key(c)] = row
    BY <2>1, WriteDoes
  <2>3. seen'[c] = seen[c] \cup ({row} \ {NoRow})
    BY <2>1, WriteIsSeen
  <2> QED BY <2>1, <2>2, <2>3
<1>2. {stable[W!Key(c)], snap[c][W!Key(c)], local[c].pre} \subseteq seen[c] \cup {NoRow}
  BY <1>1 DEF WritesAreRight, ClientOK, ReadsWereThere
<1> QED BY <1>1, <1>2 DEF ReadsWereThere

\* After a statement that writes nothing c has read what it could read before.
LEMMA ReadWasThere ==
  ASSUME WritesAreRight, NEW c \in Clients, Statement(c), W!Unwritten,
         snap'[c][W!Key(c)] \in {snap[c][W!Key(c)], stable[W!Key(c)]}, local'[c].pre \in {local[c].pre, stable[W!Key(c)]}
  PROVE  ReadsWereThere(c)'
  BY DEF ReadsWereThere, WritesAreRight, ClientOK, Statement, W!Unwritten, W!table, W!Key

LEMMA RowsAre ==
  ASSUME WritesAreRight, W!Distinct, NEW c \in Clients, Active(c)
  PROVE  /\ NoRow \notin Row /\ W!New(c) \in Row
         /\ \A row \in Row : W!Changed(c, row) \in Row /\ W!Changed(c, row).id = row.id
<1>1. W!New(c) \in Row
  BY ViewWasThere
<1> QED BY <1>1 DEF W!Distinct, Row, W!Changed

\* A statement that writes keeps the invariant if c itself is right afterwards.
LEMMA AfterWrite ==
  ASSUME WritesAreRight, W!Distinct, NEW c \in Clients, Statement(c),
         NEW row \in RowOrNone, NEW what \in {"inserted", "changed"}, W!Write(c, row, what),
         row = NoRow \/ current[W!Key(c)] = NoRow \/ row.id = current[W!Key(c)].id,
         CallsOK', LocalsOK', statement'[c] # "idle", op[c].tx => statement'[c] # "answered", ClientOK(c)'
  PROVE  WritesAreRight'
<1>1. WriteTypeOK /\ Active(c) /\ started' = started
  BY DEF WritesAreRight, Statement
<1>2. TableOK'
  BY <1>1, WriteDoes
<1>3. HistoryOK'
  BY <1>1, WriteIsSeen DEF HistoryOK, WriteTypeOK
<1>4. Locks'
  BY LocksAfterWrite
<1>5. \A d \in Clients : ClientOK(d)'
  BY OthersKeep
<1> QED BY <1>2, <1>3, <1>4, <1>5 DEF WritesAreRight, WriteTypeOK

LEMMA AfterRest ==
  ASSUME WritesAreRight, NEW c \in Clients, Statement(c), W!Unwritten,
         CallsOK', LocalsOK', statement'[c] # "idle", op[c].tx => statement'[c] # "answered", ClientOK(c)'
  PROVE  WritesAreRight'
<1>1. TableOK' /\ HistoryOK'
  BY DEF WritesAreRight, WriteTypeOK, TableOK, HistoryOK, Statement, W!Unwritten, W!table
<1>2. Locks'
  BY LocksAfterRest
<1>3. \A d \in Clients : ClientOK(d)'
  BY OthersRest
<1> QED BY <1>1, <1>2, <1>3 DEF WritesAreRight, WriteTypeOK

\* c writes and answers.
LEMMA WritesAndAnswers ==
  ASSUME WritesAreRight, W!Distinct, NEW c \in Clients, Active(c), W!Rest,
         NEW row \in RowOrNone, NEW what \in {"inserted", "changed"}, W!Write(c, row, what),
         row = NoRow \/ current[W!Key(c)] = NoRow \/ row.id = current[W!Key(c)].id,
         NEW given \in Row, NEW created \in BOOLEAN, W!Answer(c, "row", given, created),
         given \in (seen[c] \cup {row}) \ {NoRow},
         op[c].verb = "findOrCreate" => created /\ what = "inserted"
  PROVE  WritesAreRight'
<1>1. /\ CallsOK' /\ statement'[c] = W!Ended(c) /\ Active(c)' /\ local' = local
      /\ said' \in [Clients -> [kind : {"none", "row", "null", "error"}, row : RowOrNone, created : BOOLEAN]]
      /\ said'[c] = [kind |-> "row", row |-> given, created |-> created]
      /\ \A d \in Clients \ {c} : statement'[d] = statement[d] /\ said'[d] = said[d]
  BY Answers DEF WritesAreRight, W!Rest, W!Unchanged, RowOrNone
<1>2. Statement(c) /\ snap' = snap
  BY <1>1 DEF Statement, W!Rest, W!Unchanged
<1>3. LocalsOK'
  BY <1>1, <1>2 DEF LocalsOK, WritesAreRight, WriteTypeOK
<1>4. statement'[c] # "idle" /\ (op[c].tx => statement'[c] # "answered") /\ statement'[c] \in {"commit", "answered"}
  BY <1>1 DEF W!Ended
<1>5. ReadsWereThere(c)'
  BY <1>1, <1>2, WrittenWasThere
<1>6. /\ seen'[c] = seen[c] \cup ({row} \ {NoRow})
      /\ what = "inserted" => did'[c].inserted
  BY WriteIsSeen DEF WritesAreRight
<1>7. given \in seen'[c]
  BY <1>6
<1>8. AnswerIsTrue(c)'
  <2>1. op' = op
    BY <1>2 DEF Statement
  <2> QED BY <1>1, <1>6, <1>7, <2>1 DEF AnswerIsTrue
<1>9. ClientOK(c)'
  BY <1>4, <1>5, <1>8, AnsweredRightly
<1> QED BY <1>1, <1>2, <1>3, <1>4, <1>9, AfterWrite

\* c answers without having written.
LEMMA RestsAndAnswers ==
  ASSUME WritesAreRight, NEW c \in Clients, Active(c), W!Unwritten, W!Unchanged, snap' = snap \/ W!FirstRead(c),
         NEW kind \in {"row", "null", "error"}, NEW row \in RowOrNone, NEW created \in BOOLEAN,
         W!Answer(c, kind, row, created),
         kind = "row" => row \in seen[c] \/ (op[c].verb = "upsert" /\ did[c].lost),
         op[c].verb = "findOrCreate" /\ kind = "row" => (created <=> did[c].inserted),
         op[c].verb = "findOrCreate" /\ kind = "error" => did[c].lost \/ op[c].tx
  PROVE  WritesAreRight'
<1>1. /\ CallsOK' /\ statement'[c] = W!Ended(c) /\ Active(c)' /\ local' = local
      /\ said' \in [Clients -> [kind : {"none", "row", "null", "error"}, row : RowOrNone, created : BOOLEAN]]
      /\ said'[c] = [kind |-> kind, row |-> row, created |-> created]
      /\ \A d \in Clients \ {c} : statement'[d] = statement[d] /\ said'[d] = said[d]
  BY Answers DEF WritesAreRight, W!Unchanged
<1>2. /\ snap' \in [Clients -> [Keys -> RowOrNone]]
      /\ \A d \in Clients \ {c} : snap'[d] = snap[d]
      /\ snap'[c][W!Key(c)] \in {snap[c][W!Key(c)], stable[W!Key(c)]}
  BY FirstReads DEF WritesAreRight, WriteTypeOK, LocalsOK
<1>3. Statement(c)
  BY <1>1, <1>2 DEF Statement, W!Unchanged
<1>4. LocalsOK'
  BY <1>1, <1>2 DEF LocalsOK, WritesAreRight, WriteTypeOK
<1>5. statement'[c] # "idle" /\ (op[c].tx => statement'[c] # "answered") /\ statement'[c] \in {"commit", "answered"}
  BY <1>1 DEF W!Ended
<1>6. ReadsWereThere(c)'
  BY <1>1, <1>2, <1>3, ReadWasThere
<1>7. AnswerIsTrue(c)'
  BY <1>1 DEF AnswerIsTrue, W!Unwritten, W!Unchanged
<1>8. ClientOK(c)'
  BY <1>5, <1>6, <1>7, AnsweredRightly
<1> QED BY <1>1, <1>3, <1>4, <1>5, <1>8, AfterRest

\* c has written or not, and goes on to read its row again or to try the INSERT.
LEMMA GoesOn ==
  ASSUME WritesAreRight, NEW c \in Clients, Active(c), W!Rest, UNCHANGED <<local, said>>,
         NEW place \in Places, W!Goto(c, place)
  PROVE  /\ Statement(c) /\ CallsOK' /\ LocalsOK' /\ statement'[c] = place
         /\ statement'[c] \notin {"idle", "commit", "answered"}
         /\ local' = local /\ snap' = snap
<1>1. /\ CallsOK' /\ statement'[c] = place
      /\ \A d \in Clients \ {c} : statement'[d] = statement[d]
  BY Goes DEF WritesAreRight, W!Rest, W!Unchanged
<1> QED BY <1>1 DEF Statement, W!Rest, W!Unchanged, LocalsOK, WritesAreRight, WriteTypeOK, Places
---------------------------------------------------------------------------
(* The statements. *)

LEMMA InsertOrReturnStep ==
  ASSUME WritesAreRight, W!Distinct, NEW c \in Clients, W!InsertOrReturn(c)
  PROVE  WritesAreRight'
<1>1. Active(c) /\ W!Rest /\ op[c].verb = "findOrCreate" /\ ~did[c].inserted
  BY DEF W!InsertOrReturn, Active, WritesAreRight, ClientOK, AtItsPlace, InsertedStays
<1>2. /\ W!New(c) \in Row /\ current[W!Key(c)] \in RowOrNone
      /\ current[W!Key(c)] \in seen[c] \cup {NoRow}
  BY <1>1, ViewWasThere
<1>3. NoRow \notin Row
  BY <1>1, RowsAre
<1>4. ASSUME current[W!Key(c)] = NoRow PROVE WritesAreRight'
  <2>1. W!Write(c, W!New(c), "inserted") /\ W!Answer(c, "row", W!New(c), TRUE)
    BY <1>4 DEF W!InsertOrReturn
  <2> QED BY <1>1, <1>2, <1>3, <1>4, <2>1, WritesAndAnswers DEF RowOrNone
<1>5. ASSUME current[W!Key(c)] # NoRow PROVE WritesAreRight'
  <2>1. W!Unwritten /\ W!Answer(c, "row", current[W!Key(c)], FALSE)
    BY <1>5 DEF W!InsertOrReturn, W!Untouched, W!Unwritten
  <2> QED BY <1>1, <1>2, <1>5, <2>1, RestsAndAnswers DEF W!Rest
<1> QED BY <1>4, <1>5

LEMMA FindStep ==
  ASSUME WritesAreRight, W!Distinct, NEW c \in Clients, W!Find(c)
  PROVE  WritesAreRight'
<1>1. /\ Active(c) /\ op[c].verb = "findOrCreate" /\ ~did[c].inserted
      /\ W!Unwritten /\ W!FirstRead(c) /\ W!Unchanged
  BY DEF W!Find, Active, WritesAreRight, ClientOK, AtItsPlace, InsertedStays
<1>2. W!FirstView(c) \in RowOrNone /\ W!FirstView(c) \in seen[c] \cup {NoRow}
  BY <1>1, ViewWasThere
<1>3. ASSUME W!FirstView(c) # NoRow PROVE WritesAreRight'
  <2>1. W!Answer(c, "row", W!FirstView(c), FALSE)
    BY <1>3 DEF W!Find
  <2> QED BY <1>1, <1>2, <1>3, <2>1, RestsAndAnswers
<1>4. ASSUME W!FirstView(c) = NoRow PROVE WritesAreRight'
  <2>1. W!Goto(c, "insert") /\ local' = local /\ said' = said
    BY <1>4 DEF W!Find
  <2>2. CallsOK' /\ statement'[c] = "insert" /\ \A d \in Clients \ {c} : statement'[d] = statement[d]
    BY <1>1, <2>1, Goes DEF WritesAreRight, W!Unchanged, Places
  <2>3. /\ snap' \in [Clients -> [Keys -> RowOrNone]]
        /\ \A d \in Clients \ {c} : snap'[d] = snap[d]
        /\ snap'[c][W!Key(c)] \in {snap[c][W!Key(c)], stable[W!Key(c)]}
    BY <1>1, FirstReads
  <2>4. Statement(c) /\ LocalsOK'
    BY <1>1, <2>1, <2>2, <2>3 DEF Statement, W!Unchanged, LocalsOK, WritesAreRight, WriteTypeOK
  <2>5. ReadsWereThere(c)'
    BY <1>1, <2>1, <2>3, <2>4, ReadWasThere
  <2>6. ClientOK(c)'
    BY <1>1, <2>2, <2>5 DEF ClientOK, Cleared, AtItsPlace, InsertedStays, RivalStays, PreRowIsThere, UpsertedStays,
       AnswerIsTrue, Active, W!Unwritten, W!Unchanged
  <2> QED BY <1>1, <2>2, <2>4, <2>6, AfterRest
<1> QED BY <1>3, <1>4

LEMMA InsertStep ==
  ASSUME WritesAreRight, W!Distinct, NEW c \in Clients, W!Insert(c)
  PROVE  WritesAreRight'
<1>1. /\ Active(c) /\ W!Rest /\ ~did[c].inserted
      /\ op[c].verb \in {"create", "findOrCreate"}
  BY DEF W!Insert, Active, WritesAreRight, ClientOK, AtItsPlace, InsertedStays
<1>2. W!New(c) \in Row /\ NoRow \notin Row /\ NoRow \in RowOrNone /\ W!Key(c) \in Keys
  BY <1>1, ViewWasThere, RowsAre DEF RowOrNone
<1>3. ASSUME current[W!Key(c)] # NoRow, op[c].verb = "create" PROVE WritesAreRight'
  <2>1. W!Unwritten /\ W!Answer(c, "error", NoRow, FALSE)
    BY <1>3 DEF W!Insert, W!Untouched, W!Unwritten, W!Duplicate
  <2> QED BY <1>1, <1>2, <1>3, <2>1, RestsAndAnswers DEF W!Rest
<1>4. ASSUME current[W!Key(c)] # NoRow, op[c].verb = "findOrCreate" PROVE WritesAreRight'
  <2>1. W!Unwritten /\ W!Free(c) /\ W!Goto(c, "retry") /\ UNCHANGED <<local, said>>
    BY <1>4 DEF W!Insert, W!Untouched, W!Unwritten, W!Duplicate
  <2>2. /\ Statement(c) /\ CallsOK' /\ LocalsOK' /\ statement'[c] = "retry"
        /\ local' = local /\ snap' = snap
    BY <1>1, <2>1, GoesOn DEF Places
  <2>3. ReadsWereThere(c)'
    BY <2>1, <2>2, ReadWasThere
  <2>4. op[c].tx \/ stable[W!Key(c)] = current[W!Key(c)]
    BY <1>2, <2>1 DEF W!Free, WritesAreRight, Locks
  <2>5. RivalStays(c)'
    BY <1>4, <2>1, <2>2, <2>4 DEF RivalStays, Present, Statement, W!Unwritten, W!table, W!Key
  <2>6. ClientOK(c)'
    BY <1>1, <1>4, <2>1, <2>2, <2>3, <2>5 DEF ClientOK, Cleared, AtItsPlace, InsertedStays, PreRowIsThere, UpsertedStays,
       AnswerIsTrue, Active, W!Unwritten, Statement
  <2> QED BY <2>1, <2>2, <2>6, AfterRest
<1>5. ASSUME current[W!Key(c)] = NoRow, W!supportsReturning PROVE WritesAreRight'
  <2>1. W!Write(c, W!New(c), "inserted") /\ W!Answer(c, "row", W!New(c), TRUE)
    BY <1>5 DEF W!Insert
  <2> QED BY <1>1, <1>2, <1>5, <2>1, WritesAndAnswers DEF RowOrNone
<1>6. ASSUME current[W!Key(c)] = NoRow, ~W!supportsReturning PROVE WritesAreRight'
  <2>1. W!Write(c, W!New(c), "inserted") /\ W!Goto(c, "inserted") /\ UNCHANGED <<local, said>>
    BY <1>6 DEF W!Insert
  <2>2. /\ Statement(c) /\ CallsOK' /\ LocalsOK' /\ statement'[c] = "inserted"
        /\ local' = local /\ snap' = snap
    BY <1>1, <2>1, GoesOn DEF Places
  <2>3. ReadsWereThere(c)'
    BY <1>2, <2>1, <2>2, WrittenWasThere DEF RowOrNone
  <2>4. /\ current'[W!Key(c)] = W!New(c)
        /\ ~op[c].tx => stable'[W!Key(c)] = W!New(c)
    BY <1>1, <1>2, <2>1, WriteDoes DEF WritesAreRight, RowOrNone
  <2>5. did'[c].inserted
    BY <1>1, <1>2, <2>1, WriteIsSeen DEF WritesAreRight, RowOrNone
  <2>6. InsertedStays(c)'
    <3>1. W!Key(c)' = W!Key(c) /\ W!New(c)' = W!New(c) /\ op' = op
      BY <2>2 DEF Statement, W!Key, W!New
    <3> QED BY <1>2, <2>2, <2>4, <2>5, <3>1 DEF InsertedStays, Mine, Present
  <2>7. ClientOK(c)'
    BY <1>1, <2>2, <2>3, <2>6 DEF ClientOK, Cleared, AtItsPlace, RivalStays, PreRowIsThere, UpsertedStays,
       AnswerIsTrue, Active, Statement
  <2> QED BY <1>2, <1>6, <2>1, <2>2, <2>7, AfterWrite DEF RowOrNone
<1> QED BY <1>1, <1>3, <1>4, <1>5, <1>6

LEMMA FetchInsertedStep ==
  ASSUME WritesAreRight, W!Distinct, NEW c \in Clients, W!FetchInserted(c)
  PROVE  WritesAreRight'
<1>1. /\ Active(c) /\ W!Rest /\ W!Unwritten /\ did[c].inserted
      /\ op[c].tx \/ did[c].lost \/ Mine(c)
  BY DEF W!FetchInserted, Active, WritesAreRight, ClientOK, InsertedStays
<1>2. W!View(c) \in RowOrNone /\ W!View(c) \in seen[c] \cup {NoRow}
  BY <1>1, ViewWasThere
<1>3. ASSUME W!View(c) # NoRow, W!View(c).id = W!New(c).id PROVE WritesAreRight'
  <2>1. W!Answer(c, "row", W!View(c), TRUE)
    BY <1>3 DEF W!FetchInserted
  <2> QED BY <1>1, <1>2, <1>3, <2>1, RestsAndAnswers DEF W!Rest
<1>4. ASSUME ~(W!View(c) # NoRow /\ W!View(c).id = W!New(c).id) PROVE WritesAreRight'
  <2>1. W!Answer(c, "error", NoRow, FALSE)
    BY <1>4 DEF W!FetchInserted
  <2>2. did[c].lost \/ op[c].tx
    BY <1>1, <1>4 DEF W!View, Mine, Present
  <2> QED BY <1>1, <2>1, <2>2, RestsAndAnswers DEF W!Rest, RowOrNone
<1> QED BY <1>3, <1>4

LEMMA RetryStep ==
  ASSUME WritesAreRight, W!Distinct, NEW c \in Clients, W!Retry(c)
  PROVE  WritesAreRight'
<1>1. /\ Active(c) /\ W!Rest /\ W!Unwritten /\ ~did[c].inserted
      /\ op[c].tx \/ did[c].lost \/ Present(c)
  BY DEF W!Retry, Active, WritesAreRight, ClientOK, InsertedStays, RivalStays
<1>2. W!View(c) \in RowOrNone /\ W!View(c) \in seen[c] \cup {NoRow}
  BY <1>1, ViewWasThere
<1>3. ASSUME W!View(c) # NoRow PROVE WritesAreRight'
  <2>1. W!Answer(c, "row", W!View(c), FALSE)
    BY <1>3 DEF W!Retry
  <2> QED BY <1>1, <1>2, <1>3, <2>1, RestsAndAnswers DEF W!Rest
<1>4. ASSUME W!View(c) = NoRow PROVE WritesAreRight'
  <2>1. W!Answer(c, "error", NoRow, FALSE)
    BY <1>4 DEF W!Retry
  <2>2. did[c].lost \/ op[c].tx
    BY <1>1, <1>4 DEF W!View, Present
  <2> QED BY <1>1, <2>1, <2>2, RestsAndAnswers DEF W!Rest, RowOrNone
<1> QED BY <1>3, <1>4

LEMMA PreReadStep ==
  ASSUME WritesAreRight, W!Distinct, NEW c \in Clients, W!PreRead(c)
  PROVE  WritesAreRight'
<1>1. /\ Active(c) /\ op[c].verb \in {"upsert", "update", "delete"}
      /\ W!Unwritten /\ W!FirstRead(c) /\ W!Unchanged
  BY DEF W!PreRead, Active, WritesAreRight, ClientOK, AtItsPlace
<1>2. W!FirstView(c) \in RowOrNone /\ W!FirstView(c) = stable[W!Key(c)]
  BY <1>1, ViewWasThere DEF W!FirstView
<1>3. ASSUME op[c].verb = "upsert" \/ W!Matches(c, W!FirstView(c)) PROVE WritesAreRight'
  <2>1. /\ local' = [local EXCEPT ![c]["pre"] = W!FirstView(c)] /\ said' = said
        /\ W!Goto(c, op[c].verb)
    BY <1>3 DEF W!PreRead, W!Read
  <2>2. CallsOK' /\ statement'[c] = op[c].verb /\ \A d \in Clients \ {c} : statement'[d] = statement[d]
    BY <1>1, <2>1, Goes DEF WritesAreRight, W!Unchanged, Places
  <2>3. /\ snap' \in [Clients -> [Keys -> RowOrNone]]
        /\ \A d \in Clients \ {c} : snap'[d] = snap[d]
        /\ snap'[c][W!Key(c)] \in {snap[c][W!Key(c)], stable[W!Key(c)]}
    BY <1>1, FirstReads
  <2>4. /\ local' \in [Clients -> [pre : RowOrNone, row : RowOrNone]]
        /\ local'[c].pre = W!FirstView(c) /\ \A d \in Clients \ {c} : local'[d] = local[d]
    BY <1>2, <2>1 DEF WritesAreRight, WriteTypeOK, LocalsOK
  <2>5. Statement(c) /\ LocalsOK'
    BY <1>1, <2>1, <2>2, <2>3, <2>4 DEF Statement, W!Unchanged, LocalsOK, WritesAreRight, WriteTypeOK
  <2>6. ReadsWereThere(c)'
    BY <1>1, <1>2, <2>3, <2>4, <2>5, ReadWasThere
  <2>7. PreRowIsThere(c)'
    BY <1>1, <1>3, <2>2, <2>4 DEF PreRowIsThere, W!Matches, W!Unchanged
  <2>8. ClientOK(c)'
    BY <1>1, <2>2, <2>6, <2>7 DEF ClientOK, Cleared, AtItsPlace, InsertedStays, RivalStays, UpsertedStays,
       AnswerIsTrue, Active, W!Unchanged
  <2> QED BY <1>1, <2>2, <2>5, <2>8, AfterRest
<1>4. ASSUME ~(op[c].verb = "upsert" \/ W!Matches(c, W!FirstView(c))) PROVE WritesAreRight'
  <2>1. W!Answer(c, "null", NoRow, FALSE)
    BY <1>4 DEF W!PreRead
  <2> QED BY <1>1, <2>1, RestsAndAnswers DEF RowOrNone
<1> QED BY <1>3, <1>4

LEMMA UpsertStep ==
  ASSUME WritesAreRight, W!Distinct, NEW c \in Clients, W!Upsert(c)
  PROVE  WritesAreRight'
<1> DEFINE result == IF current[W!Key(c)] = NoRow THEN W!New(c) ELSE W!Changed(c, current[W!Key(c)])
           what == IF current[W!Key(c)] = NoRow THEN "inserted" ELSE "changed"
<1>1. /\ Active(c) /\ W!Rest /\ op[c].verb = "upsert" /\ W!Write(c, result, what)
      /\ IF W!supportsReturning THEN W!Answer(c, "row", result, FALSE)
         ELSE W!Goto(c, "reload") /\ UNCHANGED <<local, said>>
  BY DEF W!Upsert, Active, WritesAreRight, ClientOK, AtItsPlace
<1>2. /\ result \in Row /\ NoRow \notin Row /\ what \in {"inserted", "changed"}
      /\ current[W!Key(c)] = NoRow \/ result.id = current[W!Key(c)].id
  BY <1>1, ViewWasThere, RowsAre DEF RowOrNone
<1> HIDE DEF result, what
<1>3. ASSUME W!supportsReturning PROVE WritesAreRight'
  BY <1>1, <1>2, <1>3, WritesAndAnswers DEF RowOrNone
<1>4. ASSUME ~W!supportsReturning PROVE WritesAreRight'
  <2>1. /\ Statement(c) /\ CallsOK' /\ LocalsOK' /\ statement'[c] = "reload"
        /\ local' = local /\ snap' = snap
    BY <1>1, <1>4, GoesOn DEF Places
  <2>2. ReadsWereThere(c)'
    BY <1>1, <1>2, <2>1, WrittenWasThere DEF RowOrNone
  <2>3. /\ current'[W!Key(c)] = result
        /\ op[c].tx => owner'[W!Key(c)] = c
        /\ ~op[c].tx => stable'[W!Key(c)] = result
    BY <1>1, <1>2, WriteDoes DEF WritesAreRight, RowOrNone
  <2>4. UpsertedStays(c)'
    <3>1. W!Key(c)' = W!Key(c) /\ op' = op
      BY <2>1 DEF Statement, W!Key
    <3> QED BY <1>2, <2>1, <2>3, <3>1 DEF UpsertedStays, Present
  <2>5. ClientOK(c)'
    BY <1>1, <2>1, <2>2, <2>4 DEF ClientOK, Cleared, AtItsPlace, InsertedStays, RivalStays, PreRowIsThere,
       AnswerIsTrue, Active, Statement
  <2> QED BY <1>1, <1>2, <2>1, <2>5, AfterWrite DEF RowOrNone
<1> QED BY <1>3, <1>4

LEMMA UpdateStep ==
  ASSUME WritesAreRight, W!Distinct, NEW c \in Clients, W!Update(c)
  PROVE  WritesAreRight'
<1> DEFINE row == current[W!Key(c)]
           reload == op[c].back /\ ~W!supportsUpdateReturning
<1>1. /\ Active(c) /\ W!Rest /\ op[c].verb = "update"
      /\ reload => local[c].pre # NoRow
  BY DEF W!Update, Active, WritesAreRight, ClientOK, AtItsPlace, PreRowIsThere
<1>2. row \in RowOrNone /\ W!Key(c) \in Keys /\ NoRow \notin Row
  BY <1>1, ViewWasThere, RowsAre
<1>3. reload => /\ UNCHANGED <<local, said>> /\ W!Goto(c, "reload")
                /\ IF W!Matches(c, row) THEN W!Write(c, W!Changed(c, row), "changed") ELSE W!Unwritten
  BY DEF W!Update, W!Untouched, W!Unwritten
<1>4. ~reload => IF W!Matches(c, row) THEN W!Write(c, W!Changed(c, row), "changed") /\ W!Answer(c, "row", W!Changed(c, row), FALSE)
                 ELSE W!Unwritten /\ W!Answer(c, "null", NoRow, FALSE)
  BY DEF W!Update, W!Untouched, W!Unwritten
<1>5. W!Matches(c, row) => row \in Row /\ W!Changed(c, row) \in Row /\ W!Changed(c, row).id = row.id
  BY <1>1, <1>2, RowsAre DEF W!Matches, RowOrNone
<1> HIDE DEF row
<1>6. ASSUME ~reload, W!Matches(c, row) PROVE WritesAreRight'
  BY <1>1, <1>2, <1>4, <1>5, <1>6, WritesAndAnswers DEF RowOrNone, row
<1>7. ASSUME ~reload, ~W!Matches(c, row) PROVE WritesAreRight'
  BY <1>1, <1>4, <1>7, RestsAndAnswers DEF W!Rest, RowOrNone
<1>8. ASSUME reload PROVE WritesAreRight'
  <2>1. /\ Statement(c) /\ CallsOK' /\ LocalsOK' /\ statement'[c] = "reload"
        /\ local' = local /\ snap' = snap
    BY <1>1, <1>3, <1>8, GoesOn DEF Places
  <2>2. ASSUME ReadsWereThere(c)' PROVE ClientOK(c)'
    BY <1>1, <1>8, <2>1, <2>2 DEF ClientOK, Cleared, AtItsPlace, InsertedStays, RivalStays, PreRowIsThere, UpsertedStays,
       AnswerIsTrue, Active, Statement
  <2>3. ASSUME W!Matches(c, row) PROVE WritesAreRight'
    <3>1. W!Write(c, W!Changed(c, row), "changed")
      BY <1>3, <1>8, <2>3
    <3>2. ReadsWereThere(c)'
      BY <1>5, <2>1, <2>3, <3>1, WrittenWasThere DEF RowOrNone
    <3> QED BY <1>5, <2>1, <2>2, <2>3, <3>1, <3>2, AfterWrite DEF RowOrNone, row
  <2>4. ASSUME ~W!Matches(c, row) PROVE WritesAreRight'
    <3>1. W!Unwritten
      BY <1>3, <1>8, <2>4
    <3>2. ReadsWereThere(c)'
      BY <2>1, <3>1, ReadWasThere
    <3> QED BY <2>1, <2>2, <3>1, <3>2, AfterRest
  <2> QED BY <2>3, <2>4
<1> QED BY <1>6, <1>7, <1>8

LEMMA DeleteStep ==
  ASSUME WritesAreRight, W!Distinct, NEW c \in Clients, W!Delete(c)
  PROVE  WritesAreRight'
<1> DEFINE row == current[W!Key(c)]
           known == op[c].back /\ ~W!supportsReturning
           given == IF known THEN local[c].pre ELSE row
<1>1. /\ Active(c) /\ W!Rest /\ op[c].verb = "delete"
      /\ known => local[c].pre # NoRow
  BY DEF W!Delete, Active, WritesAreRight, ClientOK, AtItsPlace, PreRowIsThere
<1>2. /\ {row, local[c].pre} \subseteq RowOrNone /\ NoRow \notin Row
      /\ {row, local[c].pre} \subseteq seen[c] \cup {NoRow}
  BY <1>1, ViewWasThere, RowsAre
<1>3. ASSUME W!Matches(c, row) PROVE WritesAreRight'
  <2>1. W!Write(c, NoRow, "changed") /\ W!Answer(c, "row", given, FALSE)
    BY <1>3 DEF W!Delete
  <2>2. given \in Row /\ given \in seen[c]
    BY <1>1, <1>2, <1>3 DEF W!Matches, RowOrNone
  <2> HIDE DEF given
  <2> QED BY <1>1, <1>2, <2>1, <2>2, WritesAndAnswers DEF RowOrNone
<1>4. ASSUME ~W!Matches(c, row) PROVE WritesAreRight'
  <2>1. /\ W!Unwritten
        /\ IF known THEN W!Answer(c, "row", local[c].pre, FALSE) ELSE W!Answer(c, "null", NoRow, FALSE)
    BY <1>4 DEF W!Delete, W!Untouched, W!Unwritten
  <2>2. CASE known
    BY <1>1, <1>2, <2>1, <2>2, RestsAndAnswers DEF W!Rest
  <2>3. CASE ~known
    BY <1>1, <2>1, <2>3, RestsAndAnswers DEF W!Rest, RowOrNone
  <2> QED BY <2>2, <2>3
<1> QED BY <1>3, <1>4

LEMMA ReloadStep ==
  ASSUME WritesAreRight, W!Distinct, NEW c \in Clients, W!Reload(c)
  PROVE  WritesAreRight'
<1> DEFINE row == W!View(c)
           found == row # NoRow /\ (op[c].verb = "upsert" \/ row.id = local[c].pre.id)
           given == IF found THEN row ELSE W!Fallback(c)
<1>1. /\ Active(c) /\ W!Rest /\ W!Unwritten /\ op[c].verb \in {"upsert", "update"}
      /\ W!Answer(c, "row", given, FALSE)
      /\ op[c].verb = "update" => local[c].pre # NoRow
      /\ op[c].verb = "upsert" => \/ did[c].lost
                                  \/ op[c].tx /\ owner[W!Key(c)] = c /\ current[W!Key(c)] # NoRow
                                  \/ ~op[c].tx /\ Present(c)
  BY DEF W!Reload, Active, WritesAreRight, ClientOK, AtItsPlace, PreRowIsThere, UpsertedStays
<1>2. /\ {row, local[c].pre} \subseteq RowOrNone /\ W!New(c) \in Row
      /\ {row, local[c].pre} \subseteq seen[c] \cup {NoRow}
  BY <1>1, ViewWasThere
<1>3. op[c].verb = "upsert" /\ ~did[c].lost => row # NoRow
  BY <1>1 DEF W!View, Present
<1>4. given \in RowOrNone
  BY <1>2 DEF W!Fallback, RowOrNone
<1>5. given \in seen[c] \/ (op[c].verb = "upsert" /\ did[c].lost)
  BY <1>1, <1>2, <1>3 DEF W!Fallback
<1> HIDE DEF given
<1> QED BY <1>1, <1>4, <1>5, RestsAndAnswers DEF W!Rest

\* COMMIT and ROLLBACK leave the row that is committed, or the one that was
\* only written, and both were there.
LEMMA EndTransactionStep ==
  ASSUME WritesAreRight, W!Distinct, NEW c \in Clients, W!EndTransaction(c)
  PROVE  WritesAreRight'
<1>1. /\ statement[c] = "commit" /\ Active(c) /\ W!Goto(c, "answered")
      /\ UNCHANGED <<dialect, op, started, snap, local, said, seen, did>>
  BY DEF W!EndTransaction, Active, W!Rest, W!Unchanged
<1>2. /\ CallsOK' /\ statement'[c] = "answered" /\ Active(c)'
      /\ \A d \in Clients \ {c} : statement'[d] = statement[d]
  BY <1>1, Goes DEF WritesAreRight
<1>3. /\ TableOK'
      /\ \A k \in Keys : /\ owner[k] = c => owner'[k] = Nobody /\ stable'[k] = current'[k]
                         /\ owner[k] # c => owner'[k] = owner[k] /\ stable'[k] = stable[k] /\ current'[k] = current[k]
                         /\ stable'[k] \in {stable[k], current[k]} /\ current'[k] \in {stable[k], current[k]}
  BY DEF W!EndTransaction, WritesAreRight, WriteTypeOK, TableOK
<1>4. WriteTypeOK'
  BY <1>1, <1>2, <1>3 DEF WritesAreRight, WriteTypeOK, LocalsOK, HistoryOK
<1>5. Locks'
  BY <1>1, <1>2, <1>3 DEF WritesAreRight, Locks, WriteTypeOK, TableOK, W!Distinct
<1>6. ASSUME NEW d \in Clients PROVE ClientOK(d)'
  <2>1. ClientOK(d) /\ (Active(d) => W!Key(d) \in Keys) /\ W!Key(d)' = W!Key(d) /\ W!New(d)' = W!New(d) /\ Active(d)' = Active(d)
    BY <1>1, <1>2, ViewWasThere DEF WritesAreRight, W!Key, W!New, Active
  <2>2. ReadsWereThere(d)'
    BY <1>1, <1>3, <2>1 DEF ClientOK, ReadsWereThere
  <2>3. CASE d = c
    <3>1. AnswerIsTrue(c)'
      BY <1>1, <2>1, <2>3 DEF ClientOK, AnswerIsTrue
    <3> QED BY <1>2, <2>2, <2>3, <3>1, AnsweredRightly
  <2>4. CASE d # c
    <3>1. statement'[d] = statement[d]
      BY <1>2, <2>4
    <3>2. Cleared(d)' /\ AtItsPlace(d)' /\ AnswerIsTrue(d)'
      BY <1>1, <2>1, <3>1 DEF ClientOK, Cleared, AtItsPlace, AnswerIsTrue
    <3>3. PreRowIsThere(d)'
      BY <1>1, <2>1, <3>1 DEF ClientOK, PreRowIsThere, W!supportsReturning, W!supportsUpdateReturning, W!MySqlFamily
    <3>4. Active(d) => (Present(d) => Present(d)') /\ (Mine(d) => Mine(d)')
      BY <1>3, <2>1 DEF Present, Mine
    <3>5. InsertedStays(d)' /\ RivalStays(d)'
      BY <1>1, <2>1, <3>1, <3>4 DEF ClientOK, InsertedStays, RivalStays, Active
    <3>6. UpsertedStays(d)'
      BY <1>1, <1>3, <2>1, <2>4, <3>1, <3>4 DEF ClientOK, UpsertedStays, Active
    <3> QED BY <2>2, <3>2, <3>3, <3>5, <3>6 DEF ClientOK
  <2> QED BY <2>3, <2>4
<1> QED BY <1>4, <1>5, <1>6 DEF WritesAreRight

\* The caller has its answer.
LEMMA EndStep ==
  ASSUME WritesAreRight, W!Distinct, NEW c \in Clients, W!End(c)
  PROVE  WritesAreRight'
<1>1. /\ statement[c] = "answered" /\ UNCHANGED <<dialect, current, stable, owner, started>>
      /\ statement' = [statement EXCEPT ![c] = "idle"] /\ op' = [op EXCEPT ![c] = W!NoOp]
      /\ local' = [local EXCEPT ![c] = W!Unread] /\ said' = [said EXCEPT ![c] = W!Nothing]
      /\ snap' = [snap EXCEPT ![c] = [k \in Keys |-> NoRow]]
      /\ seen' = [seen EXCEPT ![c] = {}] /\ did' = [did EXCEPT ![c] = W!DidNothing]
  BY DEF W!End, W!Goto, W!table
<1>2. /\ CallsOK' /\ statement'[c] = "idle"
      /\ \A d \in Clients \ {c} : statement'[d] = statement[d] /\ op'[d] = op[d]
  BY <1>1 DEF WritesAreRight, WriteTypeOK, CallsOK, Active
<1>3. /\ LocalsOK' /\ local'[c] = W!Unread /\ snap'[c] = [k \in Keys |-> NoRow]
      /\ \A d \in Clients \ {c} : local'[d] = local[d] /\ said'[d] = said[d] /\ snap'[d] = snap[d]
  BY <1>1 DEF WritesAreRight, WriteTypeOK, LocalsOK, W!Unread, W!Nothing, RowOrNone
<1>4. /\ HistoryOK' /\ did'[c] = W!DidNothing
      /\ \A d \in Clients \ {c} : seen'[d] = seen[d] /\ did'[d] = did[d]
  BY <1>1 DEF WritesAreRight, WriteTypeOK, HistoryOK, W!DidNothing
<1>5. WriteTypeOK'
  BY <1>1, <1>2, <1>3, <1>4 DEF WritesAreRight, WriteTypeOK, TableOK
<1>6. Locks'
  BY <1>1, <1>2 DEF WritesAreRight, Locks, WriteTypeOK, TableOK
<1>7. ClientOK(c)'
  BY <1>2, <1>3, <1>4 DEF ClientOK, Cleared, ReadsWereThere, AtItsPlace, InsertedStays, RivalStays, PreRowIsThere,
     UpsertedStays, AnswerIsTrue, Active
<1>8. ASSUME NEW d \in Clients, d # c PROVE ClientOK(d)'
  <2>1. ClientOK(d)
    BY DEF WritesAreRight
  <2> QED
    BY <1>1, <1>2, <1>3, <1>4, <1>8, <2>1 DEF ClientOK, Cleared, ReadsWereThere, AtItsPlace, InsertedStays, RivalStays,
       PreRowIsThere, UpsertedStays, AnswerIsTrue, Active, W!Key, W!New, Mine, Present,
       W!supportsReturning, W!supportsUpdateReturning, W!MySqlFamily
<1> QED BY <1>5, <1>6, <1>7, <1>8 DEF WritesAreRight

\* A new call, at the statement its verb and the dialect begin with.
LEMMA StartStep ==
  ASSUME WritesAreRight, W!Distinct, NEW c \in Clients, W!Start(c)
  PROVE  WritesAreRight'
<1>1. /\ statement[c] = "idle" /\ started' = started + 1
      /\ UNCHANGED <<dialect, current, stable, owner, local, said, did, snap>>
  BY DEF W!Start, W!table
<1>2. PICK call \in W!Calls : W!Begin(c, call)
  BY DEF W!Start
<1>3. call \in OpOf(Verbs, Keys, Row)
  <2>1. started + 1 \in Nat
    BY DEF WritesAreRight, WriteTypeOK, HistoryOK
  <2>2. /\ call.verb \in Verbs /\ call.key \in Keys /\ call.extra \in SUBSET Values
        /\ call.data \in [id : {started + 1}, v : Values] /\ call.back \in BOOLEAN /\ call.tx \in BOOLEAN
        /\ call = [verb |-> call.verb, key |-> call.key, extra |-> call.extra,
                   data |-> call.data, back |-> call.back, tx |-> call.tx]
    BY <1>2 DEF W!Calls, Verbs
  <2>3. call.data \in Row
    BY <2>1, <2>2 DEF Row
  <2> QED BY <2>2, <2>3 DEF OpOf
<1>4. call.verb \in Verbs /\ call.key \in Keys
  BY <1>3 DEF OpOf
<1> DEFINE place == W!FirstStatement(call)
<1>5. /\ op' = [op EXCEPT ![c] = call] /\ statement' = [statement EXCEPT ![c] = place]
      /\ seen' = [seen EXCEPT ![c] = {stable[call.key], current[call.key]} \ {NoRow}]
  BY <1>2 DEF W!Begin, W!Goto
<1>6. /\ place \in {"pre", "conflict", "find", "insert", "upsert", "update", "delete"}
      /\ place \in {"conflict", "find"} => call.verb = "findOrCreate"
      /\ place = "insert" => call.verb = "create"
      /\ place \in {"upsert", "update", "delete"} => call.verb = place
      /\ place = "pre" => call.verb \in {"upsert", "update", "delete"}
      /\ place = "update" => ~(call.back /\ ~W!supportsUpdateReturning)
      /\ place = "delete" => ~(call.back /\ ~W!supportsReturning)
  BY <1>4 DEF W!FirstStatement, Verbs
<1> HIDE DEF place
<1>7. /\ statement'[c] = place /\ \A d \in Clients \ {c} : statement'[d] = statement[d] /\ op'[d] = op[d]
      /\ op'[c] = call
      /\ DOMAIN op' = Clients /\ statement' \in [Clients -> Places \cup {"idle", "commit", "answered"}]
  BY <1>5, <1>6 DEF WritesAreRight, WriteTypeOK, CallsOK, Places
<1>8. op'[c] \in OpOf(Verbs, Keys, Row)
  BY <1>7, <1>3
<1>9. CallsOK'
  BY <1>7, <1>8 DEF CallsOK, WritesAreRight, WriteTypeOK, Active
<1>10. /\ {stable[call.key], current[call.key]} \ {NoRow} \subseteq Row
      /\ seen' \in [Clients -> SUBSET Row] /\ seen'[c] = {stable[call.key], current[call.key]} \ {NoRow}
      /\ \A d \in Clients \ {c} : seen'[d] = seen[d]
  <2>1. {stable[call.key], current[call.key]} \ {NoRow} \subseteq Row
    BY <1>4 DEF WritesAreRight, WriteTypeOK, TableOK, RowOrNone
  <2>2. seen \in [Clients -> SUBSET Row]
    BY DEF WritesAreRight, WriteTypeOK, HistoryOK
  <2> QED BY <1>5, <2>1, <2>2
<1>11. WriteTypeOK'
  BY <1>1, <1>9, <1>10 DEF WritesAreRight, WriteTypeOK, TableOK, LocalsOK, HistoryOK
<1>12. Locks'
  BY <1>1, <1>7 DEF WritesAreRight, Locks, WriteTypeOK, TableOK
<1>13. ClientOK(c)'
  <2>1. ~Active(c) /\ local[c] = W!Unread /\ snap[c] = [j \in Keys |-> NoRow] /\ did[c] = W!DidNothing
    BY <1>1 DEF WritesAreRight, ClientOK, Cleared, Active
  <2>2. Active(c)' /\ W!Key(c)' = call.key /\ op'[c] = call
    BY <1>7, <1>6 DEF Active, W!Key
  <2>3. ReadsWereThere(c)'
    BY <1>1, <1>10, <1>4, <2>1, <2>2 DEF ReadsWereThere, W!Unread
  <2>4. PreRowIsThere(c)'
    BY <1>1, <1>6, <1>7, <2>2 DEF PreRowIsThere, W!supportsReturning, W!supportsUpdateReturning, W!MySqlFamily
  <2> QED
    BY <1>1, <1>6, <1>7, <2>1, <2>2, <2>3, <2>4 DEF ClientOK, Cleared, AtItsPlace, InsertedStays, RivalStays,
       UpsertedStays, AnswerIsTrue, W!DidNothing
<1>14. ASSUME NEW d \in Clients, d # c PROVE ClientOK(d)'
  <2>1. ClientOK(d)
    BY DEF WritesAreRight
  <2> QED
    BY <1>1, <1>7, <1>10, <1>14, <2>1 DEF ClientOK, Cleared, ReadsWereThere, AtItsPlace, InsertedStays, RivalStays,
       PreRowIsThere, UpsertedStays, AnswerIsTrue, Active, W!Key, W!New, Mine, Present,
       W!supportsReturning, W!supportsUpdateReturning, W!MySqlFamily
<1> QED BY <1>11, <1>12, <1>13, <1>14 DEF WritesAreRight
---------------------------------------------------------------------------
(* The invariant, and what it says of the answers. *)

LEMMA WritesStart == W!Init => WritesAreRight
<1> SUFFICES ASSUME W!Init PROVE WritesAreRight
  OBVIOUS
<1>1. WriteTypeOK
  <2>1. [id : {0}, v : Values] \subseteq Row
    BY DEF Row
  <2>2. TableOK
    BY <2>1 DEF W!Init, TableOK, RowOrNone
  <2>3. CallsOK
    BY DEF W!Init, CallsOK, Active
  <2>4. LocalsOK
    BY DEF W!Init, LocalsOK, W!Unread, W!Nothing, RowOrNone
  <2>5. HistoryOK
    BY DEF W!Init, HistoryOK, W!DidNothing
  <2> QED BY <2>2, <2>3, <2>4, <2>5 DEF WriteTypeOK
<1>2. Locks
  BY DEF W!Init, Locks
<1>3. \A c \in Clients : ClientOK(c)
  BY DEF W!Init, ClientOK, Cleared, ReadsWereThere, AtItsPlace, InsertedStays, RivalStays, PreRowIsThere,
     UpsertedStays, AnswerIsTrue, Active
<1> QED BY <1>1, <1>2, <1>3 DEF WritesAreRight

LEMMA WritesStayRight == ASSUME WritesAreRight, W!Distinct, [W!Next]_(W!vars) PROVE WritesAreRight'
<1>1. CASE UNCHANGED W!vars
  BY <1>1 DEF WritesAreRight, WriteTypeOK, TableOK, CallsOK, LocalsOK, HistoryOK, Locks, ClientOK, Cleared, ReadsWereThere, AtItsPlace,
     InsertedStays, RivalStays, PreRowIsThere, UpsertedStays, AnswerIsTrue, Active, W!Key, W!New, Mine, Present,
     W!supportsReturning, W!supportsUpdateReturning, W!MySqlFamily, W!vars, W!table
<1>2. ASSUME NEW c \in Clients,
             \/ W!Start(c) \/ W!InsertOrReturn(c) \/ W!Find(c) \/ W!Insert(c) \/ W!FetchInserted(c) \/ W!Retry(c)
             \/ W!PreRead(c) \/ W!Upsert(c) \/ W!Update(c) \/ W!Delete(c) \/ W!Reload(c) \/ W!EndTransaction(c) \/ W!End(c)
      PROVE  WritesAreRight'
  BY <1>2, StartStep, InsertOrReturnStep, FindStep, InsertStep, FetchInsertedStep, RetryStep, PreReadStep, UpsertStep,
     UpdateStep, DeleteStep, ReloadStep, EndTransactionStep, EndStep
<1> QED BY <1>1, <1>2 DEF W!Next, W!Finished

LEMMA WritesAnswerRightly == WritesAreRight => W!AnswersWereThere /\ W!CreatedOrFound
  BY DEF WritesAreRight, ClientOK, AnswerIsTrue, W!AnswersWereThere, W!CreatedOrFound, W!Answered
---------------------------------------------------------------------------
WritesInv == part = "writes" => WritesAreRight

LEMMA WritesFromTheStart == Init => WritesInv
<1> SUFFICES ASSUME Init, part = "writes" PROVE WritesAreRight
  BY DEF WritesInv
<1>1. W!Init
  BY DEF Init
<1> QED BY <1>1, WritesStart

LEMMA WritesGoOn == WritesInv /\ [Next]_<<part, v1, v2, v3, v4, v5, v6, v7, v8, v9, v10, v11, v12, v13, v14>> => WritesInv'
<1> SUFFICES ASSUME WritesInv, [Next]_<<part, v1, v2, v3, v4, v5, v6, v7, v8, v9, v10, v11, v12, v13, v14>>,
                    part' = "writes"
             PROVE  WritesAreRight'
  BY DEF WritesInv
<1>1. part = "writes"
  BY DEF Next, WritesNext, RelationWritesNext, PaginateNext, RelationLoadNext, ManyWritesNext, StudioGridNext,
     AggregatesNext, ReadsNext, Kept
<1>2. WritesAreRight
  BY <1>1 DEF WritesInv
<1>3. [W!Next]_<<v1, <<v2, v3, v4>>, v5, v6, v7, v8, v9, v10, v11, v12>>
  BY <1>1 DEF Next, WritesNext, RelationWritesNext, PaginateNext, RelationLoadNext, ManyWritesNext, StudioGridNext,
     AggregatesNext, ReadsNext
<1>4. [W!Next]_(W!vars)
  BY <1>3 DEF W!vars, W!table
<1> QED BY <1>2, <1>4, WritesConstants, WritesStayRight

\* WritesAnswerTruly, for any number of clients, keys, values and operations.
THEOREM WritesAlwaysAnswerTruly == Spec => []WritesAnswerTruly
<1>1. WritesInv => WritesAnswerTruly
  BY WritesAnswerRightly DEF WritesInv, WritesAnswerTruly
<1> QED BY <1>1, WritesFromTheStart, WritesGoOn, PTL DEF Spec
---------------------------------------------------------------------------
(* Nested relation writes: the lemmas are about that part. *)
HIDE DEF dialect, current, stable, owner, op, statement, local, said, snap, started, seen, did

kind == v1
engine == v2
nullable == v3
cascade == v4
inTransaction == v5
bag == v6
db == v7
base == v8
todo == v9
phase == v10
USE DEF kind, engine, nullable, cascade, inTransaction, bag, db, base, todo, phase

LEMMA SameCount ==
  /\ \A S : R!Cardinality(S) = Cardinality(S)
  /\ \A S : R!IsFiniteSet(S) <=> IsFiniteSet(S)
  /\ \A f : R!IsInjective(f) <=> IsInjective(f)
BY DEF R!Cardinality, Cardinality, R!IsFiniteSet, IsFiniteSet, R!IsInjective, IsInjective

(* Sequences of statements. *)

Acts == {"parent", "remove", "unset", "point", "child", "findOrCreate", "unlink", "insert", "drop", "list", "error"}
Orders == (SUBSET Children) \cup {All}
Stmts == [do : Acts, rows : Orders]

\* The first statement and the rest.
LEMMA FirstOf ==
  ASSUME NEW S, NEW s \in S, NEW X \in Seq(S)
  PROVE  /\ <<s>> \o X \in Seq(S) /\ Head(<<s>> \o X) = s /\ Tail(<<s>> \o X) = X
         /\ <<s>> \o X # <<>> /\ ((Len(<<s>> \o X) = 1) <=> (X = <<>>))
<1>1. /\ <<s>> \in Seq(S) /\ Len(<<s>>) = 1 /\ <<s>>[1] = s /\ Len(X) \in Nat
      /\ DOMAIN X = 1 .. Len(X)
  OBVIOUS
<1>2. /\ <<s>> \o X \in Seq(S) /\ Len(<<s>> \o X) = 1 + Len(X) /\ (<<s>> \o X)[1] = s
      /\ \A i \in 1 .. Len(X) : (<<s>> \o X)[1 + i] = X[i]
  BY <1>1
<1>3. Head(<<s>> \o X) = s /\ <<s>> \o X # <<>>
  BY <1>2
<1>4. Tail(<<s>> \o X) = X
  <2> DEFINE T == Tail(<<s>> \o X)
  <2>1. T \in Seq(S) /\ Len(T) = Len(X) /\ \A i \in 1 .. Len(T) : T[i] = (<<s>> \o X)[i + 1]
    BY <1>1, <1>2, <1>3
  <2>2. \A i \in 1 .. Len(X) : T[i] = X[i]
    BY <1>1, <1>2, <2>1
  <2> HIDE DEF T
  <2> QED BY <1>1, <2>1, <2>2
<1>5. (Len(X) = 0) <=> (X = <<>>)
  OBVIOUS
<1> QED BY <1>1, <1>2, <1>3, <1>4, <1>5

\* Statements put before others.
LEMMA Joined ==
  ASSUME NEW S, NEW X \in Seq(S), NEW Y \in Seq(S), NEW Z \in Seq(S)
  PROVE  /\ X \o Y \in Seq(S) /\ (X \o Y) \o Z = X \o (Y \o Z) /\ X \o <<>> = X /\ <<>> \o X = X
OBVIOUS

\* A statement for each row of w.
OneByOne(do, w) == [i \in DOMAIN w |-> [do |-> do, rows |-> {w[i]}]]
Elements(w) == {w[i] : i \in DOMAIN w}

LEMMA OneByOneIs ==
  ASSUME NEW do \in Acts, NEW v \in Seq(Children)
  PROVE  /\ OneByOne(do, v) \in Seq(Stmts) /\ Len(OneByOne(do, v)) = Len(v)
         /\ \A i \in 1 .. Len(v) : OneByOne(do, v)[i] = [do |-> do, rows |-> {v[i]}]
<1>1. Len(v) \in Nat /\ DOMAIN v = 1 .. Len(v) /\ \A i \in 1 .. Len(v) : v[i] \in Children
  OBVIOUS
<1>2. \A i \in 1 .. Len(v) : [do |-> do, rows |-> {v[i]}] \in Stmts
  BY <1>1 DEF Stmts, Orders
<1> QED BY <1>1, <1>2 DEF OneByOne

LEMMA SameSeq ==
  ASSUME NEW S, NEW a \in Seq(S), NEW b \in Seq(S), Len(a) = Len(b), \A i \in 1 .. Len(a) : a[i] = b[i]
  PROVE  a = b
OBVIOUS

\* A statement for each row of a set is run one row after the other.
LEMMA NextOne ==
  ASSUME NEW do \in Acts, NEW w \in Seq(Children), NEW X \in Seq(Stmts), w # <<>>
  PROVE  /\ OneByOne(do, w) \o X = <<[do |-> do, rows |-> {Head(w)}]>> \o (OneByOne(do, Tail(w)) \o X)
         /\ Tail(w) \in Seq(Children) /\ Elements(w) = Elements(Tail(w)) \cup {Head(w)} /\ Head(w) \in Children
<1>1. /\ Len(w) \in Nat \ {0} /\ DOMAIN w = 1 .. Len(w) /\ Tail(w) \in Seq(Children) /\ Len(Tail(w)) = Len(w) - 1
      /\ Head(w) = w[1] /\ \A i \in 1 .. Len(w) : w[i] \in Children
  OBVIOUS
<1>2. DOMAIN Tail(w) = 1 .. (Len(w) - 1) /\ \A i \in 1 .. (Len(w) - 1) : Tail(w)[i] = w[i + 1]
  BY <1>1
<1>3. Elements(w) = Elements(Tail(w)) \cup {Head(w)}
  <2>1. ASSUME NEW i \in DOMAIN w PROVE w[i] \in Elements(Tail(w)) \cup {Head(w)}
    <3>1. CASE i = 1
      BY <1>1, <3>1
    <3>2. CASE i # 1
      <4>1. i - 1 \in 1 .. (Len(w) - 1) /\ Tail(w)[i - 1] = w[i]
        BY <1>1, <1>2, <3>2
      <4> QED BY <1>2, <4>1 DEF Elements
    <3> QED BY <3>1, <3>2
  <2>2. ASSUME NEW i \in DOMAIN Tail(w) PROVE Tail(w)[i] \in Elements(w)
    <3>1. i + 1 \in 1 .. Len(w) /\ Tail(w)[i] = w[i + 1]
      BY <1>1, <1>2
    <3> QED BY <1>1, <3>1 DEF Elements
  <2>3. Head(w) \in Elements(w)
    BY <1>1 DEF Elements
  <2> QED BY <2>1, <2>2, <2>3 DEF Elements
<1>4. OneByOne(do, w) \o X = <<[do |-> do, rows |-> {Head(w)}]>> \o (OneByOne(do, Tail(w)) \o X)
  <2> DEFINE AA == OneByOne(do, w)
             BB == OneByOne(do, Tail(w))
             s == [do |-> do, rows |-> {Head(w)}]
  <2>1. AA \in Seq(Stmts) /\ Len(AA) = Len(w) /\ \A i \in 1 .. Len(w) : AA[i] = [do |-> do, rows |-> {w[i]}]
    BY OneByOneIs
  <2>2. /\ BB \in Seq(Stmts) /\ Len(BB) = Len(w) - 1
        /\ \A i \in 1 .. (Len(w) - 1) : BB[i] = [do |-> do, rows |-> {Tail(w)[i]}]
    BY <1>1, OneByOneIs
  <2>3. s \in Stmts
    BY <1>1 DEF Stmts, Orders
  <2> HIDE DEF BB, s
  <2>4. <<s>> \o BB \in Seq(Stmts) /\ Len(<<s>> \o BB) = Len(w) /\ (<<s>> \o BB)[1] = s
        /\ \A i \in 1 .. (Len(w) - 1) : (<<s>> \o BB)[i + 1] = BB[i]
    <3>1. <<s>> \in Seq(Stmts) /\ Len(<<s>>) = 1 /\ <<s>>[1] = s
      BY <2>3
    <3>2. BB \in Seq(Stmts) /\ Len(BB) = Len(w) - 1
      BY <2>2
    <3>3. /\ <<s>> \o BB \in Seq(Stmts) /\ Len(<<s>> \o BB) = 1 + Len(BB) /\ (<<s>> \o BB)[1] = s
          /\ \A i \in 1 .. Len(BB) : (<<s>> \o BB)[1 + i] = BB[i]
      BY <3>1, <3>2
    <3>4. Len(<<s>> \o BB) = Len(w)
      <4>1. \A n \in Nat : 1 + (n - 1) = n
        OBVIOUS
      <4>2. Len(w) \in Nat
        BY <1>1
      <4>3. Len(<<s>> \o BB) = 1 + (Len(w) - 1)
        BY <3>2, <3>3
      <4> HIDE DEF AA
      <4> QED BY <4>1, <4>2, <4>3
    <3>5. ASSUME NEW i \in 1 .. (Len(w) - 1) PROVE (<<s>> \o BB)[i + 1] = BB[i]
      <4>1. i \in 1 .. Len(BB) /\ 1 + i = i + 1
        BY <1>1, <3>2
      <4>2. (<<s>> \o BB)[1 + i] = BB[i]
        BY <3>3, <4>1
      <4> QED BY <4>1, <4>2
    <3> QED BY <3>3, <3>4, <3>5
  <2>5. \A i \in 1 .. (Len(w) - 1) : BB[i] = AA[i + 1]
    <3>1. ASSUME NEW i \in 1 .. (Len(w) - 1) PROVE BB[i] = AA[i + 1]
      <4>1. i + 1 \in 1 .. Len(w) /\ Tail(w)[i] = w[i + 1]
        BY <1>1, <1>2
      <4>2. AA[i + 1] = [do |-> do, rows |-> {w[i + 1]}]
        BY <2>1, <4>1
      <4>3. BB[i] = [do |-> do, rows |-> {Tail(w)[i]}]
        BY <2>2
      <4> QED BY <4>1, <4>2, <4>3
    <3> QED BY <3>1
  <2>6. AA[1] = s
    BY <1>1, <2>1 DEF s
  <2> HIDE DEF AA
  <2>7. ASSUME NEW i \in 1 .. Len(w) PROVE AA[i] = (<<s>> \o BB)[i]
    <3>1. CASE i = 1
      BY <2>4, <2>6, <3>1
    <3>2. CASE i # 1
      <4>1. i - 1 \in 1 .. (Len(w) - 1) /\ (i - 1) + 1 = i
        BY <1>1, <3>2
      <4> QED BY <2>4, <2>5, <4>1
    <3> QED BY <3>1, <3>2
  <2>8. AA = <<s>> \o BB
    <3>1. Len(AA) = Len(<<s>> \o BB) /\ AA \in Seq(Stmts) /\ <<s>> \o BB \in Seq(Stmts) /\ Len(AA) = Len(w)
      BY <2>1, <2>4
    <3> QED BY <2>7, <3>1, SameSeq
  <2>9. <<s>> \in Seq(Stmts)
    BY <2>3
  <2> QED BY <2>2, <2>8, <2>9, Joined DEF AA, BB, s
<1> QED BY <1>1, <1>3, <1>4

LEMMA NoneLeft ==
  ASSUME NEW do, NEW X \in Seq(Stmts)
  PROVE  OneByOne(do, <<>>) \o X = X /\ OneByOne(do, <<>>) = <<>> /\ Elements(<<>>) = {}
<1>1. OneByOne(do, <<>>) = <<>>
  BY DEF OneByOne
<1> QED BY <1>1, Joined DEF Elements

\* The rows of a set, each once.
LEMMA SeqOfSet ==
  ASSUME IsFiniteSet(Children), NEW rows \in SUBSET Children
  PROVE  R!SetToSeq(rows) \in Seq(Children) /\ Elements(R!SetToSeq(rows)) = rows
<1> DEFINE n == Cardinality(rows)
           q == R!SetToSeq(rows)
<1>1. IsFiniteSet(rows)
  BY FS_Subset
<1>2. n \in Nat /\ ExistsBijection(1 .. n, rows)
  BY <1>1, FS_CardinalityType
<1>3. \E f \in [1 .. n -> rows] : R!IsInjective(f)
  BY <1>2, SameCount DEF ExistsBijection, Bijection, Injection
<1>4. q \in [1 .. n -> rows] /\ R!IsInjective(q)
  BY <1>3, SameCount DEF R!SetToSeq
<1> HIDE DEF q
<1>5. q \in Injection(1 .. n, rows)
  BY <1>4, SameCount DEF Injection
<1>6. IsFiniteSet(1 .. n) /\ Cardinality(1 .. n) = n
  <2>1. 1 \in Int /\ n \in Int /\ (IF 1 > n THEN 0 ELSE n - 1 + 1) = n
    BY <1>2
  <2> QED BY <2>1, FS_Interval
<1>7. q \in Surjection(1 .. n, rows)
  BY <1>1, <1>5, <1>6, FS_Injection
<1>8. \A r \in rows : \E i \in 1 .. n : q[i] = r
  BY <1>7 DEF Surjection
<1> HIDE DEF n
<1>9. q \in Seq(Children) /\ DOMAIN q = 1 .. n
  BY <1>2, <1>4
<1>10. Elements(q) = rows
  BY <1>4, <1>8, <1>9 DEF Elements
<1> QED BY <1>9, <1>10 DEF q

---------------------------------------------------------------------------
(* What one statement does. *)

Records ==
  [parent : [Parents -> {"old", "none", "new"}], child : [Children -> Parents \cup {Nobody, Gone}],
   link : SUBSET (Parents \X Children), ref : [Parents -> Children \cup {Nobody}]]

\* The tables after each kind of statement.
LEMMA Effects ==
  ASSUME NEW r
  PROVE  /\ R!Effect([do |-> "remove", rows |-> r]) = R!SetChildren(R!Named(r) \cap R!Related(db), Gone)
         /\ R!Effect([do |-> "unset", rows |-> r]) = R!SetChildren(R!Named(r) \cap R!Related(db), Nobody)
         /\ R!Effect([do |-> "point", rows |-> r]) = R!SetChildren(r \cap R!Exist, Subject)
         /\ R!Effect([do |-> "child", rows |-> r]) = R!SetChildren(r, IF kind \in {"one", "many"} THEN Subject ELSE Nobody)
         /\ R!Effect([do |-> "findOrCreate", rows |-> r]) = R!SetChildren(r \ R!Exist, Nobody)
         /\ R!Effect([do |-> "unlink", rows |-> r]) = [db EXCEPT !.link = @ \ R!Links(R!Named(r))]
         /\ R!Effect([do |-> "insert", rows |-> r]) = [db EXCEPT !.link = @ \cup R!Links(r \cap R!Exist)]
         /\ R!Effect([do |-> "drop", rows |-> r]) = [R!SetChildren(r, Gone) EXCEPT !.link = {l \in @ : l[2] \notin r}]
         /\ R!Effect([do |-> "list", rows |-> r]) = db
         /\ R!Effect([do |-> "parent", rows |-> r]) =
              [db EXCEPT !.parent[Subject] = "new", !.ref[Subject] = IF r = {} THEN Nobody ELSE CHOOSE c \in r : TRUE]
BY DEF R!Effect

LEMMA ChildrenSet ==
  ASSUME db \in Records, NEW rows, NEW value \in Parents \cup {Nobody, Gone}
  PROVE  LET e == R!SetChildren(rows, value)
         IN e \in Records /\ e.child = [c \in Children |-> IF c \in rows THEN value ELSE db.child[c]]
            /\ e.link = db.link /\ e.parent = db.parent /\ e.ref = db.ref
BY DEF R!SetChildren, Records

LEMMA LinksSet ==
  ASSUME db \in Records, NEW links \in SUBSET (Parents \X Children)
  PROVE  LET e == [db EXCEPT !.link = links]
         IN e \in Records /\ e.link = links /\ e.child = db.child /\ e.parent = db.parent /\ e.ref = db.ref
BY DEF Records

LEMMA ParentSet ==
  ASSUME db \in Records, NEW r \in Children \cup {Nobody}, Subject \in Parents
  PROVE  LET e == [db EXCEPT !.parent[Subject] = "new", !.ref[Subject] = r]
         IN e \in Records /\ e.ref[Subject] = r /\ e.child = db.child /\ e.link = db.link
BY DEF Records

Rowsets == {Absent} \cup SUBSET Children
LEMMA BagIs ==
  ASSUME R!WellFormed, kind \in {"owner", "one", "many", "m2m"}, bag \in R!Bags
  PROVE  /\ bag.set \in Rowsets /\ bag.connect \in Rowsets /\ bag.connectOrCreate \in Rowsets /\ bag.create \in Rowsets
         /\ bag.delete \in Rowsets \cup {All} /\ bag.disconnect \in Rowsets \cup {All}
         /\ kind = "owner" =>
              /\ bag.delete = Absent /\ bag.set = Absent
              /\ \A rows \in {bag.connect, bag.connectOrCreate, bag.create} : rows = Absent \/ \E c \in Children : rows = {c}
         /\ kind \in {"one", "many"} => bag.connectOrCreate = Absent
         /\ kind = "m2m" => bag.create = Absent
<1>1. CASE kind = "owner"
  <2>1. bag \in [delete : {Absent}, disconnect : {Absent, All}, set : {Absent}, connect : R!Single, connectOrCreate : R!Single, create : R!Single]
    BY <1>1 DEF R!Bags
  <2> QED BY <1>1, <2>1 DEF R!Single, Rowsets
<1>2. CASE kind = "one"
  <2>1. bag \in [delete : R!OrAll, disconnect : {Absent, All}, set : R!Single, connect : R!Single, connectOrCreate : {Absent}, create : R!Single]
    BY <1>2 DEF R!Bags
  <2> QED BY <1>2, <2>1 DEF R!Single, Rowsets, R!OrAll, R!Lists
<1>3. CASE kind = "many"
  <2>1. bag \in [delete : R!OrAll, disconnect : R!OrAll, set : R!Lists, connect : R!Lists, connectOrCreate : {Absent}, create : R!Lists]
    BY <1>3 DEF R!Bags
  <2> QED BY <1>3, <2>1 DEF Rowsets, R!OrAll, R!Lists
<1>4. CASE kind = "m2m"
  <2>1. bag \in [delete : R!OrAll, disconnect : R!OrAll, set : R!Lists, connect : R!Lists, connectOrCreate : R!Lists, create : {Absent}]
    BY <1>4 DEF R!Bags
  <2> QED BY <1>4, <2>1 DEF Rowsets, R!OrAll, R!Lists
<1> QED BY <1>1, <1>2, <1>3, <1>4

---------------------------------------------------------------------------
(* Foreign keys of the other table. *)

\* The arguments of the write, and the tables before it.
Given ==
  /\ kind \in {"owner", "one", "many", "m2m"} /\ base \in R!Databases /\ R!Possible(base) /\ bag \in R!Bags
  /\ bag.create # Absent => \A c \in bag.create : base.child[c] = Gone

Before == R!Related(base)
There == {c \in Children : base.child[c] # Gone}
Connected == R!Asked("connect", {})

Removed == R!Asked("delete", Before) \cap Before
Cut == R!Asked("disconnect", Before) \cap Before
Had == There \ Removed

\* The tables when the rows of gone were deleted, those of cut unlinked, and those of mine linked.
InverseIs(d, gone, cut, mine) ==
  /\ d \in Records /\ d.link = base.link
  /\ d.child = [c \in Children |->
                  IF c \in mine THEN Subject ELSE IF c \in gone THEN Gone ELSE IF c \in cut THEN Nobody ELSE base.child[c]]

\* The statements from the disconnects, the rest, and the creates on.
ToCreate == R!When("create", R!Creates)
ToLink == IF R!Present("set") THEN R!SetInverse(bag.set) ELSE R!When("connect", R!Stmt("point", bag.connect)) \o ToCreate
ToUnlink == R!When("disconnect", R!DisconnectInverse(bag.disconnect)) \o ToLink

\* How far the write is, and what that means for the tables.
InverseStage(q, d) ==
  \/ q = R!Stmt("parent", {}) \o R!InverseWrite /\ d = base
  \/ R!Present("delete") /\ q = R!Stmt("remove", bag.delete) \o ToUnlink /\ InverseIs(d, {}, {}, {})
  \/ R!Present("disconnect") /\ q = R!DisconnectInverse(bag.disconnect) \o ToLink /\ InverseIs(d, Removed, {}, {})
  \/ R!Present("set") /\ q = R!SetInverse(bag.set) /\ InverseIs(d, Removed, Cut, {})
  \/ R!Present("set") /\ q = R!Stmt("point", bag.set) /\ InverseIs(d, Removed, Before, {})
  \/ ~R!Present("set") /\ R!Present("connect") /\ q = R!Stmt("point", bag.connect) \o ToCreate /\ InverseIs(d, Removed, Cut, {})
  \/ /\ ~R!Present("set") /\ R!Present("create")
     /\ \E w \in Seq(Children), mine \in SUBSET Children :
          /\ Elements(w) \subseteq bag.create /\ q = OneByOne("child", w)
          /\ (Connected \cap Had) \cup (bag.create \ Elements(w)) \subseteq mine
          /\ mine \subseteq (Connected \cap Had) \cup bag.create
          /\ InverseIs(d, Removed, Cut, mine)
  \/ /\ q = <<>>
     /\ \/ R!Present("set") /\ InverseIs(d, Removed, Before, bag.set \cap Had)
        \/ ~R!Present("set") /\ InverseIs(d, Removed, Cut, (Connected \cap Had) \cup R!Asked("create", {}))

InverseGiven == R!WellFormed /\ Given /\ kind \in {"one", "many"}

\* The operations of a foreign key in the other table.
LEMMA InverseBag ==
  ASSUME InverseGiven
  PROVE  /\ bag.set \in Rowsets /\ bag.connect \in Rowsets /\ bag.create \in Rowsets
         /\ bag.delete \in Rowsets \cup {All} /\ bag.disconnect \in Rowsets \cup {All}
         /\ All # Absent /\ All \notin Rowsets
<1>1. kind \in {"owner", "one", "many", "m2m"} /\ bag \in R!Bags /\ R!WellFormed
  BY DEF InverseGiven, Given
<1>2. All # Absent /\ All \notin Rowsets
  BY <1>1 DEF R!WellFormed, Rowsets
<1> QED BY <1>1, <1>2, BagIs

LEMMA StmtIs == ASSUME NEW do \in Acts, NEW rows \in Orders PROVE [do |-> do, rows |-> rows] \in Stmts /\ R!Stmt(do, rows) \in Seq(Stmts)
<1>1. [do |-> do, rows |-> rows] \in Stmts
  BY DEF Stmts
<1> QED BY <1>1 DEF R!Stmt

LEMMA CreatesAre ==
  ASSUME R!WellFormed, bag.create \in SUBSET Children
  PROVE  \E w \in Seq(Children) : R!Creates = OneByOne("child", w) /\ Elements(w) = bag.create
<1>1. R!SetToSeq(bag.create) \in Seq(Children) /\ Elements(R!SetToSeq(bag.create)) = bag.create
  BY SeqOfSet, SameCount DEF R!WellFormed
<1>2. R!Creates = OneByOne("child", R!SetToSeq(bag.create))
  BY DEF R!Creates, OneByOne, R!Stmt
<1> QED BY <1>1, <1>2

LEMMA FindsAre ==
  ASSUME R!WellFormed, bag.connectOrCreate \in SUBSET Children
  PROVE  \E w \in Seq(Children) : R!FindOrCreates = OneByOne("findOrCreate", w) /\ Elements(w) = bag.connectOrCreate
<1>1. R!SetToSeq(bag.connectOrCreate) \in Seq(Children) /\ Elements(R!SetToSeq(bag.connectOrCreate)) = bag.connectOrCreate
  BY SeqOfSet, SameCount DEF R!WellFormed
<1>2. R!FindOrCreates = OneByOne("findOrCreate", R!SetToSeq(bag.connectOrCreate))
  BY DEF R!FindOrCreates, OneByOne, R!Stmt
<1> QED BY <1>1, <1>2

LEMMA GivenRows ==
  /\ All \in Orders /\ {} \in Orders
  /\ \A rows \in Rowsets \cup {All} : rows # Absent => rows \in Orders
  /\ \A rows \in Rowsets : rows # Absent => rows \in SUBSET Children /\ rows \in Orders
<1>1. {} \in SUBSET Children
  OBVIOUS
<1>2. \A rows \in SUBSET Children : rows \in Orders
  BY DEF Orders
<1>3. All \in Orders
  BY DEF Orders
<1>4. \A rows \in Rowsets : rows # Absent => rows \in SUBSET Children
  BY DEF Rowsets
<1> QED BY <1>1, <1>2, <1>3, <1>4

LEMMA InverseSeqs ==
  ASSUME InverseGiven
  PROVE  /\ ToCreate \in Seq(Stmts) /\ ToLink \in Seq(Stmts) /\ ToUnlink \in Seq(Stmts)
         /\ R!InverseWrite = R!When("delete", R!Stmt("remove", bag.delete)) \o ToUnlink
         /\ R!InverseWrite \in Seq(Stmts)
<1>1. <<>> \in Seq(Stmts) /\ R!WellFormed
  BY DEF InverseGiven
<1>2. ToCreate \in Seq(Stmts)
  <2>1. CASE R!Present("create")
    <3>1. bag.create \in SUBSET Children
      BY <2>1, InverseBag DEF R!Present, Rowsets
    <3>2. PICK w \in Seq(Children) : R!Creates = OneByOne("child", w)
      BY <1>1, <3>1, CreatesAre
    <3>3. "child" \in Acts
      BY DEF Acts
    <3> QED BY <2>1, <3>2, <3>3, OneByOneIs DEF ToCreate, R!When
  <2> QED BY <1>1, <2>1 DEF ToCreate, R!When
<1>3. ASSUME NEW rows \in Orders PROVE R!DisconnectInverse(rows) \in Seq(Stmts)
  <2>1. {} \in Orders /\ "unset" \in Acts /\ "error" \in Acts
    BY DEF Orders, Acts
  <2> QED BY <2>1, StmtIs DEF R!DisconnectInverse, R!Refuse
<1>4. ToLink \in Seq(Stmts)
  <2>1. CASE R!Present("set")
    <3>1. All \in Orders /\ bag.set \in Orders /\ "point" \in Acts
      BY <2>1, InverseBag, GivenRows DEF Acts, R!Present
    <3>2. R!DisconnectInverse(All) \in Seq(Stmts) /\ R!Stmt("point", bag.set) \in Seq(Stmts)
      BY <1>3, <3>1, StmtIs
    <3> QED BY <2>1, <3>2, Joined DEF ToLink, R!SetInverse
  <2>2. CASE ~R!Present("set") /\ R!Present("connect")
    <3>1. bag.connect \in Orders /\ "point" \in Acts
      BY <2>2, InverseBag, GivenRows DEF Acts, R!Present
    <3>2. R!Stmt("point", bag.connect) \in Seq(Stmts)
      BY <3>1, StmtIs
    <3> QED BY <1>2, <2>2, <3>2, Joined DEF ToLink, R!When
  <2>3. CASE ~R!Present("set") /\ ~R!Present("connect")
    BY <1>1, <1>2, <2>3, Joined DEF ToLink, R!When
  <2> QED BY <2>1, <2>2, <2>3
<1>5. R!When("disconnect", R!DisconnectInverse(bag.disconnect)) \in Seq(Stmts)
  <2>1. CASE R!Present("disconnect")
    <3>1. bag.disconnect \in Orders
      BY <2>1, InverseBag, GivenRows DEF Acts, R!Present
    <3> QED BY <1>3, <2>1, <3>1 DEF R!When
  <2> QED BY <1>1, <2>1 DEF R!When
<1>6. R!When("delete", R!Stmt("remove", bag.delete)) \in Seq(Stmts)
  <2>1. CASE R!Present("delete")
    <3>1. bag.delete \in Orders /\ "remove" \in Acts
      BY <2>1, InverseBag, GivenRows DEF Acts, R!Present
    <3> QED BY <2>1, <3>1, StmtIs DEF R!When
  <2> QED BY <1>1, <2>1 DEF R!When
<1>7. ToUnlink \in Seq(Stmts)
  BY <1>4, <1>5, Joined DEF ToUnlink
<1>8. R!InverseWrite = (R!When("delete", R!Stmt("remove", bag.delete)) \o R!When("disconnect", R!DisconnectInverse(bag.disconnect))) \o ToLink
  BY DEF R!InverseWrite, ToLink, ToCreate
<1>9. R!InverseWrite = R!When("delete", R!Stmt("remove", bag.delete)) \o ToUnlink
  BY <1>4, <1>5, <1>6, <1>8, Joined DEF ToUnlink
<1>10. R!InverseWrite \in Seq(Stmts)
  BY <1>6, <1>7, <1>9, Joined
<1> QED BY <1>2, <1>4, <1>7, <1>9, <1>10

LEMMA Apart ==
  ASSUME R!WellFormed
  PROVE  Subject \in Parents /\ Nobody \notin Parents /\ Gone \notin Parents /\ Nobody # Gone /\ Nobody \notin Children
BY DEF R!WellFormed

LEMMA BaseIs ==
  ASSUME InverseGiven
  PROVE  /\ base \in Records /\ Before = {c \in Children : base.child[c] = Subject} /\ Before \subseteq There
         /\ base.child \in [Children -> Parents \cup {Nobody, Gone}]
         /\ Removed \subseteq Before /\ Cut \subseteq Before /\ Had \subseteq There
         /\ kind \notin {"owner", "m2m"} /\ kind \in {"one", "many"}
<1>1. kind \notin {"owner", "m2m"} /\ kind \in {"one", "many"}
  BY DEF InverseGiven
<1>2. base \in Records /\ base.child \in [Children -> Parents \cup {Nobody, Gone}]
  BY DEF InverseGiven, Given, R!Databases, Records
<1>3. Before = {c \in Children : base.child[c] = Subject}
  BY <1>1 DEF Before, R!Related
<1>4. Subject # Gone
  BY Apart DEF InverseGiven
<1>5. Before \subseteq There
  BY <1>3, <1>4 DEF There
<1> QED BY <1>1, <1>2, <1>3, <1>5 DEF Removed, Cut, Had

\* What is related and what exists.
LEMMA InverseNow ==
  ASSUME InverseGiven, NEW gone \in SUBSET Children, NEW cut \in SUBSET Before, NEW mine \in SUBSET Children, InverseIs(db, gone, cut, mine)
  PROVE  /\ R!Related(db) = mine \cup (Before \ (gone \cup cut)) /\ R!Exist = mine \cup (There \ gone)
<1>1. Subject # Gone /\ Subject # Nobody /\ Nobody # Gone
  BY Apart DEF InverseGiven
<1>2. Before = {c \in Children : base.child[c] = Subject} /\ Before \subseteq There
  BY BaseIs
<1>3. ASSUME NEW c \in Children
      PROVE  db.child[c] = IF c \in mine THEN Subject ELSE IF c \in gone THEN Gone ELSE IF c \in cut THEN Nobody ELSE base.child[c]
  BY DEF InverseIs
<1>4. ASSUME NEW c \in Children
      PROVE  (db.child[c] = Subject) <=> (c \in mine \cup (Before \ (gone \cup cut)))
  BY <1>1, <1>2, <1>3
<1>5. ASSUME NEW c \in Children
      PROVE  (db.child[c] # Gone) <=> (c \in mine \cup (There \ gone))
  <2>1. c \in There <=> base.child[c] # Gone
    BY DEF There
  <2>2. c \in cut => c \in There
    BY <1>2
  <2> QED BY <1>1, <1>3, <2>1, <2>2
<1>6. R!Related(db) = {c \in Children : db.child[c] = Subject}
  BY BaseIs DEF R!Related
<1>7. mine \cup (Before \ (gone \cup cut)) \subseteq Children /\ mine \cup (There \ gone) \subseteq Children
  BY <1>2 DEF There
<1> QED BY <1>4, <1>5, <1>6, <1>7 DEF R!Exist

\* A step over the first statement.
LEMMA ExecuteOne ==
  ASSUME R!Execute, NEW s \in Stmts, NEW X \in Seq(Stmts), todo = <<s>> \o X, s.do # "list"
  PROVE  /\ R!Allowed(s) /\ db' = R!Effect(s) /\ todo' = X /\ phase' = IF X = <<>> THEN "done" ELSE "run"
<1>1. Head(todo) = s /\ Tail(todo) = X /\ (Len(todo) = 1 <=> X = <<>>)
  BY FirstOf
<1> QED BY <1>1 DEF R!Execute, R!Done

LEMMA InverseSet ==
  ASSUME InverseGiven, NEW gone, NEW cut, NEW mine, InverseIs(db, gone, cut, mine), NEW rows, NEW value \in Parents \cup {Nobody, Gone},
         NEW gone1, NEW cut1, NEW mine1,
         \A c \in Children :
           (IF c \in rows THEN value ELSE IF c \in mine THEN Subject ELSE IF c \in gone THEN Gone ELSE IF c \in cut THEN Nobody ELSE base.child[c])
           = IF c \in mine1 THEN Subject ELSE IF c \in gone1 THEN Gone ELSE IF c \in cut1 THEN Nobody ELSE base.child[c]
  PROVE  InverseIs(R!SetChildren(rows, value), gone1, cut1, mine1)
<1> DEFINE e == R!SetChildren(rows, value)
<1>1. db \in Records
  BY DEF InverseIs
<1>2. e \in Records /\ e.child = [c \in Children |-> IF c \in rows THEN value ELSE db.child[c]] /\ e.link = db.link
  BY <1>1, ChildrenSet
<1> HIDE DEF e
<1>3. \A c \in Children : db.child[c] = IF c \in mine THEN Subject ELSE IF c \in gone THEN Gone ELSE IF c \in cut THEN Nobody ELSE base.child[c]
  BY DEF InverseIs
<1>4. \A c \in Children : e.child[c] = IF c \in mine1 THEN Subject ELSE IF c \in gone1 THEN Gone ELSE IF c \in cut1 THEN Nobody ELSE base.child[c]
  BY <1>2, <1>3
<1>5. e.child = [c \in Children |-> IF c \in mine1 THEN Subject ELSE IF c \in gone1 THEN Gone ELSE IF c \in cut1 THEN Nobody ELSE base.child[c]]
  BY <1>2, <1>4
<1>6. e.link = base.link
  BY <1>2 DEF InverseIs
<1>7. InverseIs(e, gone1, cut1, mine1)
  BY <1>2, <1>5, <1>6 DEF InverseIs
<1> QED BY <1>7 DEF e

(* A stage whose operations are left out is the next one. *)

\* What is left once the links are written.
LEMMA EnterCreate ==
  ASSUME InverseGiven, ~R!Present("set"), NEW d, InverseIs(d, Removed, Cut, Connected \cap Had)
  PROVE  InverseStage(ToCreate, d)
<1>1. CASE R!Present("create")
  <2>1. bag.create \in SUBSET Children
    BY <1>1, InverseBag, GivenRows DEF R!Present
  <2>2. PICK w \in Seq(Children) : R!Creates = OneByOne("child", w) /\ Elements(w) = bag.create
    BY <2>1, CreatesAre DEF InverseGiven
  <2>3. /\ (Connected \cap Had) \cup (bag.create \ Elements(w)) \subseteq Connected \cap Had
        /\ Connected \cap Had \subseteq (Connected \cap Had) \cup bag.create /\ Elements(w) \subseteq bag.create
        /\ Connected \cap Had \in SUBSET Children
    BY <2>2 DEF Had, There
  <2>4. ToCreate = OneByOne("child", w)
    BY <1>1, <2>2 DEF ToCreate, R!When
  <2> HIDE DEF ToCreate
  <2> QED BY <1>1, <2>2, <2>3, <2>4 DEF InverseStage
<1>2. CASE ~R!Present("create")
  <2>1. ToCreate = <<>> /\ R!Asked("create", {}) = {}
    BY <1>2 DEF ToCreate, R!When, R!Asked, R!Present
  <2>2. (Connected \cap Had) \cup R!Asked("create", {}) = Connected \cap Had
    BY <2>1
  <2> QED BY <2>1, <2>2 DEF InverseStage
<1> QED BY <1>1, <1>2

LEMMA EnterLink == ASSUME InverseGiven, NEW d, InverseIs(d, Removed, Cut, {}) PROVE InverseStage(ToLink, d)
<1>1. CASE R!Present("set")
  BY <1>1 DEF InverseStage, ToLink
<1>2. CASE ~R!Present("set") /\ R!Present("connect")
  <2>1. ToLink = R!Stmt("point", bag.connect) \o ToCreate
    BY <1>2 DEF ToLink, R!When
  <2> QED BY <1>2, <2>1 DEF InverseStage
<1>3. CASE ~R!Present("set") /\ ~R!Present("connect")
  <2>1. ToLink = ToCreate
    BY <1>3, InverseSeqs, Joined DEF ToLink, R!When
  <2>2. Connected \cap Had = {}
    BY <1>3 DEF Connected, R!Asked, R!Present
  <2> QED BY <1>3, <2>1, <2>2, EnterCreate
<1> QED BY <1>1, <1>2, <1>3

LEMMA EnterUnlink == ASSUME InverseGiven, NEW d, InverseIs(d, Removed, {}, {}) PROVE InverseStage(ToUnlink, d)
<1>1. CASE R!Present("disconnect")
  <2>1. ToUnlink = R!DisconnectInverse(bag.disconnect) \o ToLink
    BY <1>1 DEF ToUnlink, R!When
  <2> QED BY <1>1, <2>1 DEF InverseStage
<1>2. CASE ~R!Present("disconnect")
  <2>1. ToUnlink = ToLink
    BY <1>2, InverseSeqs, Joined DEF ToUnlink, R!When
  <2>2. Cut = {}
    BY <1>2 DEF Cut, R!Asked, R!Present
  <2> QED BY <2>1, <2>2, EnterLink
<1> QED BY <1>1, <1>2

LEMMA EnterWrite == ASSUME InverseGiven, NEW d, InverseIs(d, {}, {}, {}) PROVE InverseStage(R!InverseWrite, d)
<1>1. R!InverseWrite = R!When("delete", R!Stmt("remove", bag.delete)) \o ToUnlink
  BY InverseSeqs
<1>2. CASE R!Present("delete")
  <2>1. R!InverseWrite = R!Stmt("remove", bag.delete) \o ToUnlink
    BY <1>1, <1>2 DEF R!When
  <2> QED BY <1>2, <2>1 DEF InverseStage
<1>3. CASE ~R!Present("delete")
  <2>1. R!InverseWrite = ToUnlink
    BY <1>1, <1>3, InverseSeqs, Joined DEF R!When
  <2>2. Removed = {}
    BY <1>3 DEF Removed, R!Asked, R!Present
  <2> QED BY <2>1, <2>2, EnterUnlink
<1> QED BY <1>2, <1>3

LEMMA ParentSeq ==
  /\ [do |-> "parent", rows |-> {}] \in Stmts /\ R!Stmt("parent", {}) = <<[do |-> "parent", rows |-> {}]>>
  /\ R!Stmt("parent", {}) \in Seq(Stmts)
<1>1. "parent" \in Acts
  BY DEF Acts
<1> QED BY <1>1, GivenRows, StmtIs DEF R!Stmt

LEMMA StagesNow ==
  ASSUME InverseGiven
  PROVE  /\ InverseIs(db, {}, {}, {}) => R!Related(db) = Before
         /\ InverseIs(db, Removed, {}, {}) => R!Related(db) = Before \ Removed
         /\ InverseIs(db, Removed, Cut, {}) => (R!Related(db) = Before \ (Removed \cup Cut) /\ R!Exist = Had)
         /\ InverseIs(db, Removed, Before, {}) => R!Exist = Had
<1>1. {} \in SUBSET Children /\ {} \in SUBSET Before /\ Before \in SUBSET Before
  OBVIOUS
<1>2. Removed \in SUBSET Children /\ Cut \in SUBSET Before
  BY BaseIs DEF There
<1>3. InverseIs(db, {}, {}, {}) => R!Related(db) = {} \cup (Before \ ({} \cup {}))
  BY <1>1, InverseNow
<1>4. InverseIs(db, Removed, {}, {}) => R!Related(db) = {} \cup (Before \ (Removed \cup {}))
  <2>1. ASSUME NEW gone \in SUBSET Children, InverseIs(db, gone, {}, {}) PROVE R!Related(db) = {} \cup (Before \ (gone \cup {}))
    BY <1>1, <2>1, InverseNow
  <2> QED BY <1>2, <2>1
<1>5. InverseIs(db, Removed, Cut, {}) => (R!Related(db) = {} \cup (Before \ (Removed \cup Cut)) /\ R!Exist = {} \cup (There \ Removed))
  BY <1>1, <1>2, InverseNow
<1>6. InverseIs(db, Removed, Before, {}) => R!Exist = {} \cup (There \ Removed)
  BY <1>1, <1>2, InverseNow
<1> HIDE DEF Before, Removed, Cut, There
<1> QED BY <1>3, <1>4, <1>5, <1>6 DEF Had

\* Each statement leads to the next stage.
LEMMA InverseStep ==
  ASSUME InverseGiven, R!Execute, InverseStage(todo, db), todo # <<>>
  PROVE  InverseStage(todo', db') /\ phase' = IF todo' = <<>> THEN "done" ELSE "run"
<1>1. CASE todo = R!Stmt("parent", {}) \o R!InverseWrite /\ db = base
  <2> DEFINE s == [do |-> "parent", rows |-> {}]
  <2>1. s \in Stmts /\ todo = <<s>> \o R!InverseWrite /\ R!InverseWrite \in Seq(Stmts)
    BY <1>1, ParentSeq, InverseSeqs
  <2>2. db' = R!Effect(s) /\ todo' = R!InverseWrite /\ phase' = IF R!InverseWrite = <<>> THEN "done" ELSE "run"
    BY <2>1, ExecuteOne
  <2>3. db' = [db EXCEPT !.parent[Subject] = "new", !.ref[Subject] = Nobody]
    BY <2>2, Effects
  <2>4. db' \in Records /\ db'.child = base.child /\ db'.link = base.link
    BY <1>1, <2>3, ParentSet, BaseIs, Apart DEF InverseGiven
  <2>5. InverseIs(db', {}, {}, {})
    BY <2>4, BaseIs DEF InverseIs
  <2> QED BY <2>2, <2>5, EnterWrite
<1>2. CASE R!Present("delete") /\ todo = R!Stmt("remove", bag.delete) \o ToUnlink /\ InverseIs(db, {}, {}, {})
  <2> DEFINE s == [do |-> "remove", rows |-> bag.delete]
  <2>1. s \in Stmts /\ todo = <<s>> \o ToUnlink /\ ToUnlink \in Seq(Stmts)
    <3>1. bag.delete \in Orders /\ "remove" \in Acts
      BY <1>2, InverseBag, GivenRows DEF Acts, R!Present
    <3> QED BY <1>2, <3>1, StmtIs, InverseSeqs DEF R!Stmt
  <2>2. db' = R!Effect(s) /\ todo' = ToUnlink /\ phase' = IF ToUnlink = <<>> THEN "done" ELSE "run"
    BY <2>1, ExecuteOne
  <2>3. R!Related(db) = Before
    BY <1>2, StagesNow
  <2>4. R!Named(bag.delete) \cap R!Related(db) = Removed
    BY <1>2, <2>3, BaseIs DEF R!Named, Removed, R!Asked, R!Present
  <2>5. db' = R!SetChildren(Removed, Gone)
    BY <2>2, <2>4, Effects
  <2>6. InverseIs(R!SetChildren(Removed, Gone), Removed, {}, {})
    BY <1>2, InverseSet
  <2> QED BY <2>2, <2>5, <2>6, EnterUnlink
<1>3. CASE R!Present("disconnect") /\ todo = R!DisconnectInverse(bag.disconnect) \o ToLink /\ InverseIs(db, Removed, {}, {})
  <2> DEFINE s == IF nullable THEN [do |-> "unset", rows |-> bag.disconnect] ELSE [do |-> "error", rows |-> {}]
  <2>1. s \in Stmts /\ todo = <<s>> \o ToLink /\ ToLink \in Seq(Stmts)
    <3>1. bag.disconnect \in Orders /\ "unset" \in Acts /\ "error" \in Acts /\ {} \in Orders
      BY <1>3, InverseBag, GivenRows DEF Acts, R!Present
    <3>2. R!DisconnectInverse(bag.disconnect) = <<s>>
      BY DEF R!DisconnectInverse, R!Refuse, R!Stmt
    <3> QED BY <1>3, <3>1, <3>2, StmtIs, InverseSeqs
  <2>2. s.do # "list"
    OBVIOUS
  <2>3. R!Allowed(s) /\ db' = R!Effect(s) /\ todo' = ToLink /\ phase' = IF ToLink = <<>> THEN "done" ELSE "run"
    <3> HIDE DEF s
    <3> QED BY <2>1, <2>2, ExecuteOne
  <2>4. nullable
    BY <2>3 DEF R!Allowed
  <2>5. R!Related(db) = Before \ Removed
    BY <1>3, StagesNow
  <2> DEFINE rows == R!Named(bag.disconnect) \cap R!Related(db)
  <2>6. db' = R!SetChildren(rows, Nobody)
    BY <2>3, <2>4, Effects
  <2>7. rows = Cut \ Removed
    BY <1>3, <2>5, BaseIs DEF R!Named, Cut, R!Asked, R!Present
  <2> HIDE DEF rows, s
  <2>8. InverseIs(R!SetChildren(rows, Nobody), Removed, Cut, {})
    BY <1>3, <2>7, InverseSet
  <2> QED BY <2>3, <2>6, <2>8, EnterLink
<1>4. CASE R!Present("set") /\ todo = R!SetInverse(bag.set) /\ InverseIs(db, Removed, Cut, {})
  <2> DEFINE s == IF nullable THEN [do |-> "unset", rows |-> All] ELSE [do |-> "error", rows |-> {}]
             X == R!Stmt("point", bag.set)
  <2>1. s \in Stmts /\ todo = <<s>> \o X /\ X \in Seq(Stmts)
    <3>1. bag.set \in Orders /\ "unset" \in Acts /\ "error" \in Acts /\ {} \in Orders /\ All \in Orders /\ "point" \in Acts
      BY <1>4, InverseBag, GivenRows DEF Acts, R!Present
    <3>2. R!DisconnectInverse(All) = <<s>>
      BY DEF R!DisconnectInverse, R!Refuse, R!Stmt
    <3> QED BY <1>4, <3>1, <3>2, StmtIs DEF R!SetInverse
  <2>2. s.do # "list"
    OBVIOUS
  <2>3. R!Allowed(s) /\ db' = R!Effect(s) /\ todo' = X /\ phase' = IF X = <<>> THEN "done" ELSE "run"
    <3> HIDE DEF s, X
    <3> QED BY <2>1, <2>2, ExecuteOne
  <2>4. nullable
    BY <2>3 DEF R!Allowed
  <2>5. R!Related(db) = Before \ (Removed \cup Cut)
    BY <1>4, StagesNow
  <2> DEFINE rows == R!Named(All) \cap R!Related(db)
  <2>6. db' = R!SetChildren(rows, Nobody)
    BY <2>3, <2>4, Effects
  <2>7. rows = Before \ (Removed \cup Cut)
    BY <2>5, BaseIs DEF R!Named
  <2> HIDE DEF rows, s
  <2>8. InverseIs(R!SetChildren(rows, Nobody), Removed, Before, {})
    <3>1. Cut \subseteq Before
      BY BaseIs
    <3> QED BY <1>4, <2>7, <3>1, InverseSet
  <2> QED BY <1>4, <2>3, <2>6, <2>8 DEF InverseStage
<1>5. CASE R!Present("set") /\ todo = R!Stmt("point", bag.set) /\ InverseIs(db, Removed, Before, {})
  <2> DEFINE s == [do |-> "point", rows |-> bag.set]
  <2>1. s \in Stmts /\ todo = <<s>> \o <<>> /\ <<>> \in Seq(Stmts)
    <3>1. bag.set \in Orders /\ "point" \in Acts
      BY <1>5, InverseBag, GivenRows DEF Acts, R!Present
    <3>2. R!Stmt("point", bag.set) \in Seq(Stmts) /\ s \in Stmts /\ <<>> \in Seq(Stmts)
      BY <3>1, StmtIs
    <3>3. R!Stmt("point", bag.set) \o <<>> = R!Stmt("point", bag.set)
      BY <3>2, Joined
    <3> QED BY <1>5, <3>2, <3>3 DEF R!Stmt
  <2>2. db' = R!Effect(s) /\ todo' = <<>> /\ phase' = "done"
    BY <2>1, ExecuteOne
  <2>3. R!Exist = Had
    BY <1>5, StagesNow
  <2>4. db' = R!SetChildren(bag.set \cap Had, Subject)
    BY <2>2, <2>3, Effects
  <2>5. Subject \in Parents \cup {Nobody, Gone}
    BY Apart DEF InverseGiven
  <2>6. InverseIs(R!SetChildren(bag.set \cap Had, Subject), Removed, Before, bag.set \cap Had)
    BY <1>5, <2>5, InverseSet
  <2> QED BY <1>5, <2>2, <2>4, <2>6 DEF InverseStage
<1>6. CASE ~R!Present("set") /\ R!Present("connect") /\ todo = R!Stmt("point", bag.connect) \o ToCreate /\ InverseIs(db, Removed, Cut, {})
  <2> DEFINE s == [do |-> "point", rows |-> bag.connect]
  <2>1. s \in Stmts /\ todo = <<s>> \o ToCreate /\ ToCreate \in Seq(Stmts) /\ bag.connect \in SUBSET Children
    <3>1. bag.connect \in Orders /\ "point" \in Acts /\ bag.connect \in SUBSET Children
      BY <1>6, InverseBag, GivenRows DEF Acts, R!Present
    <3> QED BY <1>6, <3>1, StmtIs, InverseSeqs DEF R!Stmt
  <2>2. db' = R!Effect(s) /\ todo' = ToCreate /\ phase' = IF ToCreate = <<>> THEN "done" ELSE "run"
    BY <2>1, ExecuteOne
  <2>3. R!Exist = Had
    BY <1>6, StagesNow
  <2>4. Connected = bag.connect
    <3>1. bag.connect # All
      BY <2>1 DEF InverseGiven, R!WellFormed
    <3> QED BY <1>6, <3>1 DEF Connected, R!Asked, R!Present
  <2>5. db' = R!SetChildren(Connected \cap Had, Subject)
    BY <2>2, <2>3, <2>4, Effects
  <2>6. Subject \in Parents \cup {Nobody, Gone}
    BY Apart DEF InverseGiven
  <2>7. InverseIs(R!SetChildren(Connected \cap Had, Subject), Removed, Cut, Connected \cap Had)
    BY <1>6, <2>6, InverseSet
  <2> QED BY <1>6, <2>2, <2>5, <2>7, EnterCreate
<1>7. ASSUME ~R!Present("set"), R!Present("create"), NEW w \in Seq(Children), NEW mine \in SUBSET Children,
             Elements(w) \subseteq bag.create, todo = OneByOne("child", w),
             (Connected \cap Had) \cup (bag.create \ Elements(w)) \subseteq mine,
             mine \subseteq (Connected \cap Had) \cup bag.create, InverseIs(db, Removed, Cut, mine)
      PROVE  InverseStage(todo', db') /\ phase' = IF todo' = <<>> THEN "done" ELSE "run"
  <2>1. w # <<>>
    BY <1>7, NoneLeft
  <2> DEFINE s == [do |-> "child", rows |-> {Head(w)}]
             X == OneByOne("child", Tail(w))
  <2>2. "child" \in Acts /\ <<>> \in Seq(Stmts)
    BY DEF Acts
  <2>3. /\ todo = <<s>> \o X /\ X \in Seq(Stmts) /\ Tail(w) \in Seq(Children) /\ Head(w) \in Children
        /\ Elements(w) = Elements(Tail(w)) \cup {Head(w)}
    <3>1. /\ Tail(w) \in Seq(Children) /\ Head(w) \in Children /\ Elements(w) = Elements(Tail(w)) \cup {Head(w)}
          /\ OneByOne("child", w) \o <<>> = <<s>> \o (X \o <<>>)
      BY <2>1, <2>2, NextOne
    <3>2. OneByOne("child", w) \in Seq(Stmts) /\ X \in Seq(Stmts)
      BY <2>2, <3>1, OneByOneIs
    <3> HIDE DEF X, s
    <3>3. OneByOne("child", w) \o <<>> = OneByOne("child", w) /\ X \o <<>> = X
      BY <3>2, Joined
    <3> QED BY <1>7, <3>1, <3>2, <3>3
  <2>4. s \in Stmts
    <3>1. {Head(w)} \in Orders
      BY <2>3 DEF Orders
    <3> QED BY <2>2, <3>1, StmtIs
  <2>5. db' = R!Effect(s) /\ todo' = X /\ phase' = IF X = <<>> THEN "done" ELSE "run"
    <3> HIDE DEF X
    <3> QED BY <2>3, <2>4, ExecuteOne
  <2>6. db' = R!SetChildren({Head(w)}, Subject)
    BY <2>5, Effects DEF InverseGiven
  <2>7. Subject \in Parents \cup {Nobody, Gone}
    BY Apart DEF InverseGiven
  <2> DEFINE more == mine \cup {Head(w)}
  <2>8. InverseIs(R!SetChildren({Head(w)}, Subject), Removed, Cut, more)
    BY <1>7, <2>7, InverseSet
  <2>9. /\ more \in SUBSET Children /\ Elements(Tail(w)) \subseteq bag.create
        /\ (Connected \cap Had) \cup (bag.create \ Elements(Tail(w))) \subseteq more
        /\ more \subseteq (Connected \cap Had) \cup bag.create
    BY <1>7, <2>3
  <2> HIDE DEF more, s
  <2>10. InverseStage(todo', db')
    BY <1>7, <2>3, <2>5, <2>6, <2>8, <2>9 DEF InverseStage
  <2> QED BY <2>5, <2>10
<1> QED BY <1>1, <1>2, <1>3, <1>4, <1>5, <1>6, <1>7 DEF InverseStage

\* The last stage is what was asked for.
LEMMA InverseEnds ==
  ASSUME InverseGiven, NEW q, NEW d, InverseStage(q, d), q = <<>>
  PROVE  \/ R!Present("set") /\ InverseIs(d, Removed, Before, bag.set \cap Had)
         \/ ~R!Present("set") /\ InverseIs(d, Removed, Cut, (Connected \cap Had) \cup R!Asked("create", {}))
<1>1. ASSUME NEW s \in Stmts, NEW X \in Seq(Stmts) PROVE q # <<s>> \o X
  BY FirstOf
<1>2. q # R!Stmt("parent", {}) \o R!InverseWrite
  BY <1>1, ParentSeq, InverseSeqs
<1>3. ASSUME R!Present("delete") PROVE q # R!Stmt("remove", bag.delete) \o ToUnlink
  <2>1. bag.delete \in Orders /\ "remove" \in Acts
    BY <1>3, InverseBag, GivenRows DEF Acts, R!Present
  <2> QED BY <1>1, <2>1, StmtIs, InverseSeqs DEF R!Stmt
<1>4. ASSUME NEW rows \in Orders, NEW X \in Seq(Stmts) PROVE q # R!DisconnectInverse(rows) \o X
  <2>1. "unset" \in Acts /\ "error" \in Acts /\ {} \in Orders
    BY GivenRows DEF Acts
  <2> QED BY <1>1, <2>1, StmtIs DEF R!DisconnectInverse, R!Refuse, R!Stmt
<1>5. ASSUME R!Present("disconnect") PROVE q # R!DisconnectInverse(bag.disconnect) \o ToLink
  <2>1. bag.disconnect \in Orders
    BY <1>5, InverseBag, GivenRows DEF R!Present
  <2> QED BY <1>4, <2>1, InverseSeqs
<1>6. ASSUME R!Present("set") PROVE q # R!SetInverse(bag.set) /\ q # R!Stmt("point", bag.set)
  <2>1. bag.set \in Orders /\ "point" \in Acts /\ All \in Orders
    BY <1>6, InverseBag, GivenRows DEF Acts, R!Present
  <2>2. R!Stmt("point", bag.set) \in Seq(Stmts)
    BY <2>1, StmtIs
  <2> QED BY <1>4, <2>1, <2>2 DEF R!SetInverse, R!Stmt
<1>7. ASSUME R!Present("connect") PROVE q # R!Stmt("point", bag.connect) \o ToCreate
  <2>1. bag.connect \in Orders /\ "point" \in Acts
    BY <1>7, InverseBag, GivenRows DEF Acts, R!Present
  <2> QED BY <1>1, <2>1, StmtIs, InverseSeqs DEF R!Stmt
<1>8. ASSUME R!Present("create"), NEW w \in Seq(Children), NEW mine \in SUBSET Children, q = OneByOne("child", w),
             (Connected \cap Had) \cup (bag.create \ Elements(w)) \subseteq mine,
             mine \subseteq (Connected \cap Had) \cup bag.create
      PROVE  mine = (Connected \cap Had) \cup R!Asked("create", {})
  <2>1. Len(w) = 0
    <3>1. "child" \in Acts
      BY DEF Acts
    <3>2. Len(OneByOne("child", w)) = Len(w)
      BY <3>1, OneByOneIs
    <3> QED BY <1>8, <3>2
  <2>2. Elements(w) = {}
    BY <2>1 DEF Elements
  <2>3. bag.create \in SUBSET Children
    BY <1>8, InverseBag, GivenRows DEF R!Present
  <2>4. R!Asked("create", {}) = bag.create
    <3>1. bag.create # All
      BY <2>3 DEF InverseGiven, R!WellFormed
    <3> QED BY <1>8, <3>1 DEF R!Asked, R!Present
  <2> QED BY <1>8, <2>2, <2>4
<1>9. \/ q = <<>> /\ R!Present("set") /\ InverseIs(d, Removed, Before, bag.set \cap Had)
      \/ q = <<>> /\ ~R!Present("set") /\ InverseIs(d, Removed, Cut, (Connected \cap Had) \cup R!Asked("create", {}))
      \/ /\ ~R!Present("set") /\ R!Present("create")
         /\ \E w \in Seq(Children), mine \in SUBSET Children :
              /\ Elements(w) \subseteq bag.create /\ q = OneByOne("child", w)
              /\ (Connected \cap Had) \cup (bag.create \ Elements(w)) \subseteq mine
              /\ mine \subseteq (Connected \cap Had) \cup bag.create
              /\ InverseIs(d, Removed, Cut, mine)
  BY <1>2, <1>3, <1>5, <1>6, <1>7 DEF InverseStage
<1>10. CASE ~R!Present("set") /\ R!Present("create") /\
               \E w \in Seq(Children), mine \in SUBSET Children :
                 /\ Elements(w) \subseteq bag.create /\ q = OneByOne("child", w)
                 /\ (Connected \cap Had) \cup (bag.create \ Elements(w)) \subseteq mine
                 /\ mine \subseteq (Connected \cap Had) \cup bag.create
                 /\ InverseIs(d, Removed, Cut, mine)
  <2>1. PICK w \in Seq(Children), mine \in SUBSET Children :
          /\ q = OneByOne("child", w)
          /\ (Connected \cap Had) \cup (bag.create \ Elements(w)) \subseteq mine
          /\ mine \subseteq (Connected \cap Had) \cup bag.create
          /\ InverseIs(d, Removed, Cut, mine)
    BY <1>10
  <2>2. mine = (Connected \cap Had) \cup R!Asked("create", {})
    BY <1>8, <1>10, <2>1
  <2>3. InverseIs(d, Removed, Cut, (Connected \cap Had) \cup R!Asked("create", {}))
    BY <2>1, <2>2
  <2> QED BY <1>10, <2>3
<1> QED BY <1>9, <1>10

---------------------------------------------------------------------------
(* What RelatedAsAsked says of tables d. *)

Outcome(d, removed, made, added, left) ==
  /\ R!Related(d) = (left \cup added) \cap ((There \ removed) \cup made)
  /\ \A c \in removed \ made : d.child[c] = Gone
  /\ \A c \in Children \ (removed \cup Before \cup added) :
       d.child[c] = base.child[c] /\ \A p \in Parents : <<p, c>> \in d.link <=> <<p, c>> \in base.link

Taken == R!Asked("delete", Before) \cap (IF kind = "m2m" THEN There ELSE Before)
Made == IF R!Present("set") THEN {} ELSE R!Asked("connectOrCreate", {}) \cup R!Asked("create", {})
Added == IF R!Present("set") THEN bag.set ELSE Connected \cup Made
LeftOver == IF R!Present("set") \/ kind = "owner" THEN {} ELSE (Before \ Taken) \ R!Asked("disconnect", Before)

\* Tables with the outcome asked for are RelatedAsAsked.
LEMMA OutcomeThen ==
  ASSUME UNCHANGED <<kind, bag, base>>, Outcome(db', Taken, Made, Added, LeftOver)
  PROVE  R!RelatedAsAsked'
<1>1. /\ Before' = Before /\ There' = There /\ (\A o, related : R!Asked(o, related)' = R!Asked(o, related))
      /\ (\A o : R!Present(o)' = R!Present(o)) /\ bag' = bag /\ kind' = kind /\ base' = base
  BY DEF Before, R!Related, There, R!Asked, R!Present
<1>2. /\ R!Related(db') = (LeftOver \cup Added) \cap ((There \ Taken) \cup Made)
      /\ \A c \in Taken \ Made : db'.child[c] = Gone
      /\ \A c \in Children \ (Taken \cup Before \cup Added) :
           db'.child[c] = base.child[c] /\ \A p \in Parents : <<p, c>> \in db'.link <=> <<p, c>> \in base.link
  BY DEF Outcome
<1>3. R!Related(db)' = R!Related(db') /\ R!Related(base)' = Before
  BY <1>1 DEF R!Related, Before
<1>4. Taken' = Taken /\ Made' = Made /\ Added' = Added /\ LeftOver' = LeftOver
  BY <1>1 DEF Taken, Made, Added, LeftOver, Connected
<1>5. R!RelatedAsAsked' <=>
        (phase' = "done" =>
           /\ R!Related(db)' = (LeftOver' \cup Added') \cap ((There' \ Taken') \cup Made')
           /\ \A c \in Taken' \ Made' : db'.child[c] = Gone
           /\ \A c \in Children \ (Taken' \cup Before' \cup Added') :
                db'.child[c] = base'.child[c] /\ \A p \in Parents : <<p, c>> \in db'.link <=> <<p, c>> \in base'.link)
  BY DEF R!RelatedAsAsked, LeftOver, Added, Taken, Made, Before, There, Connected
<1> HIDE DEF Taken, Made, Added, LeftOver, There, Before
<1> QED BY <1>1, <1>2, <1>3, <1>4, <1>5

LEMMA InverseThen ==
  ASSUME InverseGiven, NEW d, NEW gone \in SUBSET Children, NEW cut \in SUBSET Before, NEW mine \in SUBSET Children, InverseIs(d, gone, cut, mine)
  PROVE  R!Related(d) = mine \cup (Before \ (gone \cup cut))
<1>1. Subject # Gone /\ Subject # Nobody
  BY Apart DEF InverseGiven
<1>2. Before = {c \in Children : base.child[c] = Subject}
  BY BaseIs
<1>3. ASSUME NEW c \in Children
      PROVE  d.child[c] = IF c \in mine THEN Subject ELSE IF c \in gone THEN Gone ELSE IF c \in cut THEN Nobody ELSE base.child[c]
  BY DEF InverseIs
<1>4. ASSUME NEW c \in Children
      PROVE  (d.child[c] = Subject) <=> (c \in mine \cup (Before \ (gone \cup cut)))
  BY <1>1, <1>2, <1>3
<1>5. R!Related(d) = {c \in Children : d.child[c] = Subject}
  BY BaseIs DEF R!Related
<1>6. mine \cup (Before \ (gone \cup cut)) \subseteq Children
  BY <1>2
<1> QED BY <1>4, <1>5, <1>6

LEMMA InverseAsked ==
  ASSUME InverseGiven
  PROVE  /\ Taken = Removed /\ R!Asked("connectOrCreate", {}) = {}
         /\ R!Asked("create", {}) \subseteq Children /\ Connected \subseteq Children
         /\ R!Present("set") => bag.set \subseteq Children
<1>1. kind # "m2m" /\ kind \in {"owner", "one", "many", "m2m"} /\ bag \in R!Bags /\ R!WellFormed
  BY DEF InverseGiven, Given
<1>2. bag.connectOrCreate = Absent
  BY <1>1, BagIs DEF InverseGiven
<1>3. R!Present("set") => bag.set \subseteq Children
  BY InverseBag, GivenRows DEF R!Present
<1>4. R!Asked("create", {}) \subseteq Children /\ Connected \subseteq Children
  BY InverseBag DEF R!Asked, Connected, Rowsets
<1> QED BY <1>1, <1>2, <1>3, <1>4 DEF Taken, Removed, R!Asked

\* After the last stage the children point where they were asked to.
LEMMA InverseOutcome ==
  ASSUME InverseGiven, NEW q, NEW d, InverseStage(q, d), q = <<>>
  PROVE  Outcome(d, Taken, Made, Added, LeftOver)
<1>1. Removed \subseteq Before /\ Before \subseteq There /\ Cut \subseteq Before /\ Before \in SUBSET Children
      /\ Removed \in SUBSET Children /\ Had \subseteq Children
  BY BaseIs DEF There, Had
<1>2. kind # "owner"
  BY BaseIs
<1> DEFINE created == R!Asked("create", {})
<1>3. CASE R!Present("set") /\ InverseIs(d, Removed, Before, bag.set \cap Had)
  <2> DEFINE mine == bag.set \cap Had
  <2>1. mine \in SUBSET Children /\ Before \in SUBSET Before
    BY <1>1
  <2>2. R!Related(d) = mine \cup (Before \ (Removed \cup Before))
    <3> HIDE DEF mine
    <3>1. InverseIs(d, Removed, Before, mine)
      BY <1>3 DEF mine
    <3> QED BY <1>1, <2>1, <3>1, InverseThen
  <2>3. Made = {} /\ Added = bag.set /\ LeftOver = {} /\ Taken = Removed
    BY <1>3, InverseAsked DEF Made, Added, LeftOver
  <2>4. R!Related(d) = (LeftOver \cup Added) \cap ((There \ Taken) \cup Made)
    BY <2>2, <2>3 DEF Had
  <2>5. /\ d.link = base.link
        /\ \A c \in Children : d.child[c] = IF c \in mine THEN Subject ELSE IF c \in Removed THEN Gone
                                             ELSE IF c \in Before THEN Nobody ELSE base.child[c]
    BY <1>3 DEF InverseIs
  <2> HIDE DEF There, Before, Removed
  <2>6. \A c \in Taken \ Made : d.child[c] = Gone
    BY <1>1, <2>3, <2>5 DEF Had
  <2>7. \A c \in Children \ (Taken \cup Before \cup Added) : d.child[c] = base.child[c]
    BY <2>3, <2>5
  <2> QED BY <2>4, <2>5, <2>6, <2>7 DEF Outcome
<1>4. CASE ~R!Present("set") /\ InverseIs(d, Removed, Cut, (Connected \cap Had) \cup created)
  <2> DEFINE mine == (Connected \cap Had) \cup created
  <2>1. mine \in SUBSET Children /\ created \subseteq Children /\ Cut \in SUBSET Before
    BY <1>1, InverseAsked
  <2>2. R!Related(d) = mine \cup (Before \ (Removed \cup Cut))
    <3> HIDE DEF mine
    <3>1. InverseIs(d, Removed, Cut, mine)
      BY <1>4 DEF mine
    <3> QED BY <1>1, <2>1, <3>1, InverseThen
  <2>3. Made = created /\ Added = Connected \cup created /\ Taken = Removed
        /\ LeftOver = (Before \ Removed) \ R!Asked("disconnect", Before)
    BY <1>2, <1>4, InverseAsked DEF Made, Added, LeftOver
  <2>4. /\ d.link = base.link
        /\ \A c \in Children : d.child[c] = IF c \in mine THEN Subject ELSE IF c \in Removed THEN Gone
                                             ELSE IF c \in Cut THEN Nobody ELSE base.child[c]
    BY <1>4 DEF InverseIs
  <2> HIDE DEF There, Before, Removed, created
  <2>5. R!Related(d) = (LeftOver \cup Added) \cap ((There \ Taken) \cup Made)
    BY <1>1, <2>2, <2>3 DEF Had, Cut
  <2>6. \A c \in Taken \ Made : d.child[c] = Gone
    BY <1>1, <2>3, <2>4 DEF Had
  <2>7. \A c \in Children \ (Taken \cup Before \cup Added) : d.child[c] = base.child[c]
    BY <1>1, <2>3, <2>4
  <2> QED BY <2>4, <2>5, <2>6, <2>7 DEF Outcome
<1>5. \/ R!Present("set") /\ InverseIs(d, Removed, Before, bag.set \cap Had)
      \/ ~R!Present("set") /\ InverseIs(d, Removed, Cut, (Connected \cap Had) \cup created)
  BY InverseEnds
<1> QED BY <1>3, <1>4, <1>5

---------------------------------------------------------------------------
(* Links of a many-to-many relation. *)

Dropped == R!Asked("delete", Before)
Unlinked == R!Asked("disconnect", Children)
Surviving == There \ Dropped
Found == R!Asked("connectOrCreate", {})

\* The tables when the rows of dropped are deleted and those of made are new,
\* Subject's links to cut are gone and those to put are there.
LinksAre(d, dropped, made, cut, put) ==
  /\ d \in Records
  /\ d.child = [c \in Children |-> IF c \in made THEN Nobody ELSE IF c \in dropped THEN Gone ELSE base.child[c]]
  /\ d.link = {l \in base.link : l[2] \notin dropped /\ ~(l[1] = Subject /\ l[2] \in cut)} \cup R!Links(put)

\* The statements from connectOrCreate, the links, and disconnect on.
ToFind == R!When("connectOrCreate", R!FindOrCreates \o R!Stmt("insert", bag.connectOrCreate))
ToInsert == IF R!Present("set") THEN R!Stmt("unlink", All) \o R!Stmt("insert", bag.set)
            ELSE R!When("connect", R!Stmt("insert", bag.connect)) \o ToFind
ToCut == R!When("disconnect", R!Stmt("unlink", bag.disconnect)) \o ToInsert

\* How far the write is, and what that means for the tables.
LinkStage(q, d) ==
  \/ q = R!Stmt("parent", {}) \o R!M2MWrite /\ d = base
  \/ R!Present("delete") /\ bag.delete = All /\ q = R!Stmt("list", {}) \o ToCut /\ LinksAre(d, {}, {}, {}, {})
  \/ R!Present("delete") /\ q = R!Stmt("unlink", Dropped) \o (R!Stmt("drop", Dropped) \o ToCut) /\ LinksAre(d, {}, {}, {}, {})
  \/ R!Present("delete") /\ q = R!Stmt("drop", Dropped) \o ToCut /\ LinksAre(d, {}, {}, Dropped, {})
  \/ R!Present("disconnect") /\ q = R!Stmt("unlink", bag.disconnect) \o ToInsert /\ LinksAre(d, Dropped, {}, {}, {})
  \/ R!Present("set") /\ q = R!Stmt("unlink", All) \o R!Stmt("insert", bag.set) /\ LinksAre(d, Dropped, {}, Unlinked, {})
  \/ R!Present("set") /\ q = R!Stmt("insert", bag.set) /\ LinksAre(d, Dropped, {}, Children, {})
  \/ ~R!Present("set") /\ R!Present("connect") /\ q = R!Stmt("insert", bag.connect) \o ToFind /\ LinksAre(d, Dropped, {}, Unlinked, {})
  \/ /\ ~R!Present("set") /\ R!Present("connectOrCreate")
     /\ \E w \in Seq(Children), made \in SUBSET Children :
          /\ Elements(w) \subseteq bag.connectOrCreate /\ made \subseteq bag.connectOrCreate \ Surviving
          /\ bag.connectOrCreate \subseteq Elements(w) \cup made \cup Surviving
          /\ q = OneByOne("findOrCreate", w) \o R!Stmt("insert", bag.connectOrCreate)
          /\ LinksAre(d, Dropped, made, Unlinked, Connected \cap Surviving)
  \/ /\ q = <<>>
     /\ \/ R!Present("set") /\ LinksAre(d, Dropped, {}, Children, bag.set \cap Surviving)
        \/ ~R!Present("set") /\ LinksAre(d, Dropped, Found \ Surviving, Unlinked, (Connected \cap Surviving) \cup Found)

LinkedGiven == R!WellFormed /\ Given /\ kind = "m2m"

LEMMA LinkedBag ==
  ASSUME LinkedGiven
  PROVE  /\ bag.set \in Rowsets /\ bag.connect \in Rowsets /\ bag.connectOrCreate \in Rowsets /\ bag.create = Absent
         /\ bag.delete \in Rowsets \cup {All} /\ bag.disconnect \in Rowsets \cup {All}
         /\ All # Absent /\ All \notin Rowsets
<1>1. kind \in {"owner", "one", "many", "m2m"} /\ bag \in R!Bags /\ R!WellFormed
  BY DEF LinkedGiven, Given
<1>2. All # Absent /\ All \notin Rowsets
  BY <1>1 DEF R!WellFormed, Rowsets
<1> QED BY <1>1, <1>2, BagIs DEF LinkedGiven

LEMMA LinkedBase ==
  ASSUME LinkedGiven
  PROVE  /\ base \in Records /\ base.link \in SUBSET (Parents \X Children) /\ Before = {c \in Children : <<Subject, c>> \in base.link}
         /\ base.child \in [Children -> {Nobody, Gone}] /\ \A l \in base.link : l[2] \in There
         /\ Before \subseteq There /\ There \subseteq Children /\ Surviving \subseteq There
         /\ Dropped \subseteq Children /\ Unlinked \subseteq Children /\ Connected \subseteq Children /\ Found \subseteq Children
         /\ Subject \in Parents /\ Nobody # Gone
<1>1. kind = "m2m" /\ base \in R!Databases /\ R!Possible(base)
  BY DEF LinkedGiven, Given
<1>2. base \in Records /\ base.link \in SUBSET (Parents \X Children)
  BY <1>1 DEF R!Databases, Records
<1>3. Before = {c \in Children : <<Subject, c>> \in base.link}
  BY <1>1 DEF Before, R!Related
<1>4. base.child \in [Children -> {Nobody, Gone}]
  BY <1>1 DEF R!Possible, R!Databases
<1>5. \A l \in base.link : l[2] \in There
  BY <1>1, <1>2 DEF R!Possible, There
<1>6. Before \subseteq There /\ There \subseteq Children /\ Surviving \subseteq There
  BY <1>3, <1>5 DEF There, Surviving
<1>7. Dropped \subseteq Children /\ Unlinked \subseteq Children /\ Connected \subseteq Children /\ Found \subseteq Children
  BY <1>6, LinkedBag DEF Dropped, Unlinked, Connected, Found, R!Asked, Rowsets
<1>8. Subject \in Parents /\ Nobody # Gone
  BY Apart DEF LinkedGiven
<1> QED BY <1>2, <1>3, <1>4, <1>5, <1>6, <1>7, <1>8

\* What exists, and what is related.
LEMMA LinkedNow ==
  ASSUME LinkedGiven, NEW d, NEW dropped, NEW made, NEW cut, NEW put, dropped \subseteq Children, made \subseteq Children, put \subseteq Children,
         LinksAre(d, dropped, made, cut, put)
  PROVE  /\ R!Related(d) = (Before \ (dropped \cup cut)) \cup put
         /\ d = db => R!Exist = made \cup (There \ dropped)
<1>1. R!Related(d) = {c \in Children : <<Subject, c>> \in d.link}
  BY DEF LinkedGiven, R!Related
<1>2. ASSUME NEW c \in Children
      PROVE  <<Subject, c>> \in d.link <=> (c \in (Before \ (dropped \cup cut)) \cup put)
  <2>1. <<Subject, c>> \in R!Links(put) <=> c \in put
    BY DEF R!Links
  <2>2. <<Subject, c>> \in base.link <=> c \in Before
    BY LinkedBase
  <2> QED BY <2>1, <2>2 DEF LinksAre
<1>3. ASSUME NEW c \in Children
      PROVE  (d.child[c] # Gone) <=> (c \in made \cup (There \ dropped))
  <2>1. d.child[c] = IF c \in made THEN Nobody ELSE IF c \in dropped THEN Gone ELSE base.child[c]
    BY DEF LinksAre
  <2>2. c \in There <=> base.child[c] # Gone
    BY DEF There
  <2> QED BY <2>1, <2>2, LinkedBase
<1>4. (Before \ (dropped \cup cut)) \cup put \subseteq Children /\ made \cup (There \ dropped) \subseteq Children
  BY LinkedBase
<1> QED BY <1>1, <1>2, <1>3, <1>4 DEF R!Exist

LEMMA LinkedSeqs ==
  ASSUME LinkedGiven
  PROVE  /\ ToFind \in Seq(Stmts) /\ ToInsert \in Seq(Stmts) /\ ToCut \in Seq(Stmts) /\ R!M2MWrite \in Seq(Stmts)
         /\ R!M2MWrite = R!When("delete", IF bag.delete = All THEN R!Stmt("list", {}) ELSE R!DeleteRelated(bag.delete)) \o ToCut
         /\ \A rows \in Orders : R!Stmt("drop", rows) \o ToCut \in Seq(Stmts)
<1>1. <<>> \in Seq(Stmts) /\ R!WellFormed /\ All \in Orders /\ {} \in Orders
  BY GivenRows DEF LinkedGiven
<1>2. {"unlink", "drop", "list", "insert", "findOrCreate"} \subseteq Acts
  BY DEF Acts
<1>3. ToFind \in Seq(Stmts)
  <2>1. CASE R!Present("connectOrCreate")
    <3>1. bag.connectOrCreate \in SUBSET Children /\ bag.connectOrCreate \in Orders
      BY <2>1, LinkedBag, GivenRows DEF R!Present
    <3>2. PICK w \in Seq(Children) : R!FindOrCreates = OneByOne("findOrCreate", w)
      BY <1>1, <3>1, FindsAre
    <3>3. R!FindOrCreates \in Seq(Stmts) /\ R!Stmt("insert", bag.connectOrCreate) \in Seq(Stmts)
      BY <1>2, <3>1, <3>2, OneByOneIs, StmtIs
    <3> QED BY <2>1, <3>3, Joined DEF ToFind, R!When
  <2> QED BY <1>1, <2>1 DEF ToFind, R!When
<1>4. ToInsert \in Seq(Stmts)
  <2>1. CASE R!Present("set")
    <3>1. bag.set \in Orders
      BY <2>1, LinkedBag, GivenRows DEF R!Present
    <3>2. R!Stmt("unlink", All) \in Seq(Stmts) /\ R!Stmt("insert", bag.set) \in Seq(Stmts)
      BY <1>1, <1>2, <3>1, StmtIs
    <3> QED BY <2>1, <3>2, Joined DEF ToInsert
  <2>2. CASE ~R!Present("set") /\ R!Present("connect")
    <3>1. bag.connect \in Orders
      BY <2>2, LinkedBag, GivenRows DEF R!Present
    <3>2. R!Stmt("insert", bag.connect) \in Seq(Stmts)
      BY <1>2, <3>1, StmtIs
    <3> QED BY <1>3, <2>2, <3>2, Joined DEF ToInsert, R!When
  <2>3. CASE ~R!Present("set") /\ ~R!Present("connect")
    BY <1>1, <1>3, <2>3, Joined DEF ToInsert, R!When
  <2> QED BY <2>1, <2>2, <2>3
<1>5. R!When("disconnect", R!Stmt("unlink", bag.disconnect)) \in Seq(Stmts)
  <2>1. CASE R!Present("disconnect")
    <3>1. bag.disconnect \in Orders
      BY <2>1, LinkedBag, GivenRows DEF R!Present
    <3> QED BY <1>2, <2>1, <3>1, StmtIs DEF R!When
  <2> QED BY <1>1, <2>1 DEF R!When
<1> DEFINE first == R!When("delete", IF bag.delete = All THEN R!Stmt("list", {}) ELSE R!DeleteRelated(bag.delete))
<1>6. first \in Seq(Stmts)
  <2>1. CASE R!Present("delete") /\ bag.delete = All
    BY <1>1, <1>2, <2>1, StmtIs DEF R!When
  <2>2. CASE R!Present("delete") /\ bag.delete # All
    <3>1. bag.delete \in Orders
      BY <2>2, LinkedBag, GivenRows DEF R!Present
    <3>2. R!Stmt("unlink", bag.delete) \in Seq(Stmts) /\ R!Stmt("drop", bag.delete) \in Seq(Stmts)
      BY <1>2, <3>1, StmtIs
    <3> QED BY <2>2, <3>2, Joined DEF R!DeleteRelated, R!When
  <2> QED BY <1>1, <2>1, <2>2 DEF R!When
<1>7. ToCut \in Seq(Stmts)
  BY <1>4, <1>5, Joined DEF ToCut
<1>8. R!M2MWrite = (first \o R!When("disconnect", R!Stmt("unlink", bag.disconnect))) \o ToInsert
  BY DEF R!M2MWrite, ToInsert, ToFind
<1>9. R!M2MWrite = first \o ToCut
  <2> HIDE DEF first
  <2> QED BY <1>4, <1>5, <1>6, <1>8, Joined DEF ToCut
<1>10. R!M2MWrite \in Seq(Stmts)
  <2> HIDE DEF first
  <2> QED BY <1>6, <1>7, <1>9, Joined
<1>11. \A rows \in Orders : R!Stmt("drop", rows) \o ToCut \in Seq(Stmts)
  BY <1>2, <1>7, StmtIs, Joined
<1> QED BY <1>3, <1>4, <1>7, <1>9, <1>10, <1>11

(* What each statement of a many-to-many write leaves. *)

\* Rows made or dropped.
LEMMA LinkedMade ==
  ASSUME LinkedGiven, NEW dropped, NEW made, NEW cut, NEW put, LinksAre(db, dropped, made, cut, put),
         NEW rows, NEW value \in {Nobody, Gone}, NEW dropped1, NEW made1,
         \A c \in Children :
           (IF c \in rows THEN value ELSE IF c \in made THEN Nobody ELSE IF c \in dropped THEN Gone ELSE base.child[c])
           = IF c \in made1 THEN Nobody ELSE IF c \in dropped1 THEN Gone ELSE base.child[c]
  PROVE  LET e == R!SetChildren(rows, value)
         IN e \in Records /\ e.link = db.link
            /\ e.child = [c \in Children |-> IF c \in made1 THEN Nobody ELSE IF c \in dropped1 THEN Gone ELSE base.child[c]]
<1> DEFINE e == R!SetChildren(rows, value)
<1>1. db \in Records
  BY DEF LinksAre
<1>2. e \in Records /\ e.child = [c \in Children |-> IF c \in rows THEN value ELSE db.child[c]] /\ e.link = db.link
  BY <1>1, ChildrenSet
<1> HIDE DEF e
<1>3. \A c \in Children : db.child[c] = IF c \in made THEN Nobody ELSE IF c \in dropped THEN Gone ELSE base.child[c]
  BY DEF LinksAre
<1>4. \A c \in Children : e.child[c] = IF c \in made1 THEN Nobody ELSE IF c \in dropped1 THEN Gone ELSE base.child[c]
  BY <1>2, <1>3
<1>5. e.child = [c \in Children |-> IF c \in made1 THEN Nobody ELSE IF c \in dropped1 THEN Gone ELSE base.child[c]]
  BY <1>2, <1>4
<1>6. e \in Records /\ e.link = db.link
  BY <1>2
<1> QED BY <1>5, <1>6 DEF e

\* Links cut.
LEMMA LinkedCut ==
  ASSUME LinkedGiven, NEW dropped, LinksAre(db, dropped, {}, {}, {}), NEW rows
  PROVE  LinksAre([db EXCEPT !.link = @ \ R!Links(rows)], dropped, {}, rows, {})
<1> DEFINE e == [db EXCEPT !.link = db.link \ R!Links(rows)]
<1>1. db \in Records /\ db.link \ R!Links(rows) \in SUBSET (Parents \X Children)
  BY DEF LinksAre, Records
<1>2. e \in Records /\ e.link = db.link \ R!Links(rows) /\ e.child = db.child
  BY <1>1, LinksSet
<1>3. db.link = {l \in base.link : l[2] \notin dropped}
  BY DEF LinksAre, R!Links
<1>4. \A l \in base.link : l \in R!Links(rows) <=> (l[1] = Subject /\ l[2] \in rows)
  BY LinkedBase DEF R!Links
<1>5. e.link = {l \in base.link : l[2] \notin dropped /\ ~(l[1] = Subject /\ l[2] \in rows)}
  BY <1>2, <1>3, <1>4
<1>6. R!Links({}) = {}
  BY DEF R!Links
<1> HIDE DEF e
<1>7. LinksAre(e, dropped, {}, rows, {})
  BY <1>2, <1>5, <1>6 DEF LinksAre
<1> QED BY <1>7 DEF e

\* Unlinking every child after some.
LEMMA LinkedCutAll ==
  ASSUME LinkedGiven, NEW dropped, NEW cut, LinksAre(db, dropped, {}, cut, {}), cut \subseteq Children
  PROVE  LinksAre([db EXCEPT !.link = @ \ R!Links(Children)], dropped, {}, Children, {})
<1> DEFINE e == [db EXCEPT !.link = db.link \ R!Links(Children)]
<1>1. db \in Records /\ db.link \ R!Links(Children) \in SUBSET (Parents \X Children)
  BY DEF LinksAre, Records
<1>2. e \in Records /\ e.link = db.link \ R!Links(Children) /\ e.child = db.child
  BY <1>1, LinksSet
<1>3. db.link = {l \in base.link : l[2] \notin dropped /\ ~(l[1] = Subject /\ l[2] \in cut)}
  BY DEF LinksAre, R!Links
<1>4. \A l \in base.link : l \in R!Links(Children) <=> (l[1] = Subject /\ l[2] \in Children)
  BY LinkedBase DEF R!Links
<1>5. e.link = {l \in base.link : l[2] \notin dropped /\ ~(l[1] = Subject /\ l[2] \in Children)}
  BY <1>2, <1>3, <1>4
<1>6. R!Links({}) = {}
  BY DEF R!Links
<1> HIDE DEF e
<1>7. LinksAre(e, dropped, {}, Children, {})
  BY <1>2, <1>5, <1>6 DEF LinksAre
<1> QED BY <1>7 DEF e

\* Links put.
LEMMA LinkedPut ==
  ASSUME LinkedGiven, NEW dropped, NEW made, NEW cut, NEW put, LinksAre(db, dropped, made, cut, put), NEW rows \in SUBSET Children
  PROVE  LinksAre([db EXCEPT !.link = @ \cup R!Links(rows)], dropped, made, cut, put \cup rows)
<1> DEFINE e == [db EXCEPT !.link = db.link \cup R!Links(rows)]
<1>1. db \in Records /\ db.link \cup R!Links(rows) \in SUBSET (Parents \X Children)
  BY LinkedBase DEF LinksAre, Records, R!Links
<1>2. e \in Records /\ e.link = db.link \cup R!Links(rows) /\ e.child = db.child
  BY <1>1, LinksSet
<1>3. R!Links(put) \cup R!Links(rows) = R!Links(put \cup rows)
  BY DEF R!Links
<1> HIDE DEF e
<1>4. LinksAre(e, dropped, made, cut, put \cup rows)
  BY <1>2, <1>3 DEF LinksAre
<1> QED BY <1>4 DEF e

LEMMA LinkedDrop ==
  ASSUME LinkedGiven, NEW rows \in SUBSET Children, LinksAre(db, {}, {}, rows, {})
  PROVE  LinksAre([R!SetChildren(rows, Gone) EXCEPT !.link = {l \in @ : l[2] \notin rows}], rows, {}, {}, {})
<1> DEFINE f == R!SetChildren(rows, Gone)
           e == [f EXCEPT !.link = {l \in f.link : l[2] \notin rows}]
<1>1. f \in Records /\ f.link = db.link
      /\ f.child = [c \in Children |-> IF c \in {} THEN Nobody ELSE IF c \in rows THEN Gone ELSE base.child[c]]
  BY LinkedMade
<1> HIDE DEF f
<1>2. e \in Records /\ e.child = f.child /\ e.link = {l \in db.link : l[2] \notin rows}
  BY <1>1 DEF Records
<1>3. db.link = {l \in base.link : ~(l[1] = Subject /\ l[2] \in rows)} \cup R!Links({}) /\ R!Links({}) = {}
  BY DEF LinksAre, R!Links
<1>4. e.link = {l \in base.link : l[2] \notin rows /\ ~(l[1] = Subject /\ l[2] \in {})} \cup R!Links({})
  BY <1>2, <1>3
<1> HIDE DEF e
<1>5. LinksAre(e, rows, {}, {}, {})
  BY <1>1, <1>2, <1>4 DEF LinksAre
<1> QED BY <1>5 DEF e, f

LEMMA EnterFind ==
  ASSUME LinkedGiven, ~R!Present("set"), NEW d, LinksAre(d, Dropped, {}, Unlinked, Connected \cap Surviving)
  PROVE  LinkStage(ToFind, d)
<1>1. CASE R!Present("connectOrCreate")
  <2>1. bag.connectOrCreate \in SUBSET Children
    BY <1>1, LinkedBag, GivenRows DEF R!Present
  <2>2. PICK w \in Seq(Children) : R!FindOrCreates = OneByOne("findOrCreate", w) /\ Elements(w) = bag.connectOrCreate
    BY <2>1, FindsAre DEF LinkedGiven
  <2>3. /\ Elements(w) \subseteq bag.connectOrCreate /\ {} \subseteq bag.connectOrCreate \ Surviving /\ {} \in SUBSET Children
        /\ bag.connectOrCreate \subseteq Elements(w) \cup {} \cup Surviving
    BY <2>2
  <2>4. ToFind = OneByOne("findOrCreate", w) \o R!Stmt("insert", bag.connectOrCreate)
    BY <1>1, <2>2 DEF ToFind, R!When
  <2> HIDE DEF ToFind
  <2> QED BY <1>1, <2>2, <2>3, <2>4 DEF LinkStage
<1>2. CASE ~R!Present("connectOrCreate")
  <2>1. ToFind = <<>> /\ Found = {}
    BY <1>2 DEF ToFind, R!When, Found, R!Asked, R!Present
  <2>2. Found \ Surviving = {} /\ (Connected \cap Surviving) \cup Found = Connected \cap Surviving
    BY <2>1
  <2>3. LinksAre(d, Dropped, Found \ Surviving, Unlinked, (Connected \cap Surviving) \cup Found)
    BY <2>2
  <2> QED BY <2>1, <2>3 DEF LinkStage
<1> QED BY <1>1, <1>2

LEMMA EnterInsert == ASSUME LinkedGiven, NEW d, LinksAre(d, Dropped, {}, Unlinked, {}) PROVE LinkStage(ToInsert, d)
<1>1. CASE R!Present("set")
  BY <1>1 DEF LinkStage, ToInsert
<1>2. CASE ~R!Present("set") /\ R!Present("connect")
  <2>1. ToInsert = R!Stmt("insert", bag.connect) \o ToFind
    BY <1>2 DEF ToInsert, R!When
  <2> QED BY <1>2, <2>1 DEF LinkStage
<1>3. CASE ~R!Present("set") /\ ~R!Present("connect")
  <2>1. ToInsert = ToFind
    BY <1>3, LinkedSeqs, Joined DEF ToInsert, R!When
  <2>2. Connected \cap Surviving = {}
    BY <1>3 DEF Connected, R!Asked, R!Present
  <2> QED BY <1>3, <2>1, <2>2, EnterFind
<1> QED BY <1>1, <1>2, <1>3

LEMMA EnterCut == ASSUME LinkedGiven, NEW d, LinksAre(d, Dropped, {}, {}, {}) PROVE LinkStage(ToCut, d)
<1>1. CASE R!Present("disconnect")
  <2>1. ToCut = R!Stmt("unlink", bag.disconnect) \o ToInsert
    BY <1>1 DEF ToCut, R!When
  <2> QED BY <1>1, <2>1 DEF LinkStage
<1>2. CASE ~R!Present("disconnect")
  <2>1. ToCut = ToInsert
    BY <1>2, LinkedSeqs, Joined DEF ToCut, R!When
  <2>2. Unlinked = {}
    BY <1>2 DEF Unlinked, R!Asked, R!Present
  <2> QED BY <2>1, <2>2, EnterInsert
<1> QED BY <1>1, <1>2

LEMMA DeletesAre ==
  ASSUME LinkedGiven, NEW rows \in SUBSET Children
  PROVE  /\ [do |-> "unlink", rows |-> rows] \in Stmts /\ [do |-> "drop", rows |-> rows] \in Stmts
         /\ R!DeleteRelated(rows) \o ToCut = R!Stmt("unlink", rows) \o (R!Stmt("drop", rows) \o ToCut)
         /\ R!Stmt("drop", rows) \o ToCut \in Seq(Stmts)
<1>1. rows \in Orders /\ "unlink" \in Acts /\ "drop" \in Acts
  BY DEF Orders, Acts
<1>2. R!Stmt("unlink", rows) \in Seq(Stmts) /\ R!Stmt("drop", rows) \in Seq(Stmts)
  BY <1>1, StmtIs
<1>3. [do |-> "unlink", rows |-> rows] \in Stmts /\ [do |-> "drop", rows |-> rows] \in Stmts
  BY <1>1, StmtIs
<1>4. ToCut \in Seq(Stmts)
  BY LinkedSeqs
<1>5. R!Stmt("drop", rows) \o ToCut \in Seq(Stmts)
        /\ (R!Stmt("unlink", rows) \o R!Stmt("drop", rows)) \o ToCut = R!Stmt("unlink", rows) \o (R!Stmt("drop", rows) \o ToCut)
  BY <1>2, <1>4, Joined
<1> QED BY <1>3, <1>5 DEF R!DeleteRelated

LEMMA EnterLinks == ASSUME LinkedGiven, NEW d, LinksAre(d, {}, {}, {}, {}) PROVE LinkStage(R!M2MWrite, d)
<1>1. R!M2MWrite = R!When("delete", IF bag.delete = All THEN R!Stmt("list", {}) ELSE R!DeleteRelated(bag.delete)) \o ToCut
  BY LinkedSeqs
<1>2. CASE R!Present("delete") /\ bag.delete = All
  <2>1. R!M2MWrite = R!Stmt("list", {}) \o ToCut
    BY <1>1, <1>2 DEF R!When
  <2> QED BY <1>2, <2>1 DEF LinkStage
<1>3. CASE R!Present("delete") /\ bag.delete # All
  <2>1. bag.delete \in SUBSET Children
    BY <1>3, LinkedBag, GivenRows DEF R!Present
  <2>2. R!M2MWrite = R!DeleteRelated(bag.delete) \o ToCut /\ Dropped = bag.delete
    BY <1>1, <1>3 DEF R!When, Dropped, R!Asked, R!Present
  <2>3. R!M2MWrite = R!Stmt("unlink", Dropped) \o (R!Stmt("drop", Dropped) \o ToCut)
    BY <2>1, <2>2, DeletesAre
  <2> QED BY <1>3, <2>3 DEF LinkStage
<1>4. CASE ~R!Present("delete")
  <2>1. R!M2MWrite = ToCut
    BY <1>1, <1>4, LinkedSeqs, Joined DEF R!When
  <2>2. Dropped = {}
    BY <1>4 DEF Dropped, R!Asked, R!Present
  <2> QED BY <2>1, <2>2, EnterCut
<1> QED BY <1>2, <1>3, <1>4

\* Before the first statement.
LEMMA LinkedStart ==
  ASSUME LinkedGiven, NEW d \in Records, d.child = base.child, d.link = base.link
  PROVE  LinksAre(d, {}, {}, {}, {})
<1>1. base.child = [c \in Children |-> IF c \in {} THEN Nobody ELSE IF c \in {} THEN Gone ELSE base.child[c]]
  BY LinkedBase
<1>2. base.link = {l \in base.link : l[2] \notin {} /\ ~(l[1] = Subject /\ l[2] \in {})} \cup R!Links({})
  BY DEF R!Links
<1> QED BY <1>1, <1>2 DEF LinksAre

LEMMA ExecuteList ==
  ASSUME R!Execute, NEW X \in Seq(Stmts), todo = <<[do |-> "list", rows |-> {}]>> \o X
  PROVE  /\ db' = db
         /\ \/ R!Related(db) # {} /\ todo' = R!DeleteRelated(R!Related(db)) \o X /\ phase' = "run"
            \/ R!Related(db) = {} /\ todo' = X /\ phase' = IF X = <<>> THEN "done" ELSE "run"
<1> DEFINE s == [do |-> "list", rows |-> {}]
<1>1. s \in Stmts
  BY DEF Stmts, Acts, Orders
<1>2. s.do = "list" /\ R!Effect(s) = db
  BY Effects
<1> HIDE DEF s
<1>3. Head(todo) = s /\ Tail(todo) = X /\ (Len(todo) = 1 <=> X = <<>>)
  BY <1>1, FirstOf DEF s
<1> QED BY <1>2, <1>3 DEF R!Execute, R!Done

\* Each statement leads to the next stage.
LEMMA LinkStep ==
  ASSUME LinkedGiven, R!Execute, LinkStage(todo, db), todo # <<>>
  PROVE  LinkStage(todo', db') /\ phase' = IF todo' = <<>> THEN "done" ELSE "run"
<1> DEFINE none == {}
<1>0. none \subseteq Children /\ Dropped \in SUBSET Children /\ Subject \in Parents /\ Nobody # Gone
  BY LinkedBase
<1>1. CASE todo = R!Stmt("parent", {}) \o R!M2MWrite /\ db = base
  <2> DEFINE s == [do |-> "parent", rows |-> {}]
  <2>1. s \in Stmts /\ todo = <<s>> \o R!M2MWrite /\ R!M2MWrite \in Seq(Stmts)
    BY <1>1, ParentSeq, LinkedSeqs
  <2>2. db' = R!Effect(s) /\ todo' = R!M2MWrite /\ phase' = IF R!M2MWrite = <<>> THEN "done" ELSE "run"
    BY <2>1, ExecuteOne
  <2>3. db' = [db EXCEPT !.parent[Subject] = "new", !.ref[Subject] = Nobody]
    BY <2>2, Effects
  <2>4. db' \in Records /\ db'.child = base.child /\ db'.link = base.link
    BY <1>1, <2>3, ParentSet, LinkedBase
  <2>5. LinksAre(db', {}, {}, {}, {})
    BY <2>4, LinkedStart
  <2> QED BY <2>2, <2>5, EnterLinks
<1>2. CASE R!Present("delete") /\ bag.delete = All /\ todo = R!Stmt("list", {}) \o ToCut /\ LinksAre(db, {}, {}, {}, {})
  <2>1. R!Related(db) = Before
    <3>1. LinksAre(db, none, none, none, none)
      BY <1>2
    <3> HIDE DEF none
    <3>2. R!Related(db) = (Before \ (none \cup none)) \cup none
      BY <1>0, <3>1, LinkedNow
    <3> QED BY <3>2 DEF none
  <2>2. Dropped = Before
    BY <1>2 DEF Dropped, R!Asked, R!Present
  <2>3. ToCut \in Seq(Stmts) /\ todo = <<[do |-> "list", rows |-> {}]>> \o ToCut
    BY <1>2, LinkedSeqs DEF R!Stmt
  <2>4. CASE R!Related(db) # {}
    <3>1. db' = db /\ todo' = R!DeleteRelated(Dropped) \o ToCut /\ phase' = "run"
      BY <2>1, <2>2, <2>3, <2>4, ExecuteList
    <3>2. todo' = R!Stmt("unlink", Dropped) \o (R!Stmt("drop", Dropped) \o ToCut)
      BY <1>0, <3>1, DeletesAre
    <3>3. todo' # <<>>
      <4>1. [do |-> "unlink", rows |-> Dropped] \in Stmts /\ R!Stmt("drop", Dropped) \o ToCut \in Seq(Stmts)
        BY <1>0, DeletesAre
      <4> QED BY <3>2, <4>1, FirstOf DEF R!Stmt
    <3>4. LinkStage(todo', db')
      BY <1>2, <3>1, <3>2 DEF LinkStage
    <3> QED BY <3>1, <3>3, <3>4
  <2>5. CASE R!Related(db) = {}
    <3>1. db' = db /\ todo' = ToCut /\ phase' = IF ToCut = <<>> THEN "done" ELSE "run"
      BY <2>3, <2>5, ExecuteList
    <3>2. LinksAre(db', Dropped, {}, {}, {})
      BY <1>2, <2>1, <2>2, <2>5, <3>1
    <3> QED BY <3>1, <3>2, EnterCut
  <2> QED BY <2>4, <2>5
<1>3. CASE R!Present("delete") /\ todo = R!Stmt("unlink", Dropped) \o (R!Stmt("drop", Dropped) \o ToCut) /\ LinksAre(db, {}, {}, {}, {})
  <2> DEFINE s == [do |-> "unlink", rows |-> Dropped]
             X == R!Stmt("drop", Dropped) \o ToCut
  <2>1. s \in Stmts /\ todo = <<s>> \o X /\ X \in Seq(Stmts)
    BY <1>0, <1>3, DeletesAre DEF R!Stmt
  <2>2. db' = R!Effect(s) /\ todo' = X /\ phase' = IF X = <<>> THEN "done" ELSE "run"
    <3> HIDE DEF X
    <3> QED BY <2>1, ExecuteOne
  <2>3. R!Named(Dropped) = Dropped
    BY <1>0 DEF LinkedGiven, R!WellFormed, R!Named
  <2>4. db' = [db EXCEPT !.link = @ \ R!Links(Dropped)]
    BY <2>2, <2>3, Effects
  <2>5. LinksAre([db EXCEPT !.link = @ \ R!Links(Dropped)], {}, {}, Dropped, {})
    BY <1>3, LinkedCut
  <2>6. LinkStage(X, db')
    BY <1>3, <2>4, <2>5 DEF LinkStage
  <2> QED BY <2>2, <2>6
<1>4. CASE R!Present("delete") /\ todo = R!Stmt("drop", Dropped) \o ToCut /\ LinksAre(db, {}, {}, Dropped, {})
  <2> DEFINE s == [do |-> "drop", rows |-> Dropped]
  <2>1. s \in Stmts /\ todo = <<s>> \o ToCut /\ ToCut \in Seq(Stmts)
    BY <1>0, <1>4, DeletesAre, LinkedSeqs DEF R!Stmt
  <2>2. db' = R!Effect(s) /\ todo' = ToCut /\ phase' = IF ToCut = <<>> THEN "done" ELSE "run"
    BY <2>1, ExecuteOne
  <2>3. db' = [R!SetChildren(Dropped, Gone) EXCEPT !.link = {l \in @ : l[2] \notin Dropped}]
    BY <2>2, Effects
  <2>4. LinksAre(db', Dropped, {}, {}, {})
    BY <1>0, <1>4, <2>3, LinkedDrop
  <2> QED BY <2>2, <2>4, EnterCut
<1>5. CASE R!Present("disconnect") /\ todo = R!Stmt("unlink", bag.disconnect) \o ToInsert /\ LinksAre(db, Dropped, {}, {}, {})
  <2> DEFINE s == [do |-> "unlink", rows |-> bag.disconnect]
  <2>1. s \in Stmts /\ todo = <<s>> \o ToInsert /\ ToInsert \in Seq(Stmts)
    <3>1. bag.disconnect \in Orders /\ "unlink" \in Acts
      BY <1>5, LinkedBag, GivenRows DEF Acts, R!Present
    <3> QED BY <1>5, <3>1, StmtIs, LinkedSeqs DEF R!Stmt
  <2>2. db' = R!Effect(s) /\ todo' = ToInsert /\ phase' = IF ToInsert = <<>> THEN "done" ELSE "run"
    BY <2>1, ExecuteOne
  <2>3. R!Named(bag.disconnect) = Unlinked
    BY <1>5 DEF R!Named, Unlinked, R!Asked, R!Present
  <2>4. db' = [db EXCEPT !.link = @ \ R!Links(Unlinked)]
    BY <2>2, <2>3, Effects
  <2>5. LinksAre([db EXCEPT !.link = @ \ R!Links(Unlinked)], Dropped, {}, Unlinked, {})
    BY <1>5, LinkedCut
  <2> QED BY <2>2, <2>4, <2>5, EnterInsert
<1>6. CASE R!Present("set") /\ todo = R!Stmt("unlink", All) \o R!Stmt("insert", bag.set) /\ LinksAre(db, Dropped, {}, Unlinked, {})
  <2> DEFINE s == [do |-> "unlink", rows |-> All]
             X == R!Stmt("insert", bag.set)
  <2>1. s \in Stmts /\ todo = <<s>> \o X /\ X \in Seq(Stmts)
    <3>1. bag.set \in Orders /\ All \in Orders /\ "unlink" \in Acts /\ "insert" \in Acts
      BY <1>6, LinkedBag, GivenRows DEF Acts, R!Present
    <3> QED BY <1>6, <3>1, StmtIs DEF R!Stmt
  <2>2. db' = R!Effect(s) /\ todo' = X /\ phase' = IF X = <<>> THEN "done" ELSE "run"
    <3> HIDE DEF X
    <3> QED BY <2>1, ExecuteOne
  <2>3. db' = [db EXCEPT !.link = @ \ R!Links(Children)]
    BY <2>2, Effects DEF R!Named
  <2>4. LinksAre([db EXCEPT !.link = @ \ R!Links(Children)], Dropped, {}, Children, {})
    BY <1>6, LinkedCutAll, LinkedBase
  <2>5. LinkStage(X, db')
    BY <1>6, <2>3, <2>4 DEF LinkStage
  <2> QED BY <2>2, <2>5
<1>7. CASE R!Present("set") /\ todo = R!Stmt("insert", bag.set) /\ LinksAre(db, Dropped, {}, Children, {})
  <2> DEFINE s == [do |-> "insert", rows |-> bag.set]
  <2>1. s \in Stmts /\ todo = <<s>> \o <<>> /\ <<>> \in Seq(Stmts) /\ bag.set \in SUBSET Children
    <3>1. bag.set \in Orders /\ "insert" \in Acts /\ bag.set \in SUBSET Children
      BY <1>7, LinkedBag, GivenRows DEF Acts, R!Present
    <3>2. R!Stmt("insert", bag.set) \in Seq(Stmts) /\ s \in Stmts /\ <<>> \in Seq(Stmts)
      BY <3>1, StmtIs
    <3>3. R!Stmt("insert", bag.set) \o <<>> = R!Stmt("insert", bag.set)
      BY <3>2, Joined
    <3> QED BY <1>7, <3>1, <3>2, <3>3 DEF R!Stmt
  <2>2. db' = R!Effect(s) /\ todo' = <<>> /\ phase' = "done"
    BY <2>1, ExecuteOne
  <2>3. R!Exist = Surviving
    <3>1. LinksAre(db, Dropped, none, Children, none)
      BY <1>7
    <3> HIDE DEF none
    <3>2. R!Exist = none \cup (There \ Dropped)
      BY <1>0, <3>1, LinkedNow
    <3> QED BY <3>2 DEF none, Surviving
  <2> DEFINE rows == bag.set \cap Surviving
  <2>4. db' = [db EXCEPT !.link = @ \cup R!Links(rows)] /\ rows \in SUBSET Children
    BY <2>1, <2>2, <2>3, Effects
  <2>5. LinksAre(db', Dropped, {}, Children, {} \cup rows)
    <3> HIDE DEF rows
    <3> QED BY <1>7, <2>4, LinkedPut
  <2>6. {} \cup rows = bag.set \cap Surviving
    OBVIOUS
  <2>7. LinksAre(db', Dropped, {}, Children, bag.set \cap Surviving)
    BY <2>5, <2>6
  <2> QED BY <1>7, <2>2, <2>7 DEF LinkStage
<1>8. CASE ~R!Present("set") /\ R!Present("connect") /\ todo = R!Stmt("insert", bag.connect) \o ToFind /\ LinksAre(db, Dropped, {}, Unlinked, {})
  <2> DEFINE s == [do |-> "insert", rows |-> bag.connect]
  <2>1. s \in Stmts /\ todo = <<s>> \o ToFind /\ ToFind \in Seq(Stmts) /\ bag.connect \in SUBSET Children
    <3>1. bag.connect \in Orders /\ "insert" \in Acts /\ bag.connect \in SUBSET Children
      BY <1>8, LinkedBag, GivenRows DEF Acts, R!Present
    <3> QED BY <1>8, <3>1, StmtIs, LinkedSeqs DEF R!Stmt
  <2>2. db' = R!Effect(s) /\ todo' = ToFind /\ phase' = IF ToFind = <<>> THEN "done" ELSE "run"
    BY <2>1, ExecuteOne
  <2>3. R!Exist = Surviving
    <3>1. LinksAre(db, Dropped, none, Unlinked, none)
      BY <1>8
    <3> HIDE DEF none
    <3>2. R!Exist = none \cup (There \ Dropped)
      BY <1>0, <3>1, LinkedNow
    <3> QED BY <3>2 DEF none, Surviving
  <2>4. Connected = bag.connect
    <3>1. bag.connect # All
      BY <2>1 DEF LinkedGiven, R!WellFormed
    <3> QED BY <1>8, <3>1 DEF Connected, R!Asked, R!Present
  <2> DEFINE rows == Connected \cap Surviving
  <2>5. db' = [db EXCEPT !.link = @ \cup R!Links(rows)] /\ rows \in SUBSET Children
    BY <2>1, <2>2, <2>3, <2>4, Effects
  <2>6. LinksAre(db', Dropped, {}, Unlinked, {} \cup rows)
    <3> HIDE DEF rows
    <3> QED BY <1>8, <2>5, LinkedPut
  <2>7. {} \cup rows = Connected \cap Surviving
    OBVIOUS
  <2>8. LinksAre(db', Dropped, {}, Unlinked, Connected \cap Surviving)
    BY <2>6, <2>7
  <2> QED BY <1>8, <2>2, <2>8, EnterFind
<1> DEFINE put == Connected \cap Surviving
           last == R!Stmt("insert", bag.connectOrCreate)
<1>9. ASSUME ~R!Present("set"), R!Present("connectOrCreate"), NEW w \in Seq(Children), NEW made \in SUBSET Children,
             Elements(w) \subseteq bag.connectOrCreate, made \subseteq bag.connectOrCreate \ Surviving,
             bag.connectOrCreate \subseteq Elements(w) \cup made \cup Surviving,
             todo = OneByOne("findOrCreate", w) \o last, LinksAre(db, Dropped, made, Unlinked, put)
      PROVE  LinkStage(todo', db') /\ phase' = IF todo' = <<>> THEN "done" ELSE "run"
  <2>1. "findOrCreate" \in Acts /\ "insert" \in Acts /\ bag.connectOrCreate \in SUBSET Children /\ bag.connectOrCreate \in Orders
    BY <1>9, LinkedBag, GivenRows DEF Acts, R!Present
  <2>2. last \in Seq(Stmts) /\ [do |-> "insert", rows |-> bag.connectOrCreate] \in Stmts
    BY <2>1, StmtIs
  <2>3. R!Exist = made \cup Surviving
    <3>1. put \subseteq Children
      BY LinkedBase
    <3> HIDE DEF put
    <3>2. R!Exist = made \cup (There \ Dropped)
      BY <1>0, <1>9, <3>1, LinkedNow
    <3> QED BY <3>2 DEF Surviving
  <2>4. CASE w # <<>>
    <3> DEFINE s == [do |-> "findOrCreate", rows |-> {Head(w)}]
               X == OneByOne("findOrCreate", Tail(w)) \o last
    <3>1. /\ todo = <<s>> \o X /\ Tail(w) \in Seq(Children) /\ Head(w) \in Children
          /\ Elements(w) = Elements(Tail(w)) \cup {Head(w)}
      <4> HIDE DEF last
      <4> QED BY <1>9, <2>1, <2>2, <2>4, NextOne
    <3>2. X \in Seq(Stmts)
      <4>1. OneByOne("findOrCreate", Tail(w)) \in Seq(Stmts)
        BY <2>1, <3>1, OneByOneIs
      <4> HIDE DEF last
      <4> QED BY <2>2, <4>1, Joined
    <3>3. s \in Stmts
      <4>1. {Head(w)} \in Orders
        BY <3>1 DEF Orders
      <4> QED BY <2>1, <4>1, StmtIs
    <3>4. db' = R!Effect(s) /\ todo' = X /\ phase' = IF X = <<>> THEN "done" ELSE "run"
      <4> HIDE DEF X
      <4> QED BY <3>1, <3>2, <3>3, ExecuteOne
    <3> DEFINE new == {Head(w)} \ R!Exist
               more == made \cup new
    <3>5. db' = R!SetChildren(new, Nobody)
      BY <3>4, Effects
    <3>6. new \subseteq bag.connectOrCreate \ Surviving /\ Head(w) \in made \cup new \cup Surviving
      BY <1>9, <2>3, <3>1
    <3> HIDE DEF new
    <3>7. LinksAre(db', Dropped, more, Unlinked, put)
      <4>1. db' \in Records /\ db'.link = db.link
            /\ db'.child = [c \in Children |-> IF c \in more THEN Nobody ELSE IF c \in Dropped THEN Gone ELSE base.child[c]]
        <5> HIDE DEF put
        <5>1. db \in Records /\ \A c \in Children :
                db.child[c] = IF c \in made THEN Nobody ELSE IF c \in Dropped THEN Gone ELSE base.child[c]
          BY <1>9 DEF LinksAre
        <5>2. db' \in Records /\ db'.link = db.link /\ db'.child = [c \in Children |-> IF c \in new THEN Nobody ELSE db.child[c]]
          BY <3>5, <5>1, ChildrenSet
        <5>3. \A c \in Children :
                (IF c \in new THEN Nobody ELSE db.child[c])
                = IF c \in more THEN Nobody ELSE IF c \in Dropped THEN Gone ELSE base.child[c]
          BY <5>1
        <5> HIDE DEF more
        <5> QED BY <5>2, <5>3
      <4> HIDE DEF more, put
      <4> QED BY <1>9, <4>1 DEF LinksAre
    <3>8. /\ more \in SUBSET Children /\ Elements(Tail(w)) \subseteq bag.connectOrCreate
          /\ more \subseteq bag.connectOrCreate \ Surviving
          /\ bag.connectOrCreate \subseteq Elements(Tail(w)) \cup more \cup Surviving
      BY <1>9, <2>1, <3>1, <3>6
    <3> HIDE DEF more, s
    <3>9. LinkStage(X, db')
      BY <1>9, <3>1, <3>7, <3>8 DEF LinkStage
    <3> QED BY <3>4, <3>9
  <2>5. CASE w = <<>>
    <3>1. OneByOne("findOrCreate", w) = <<>> /\ Elements(w) = {}
      BY <2>5 DEF OneByOne, Elements
    <3> DEFINE s == [do |-> "insert", rows |-> bag.connectOrCreate]
    <3>2. todo = <<s>> \o <<>> /\ <<>> \in Seq(Stmts) /\ s \in Stmts
      <4>1. <<>> \o last = last /\ last \o <<>> = last /\ last = <<s>> /\ <<>> \in Seq(Stmts)
        <5>1. last = <<s>> /\ <<>> \in Seq(Stmts)
          BY DEF R!Stmt
        <5> HIDE DEF last
        <5> QED BY <2>2, <5>1, Joined
      <4> HIDE DEF last, s
      <4>2. todo = last
        BY <1>9, <3>1, <4>1
      <4> QED BY <2>2, <4>1, <4>2 DEF s
    <3>3. db' = R!Effect(s) /\ todo' = <<>> /\ phase' = "done"
      BY <3>2, ExecuteOne
    <3>4. bag.connectOrCreate \cap R!Exist = bag.connectOrCreate
      BY <1>9, <2>3, <3>1
    <3>5. db' = [db EXCEPT !.link = @ \cup R!Links(bag.connectOrCreate)]
      BY <3>3, <3>4, Effects
    <3>6. LinksAre(db', Dropped, made, Unlinked, put \cup bag.connectOrCreate)
      <4> HIDE DEF put
      <4> QED BY <1>9, <2>1, <3>5, LinkedPut
    <3>7. Found = bag.connectOrCreate
      <4>1. bag.connectOrCreate # All
        BY <2>1 DEF LinkedGiven, R!WellFormed
      <4> QED BY <1>9, <4>1 DEF Found, R!Asked, R!Present
    <3>8. made = Found \ Surviving
      BY <1>9, <3>1, <3>7
    <3>9. LinksAre(db', Dropped, Found \ Surviving, Unlinked, (Connected \cap Surviving) \cup Found)
      BY <3>6, <3>7, <3>8
    <3> QED BY <1>9, <3>3, <3>9 DEF LinkStage
  <2> QED BY <2>4, <2>5
<1> QED BY <1>1, <1>2, <1>3, <1>4, <1>5, <1>6, <1>7, <1>8, <1>9 DEF LinkStage

\* The last stage.
LEMMA LinkEnds ==
  ASSUME LinkedGiven, NEW q, NEW d, LinkStage(q, d), q = <<>>
  PROVE  \/ R!Present("set") /\ LinksAre(d, Dropped, {}, Children, bag.set \cap Surviving)
         \/ ~R!Present("set") /\ LinksAre(d, Dropped, Found \ Surviving, Unlinked, (Connected \cap Surviving) \cup Found)
<1>1. ASSUME NEW s \in Stmts, NEW X \in Seq(Stmts) PROVE q # <<s>> \o X
  BY FirstOf
<1>2. ASSUME NEW do \in Acts, NEW rows \in Orders, NEW X \in Seq(Stmts) PROVE q # R!Stmt(do, rows) \o X /\ q # R!Stmt(do, rows)
  <2>1. [do |-> do, rows |-> rows] \in Stmts
    BY StmtIs
  <2> QED BY <1>1, <2>1 DEF R!Stmt
<1>3. {"parent", "list", "unlink", "drop", "insert", "findOrCreate"} \subseteq Acts /\ All \in Orders /\ {} \in Orders /\ Dropped \in Orders
  BY GivenRows, LinkedBase DEF Acts, Orders
<1>4. R!Stmt("drop", Dropped) \o ToCut \in Seq(Stmts)
  BY <1>3, LinkedSeqs
<1>5. /\ q # R!Stmt("parent", {}) \o R!M2MWrite /\ q # R!Stmt("list", {}) \o ToCut
      /\ q # R!Stmt("unlink", Dropped) \o (R!Stmt("drop", Dropped) \o ToCut) /\ q # R!Stmt("drop", Dropped) \o ToCut
  BY <1>2, <1>3, <1>4, LinkedSeqs
<1>6. R!Present("disconnect") => q # R!Stmt("unlink", bag.disconnect) \o ToInsert
  <2>1. R!Present("disconnect") => bag.disconnect \in Orders
    BY LinkedBag, GivenRows DEF R!Present
  <2> QED BY <1>2, <1>3, <2>1, LinkedSeqs
<1>7. R!Present("set") => (q # R!Stmt("unlink", All) \o R!Stmt("insert", bag.set) /\ q # R!Stmt("insert", bag.set))
  <2>1. R!Present("set") => bag.set \in Orders
    BY LinkedBag, GivenRows DEF R!Present
  <2>2. R!Present("set") => R!Stmt("insert", bag.set) \in Seq(Stmts)
    BY <1>3, <2>1, StmtIs
  <2> QED BY <1>2, <1>3, <2>1, <2>2
<1>8. R!Present("connect") => q # R!Stmt("insert", bag.connect) \o ToFind
  <2>1. R!Present("connect") => bag.connect \in Orders
    BY LinkedBag, GivenRows DEF R!Present
  <2> QED BY <1>2, <1>3, <2>1, LinkedSeqs
<1>9. ASSUME R!Present("connectOrCreate"), NEW w \in Seq(Children)
      PROVE  q # OneByOne("findOrCreate", w) \o R!Stmt("insert", bag.connectOrCreate)
  <2> DEFINE last == R!Stmt("insert", bag.connectOrCreate)
             f == OneByOne("findOrCreate", w)
  <2>1. bag.connectOrCreate \in Orders
    BY <1>9, LinkedBag, GivenRows DEF R!Present
  <2>2. last \in Seq(Stmts) /\ Len(last) = 1 /\ f \in Seq(Stmts)
    BY <1>3, <2>1, StmtIs, OneByOneIs DEF R!Stmt
  <2> HIDE DEF last, f
  <2>3. Len(f \o last) = Len(f) + 1 /\ Len(f) \in Nat
    <3>1. ASSUME NEW S, NEW x \in Seq(S), NEW y \in Seq(S) PROVE Len(x \o y) = Len(x) + Len(y) /\ Len(x) \in Nat
      OBVIOUS
    <3> QED BY <2>2, <3>1
  <2>4. Len(<<>>) = 0
    OBVIOUS
  <2>5. f \o last # <<>>
    BY <2>3, <2>4
  <2> QED BY <2>5 DEF f, last
<1> QED BY <1>5, <1>6, <1>7, <1>8, <1>9 DEF LinkStage

LEMMA LinkedUntouched ==
  ASSUME LinkedGiven, NEW d, NEW made, NEW cut, NEW put, LinksAre(d, Dropped, made, cut, put),
         NEW c \in Children, c \notin Dropped \cap There, c \notin Before, c \notin made, c \notin put
  PROVE  d.child[c] = base.child[c] /\ \A p \in Parents : <<p, c>> \in d.link <=> <<p, c>> \in base.link
<1>1. d.child[c] = IF c \in made THEN Nobody ELSE IF c \in Dropped THEN Gone ELSE base.child[c]
  BY DEF LinksAre
<1>2. c \in Dropped => base.child[c] = Gone
  BY DEF There
<1>3. ASSUME NEW p \in Parents PROVE <<p, c>> \in d.link <=> <<p, c>> \in base.link
  <2>1. <<p, c>> \notin R!Links(put)
    BY DEF R!Links
  <2>2. <<p, c>> \in base.link => (c \in There /\ p # Subject)
    BY LinkedBase
  <2>3. d.link = {l \in base.link : l[2] \notin Dropped /\ ~(l[1] = Subject /\ l[2] \in cut)} \cup R!Links(put)
    BY DEF LinksAre
  <2>4. <<p, c>>[1] = p /\ <<p, c>>[2] = c
    OBVIOUS
  <2> QED BY <2>1, <2>2, <2>3, <2>4
<1> QED BY <1>1, <1>2, <1>3

\* After the last stage the links are those asked for.
LEMMA LinkOutcome ==
  ASSUME LinkedGiven, NEW q, NEW d, LinkStage(q, d), q = <<>>
  PROVE  Outcome(d, Taken, Made, Added, LeftOver)
<1>1. /\ Before \subseteq There /\ There \subseteq Children /\ Surviving = There \ Dropped
      /\ Dropped \subseteq Children /\ Unlinked \subseteq Children /\ Connected \subseteq Children /\ Found \subseteq Children
  BY LinkedBase DEF Surviving
<1>2. Taken = Dropped \cap There /\ kind # "owner" /\ R!Asked("create", {}) = {}
  BY LinkedBag DEF LinkedGiven, Taken, Dropped, R!Asked
<1>3. R!Present("set") => bag.set \subseteq Children
  BY LinkedBag, GivenRows DEF R!Present
<1>4. CASE R!Present("set") /\ LinksAre(d, Dropped, {}, Children, bag.set \cap Surviving)
  <2> DEFINE put == bag.set \cap Surviving
             made == {}
  <2>1. Made = {} /\ Added = bag.set /\ LeftOver = {}
    BY <1>4 DEF Made, Added, LeftOver
  <2>2. LinksAre(d, Dropped, made, Children, put)
    BY <1>4
  <2>3. put \subseteq Children /\ put \subseteq Added /\ made \subseteq Children
    BY <1>3, <1>4, <2>1
  <2> HIDE DEF put, made
  <2>4. R!Related(d) = (Before \ (Dropped \cup Children)) \cup put
    BY <1>1, <2>2, <2>3, LinkedNow
  <2> HIDE DEF There, Before, Dropped
  <2>5. R!Related(d) = (LeftOver \cup Added) \cap ((There \ Taken) \cup Made)
    BY <1>1, <1>2, <2>1, <2>4 DEF put
  <2>6. \A c \in Taken \ Made : d.child[c] = Gone
    BY <1>1, <1>2, <2>1, <2>2 DEF LinksAre, made
  <2>7. ASSUME NEW c \in Children \ (Taken \cup Before \cup Added)
        PROVE  d.child[c] = base.child[c] /\ \A p \in Parents : <<p, c>> \in d.link <=> <<p, c>> \in base.link
    <3>1. c \notin Dropped \cap There /\ c \notin Before /\ c \notin made /\ c \notin put
      BY <1>2, <2>3 DEF made
    <3> QED BY <2>2, <3>1, LinkedUntouched
  <2> QED BY <2>5, <2>6, <2>7 DEF Outcome
<1>5. CASE ~R!Present("set") /\ LinksAre(d, Dropped, Found \ Surviving, Unlinked, (Connected \cap Surviving) \cup Found)
  <2> DEFINE put == (Connected \cap Surviving) \cup Found
             made == Found \ Surviving
  <2>1. Made = Found /\ Added = Connected \cup Found /\ LeftOver = (Before \ Taken) \ R!Asked("disconnect", Before)
    BY <1>2, <1>5 DEF Made, Added, LeftOver, Found
  <2>2. LinksAre(d, Dropped, made, Unlinked, put)
    BY <1>5
  <2>3. put \subseteq Children /\ put \subseteq Added /\ made \subseteq Children /\ made \subseteq Found
    BY <1>1, <2>1
  <2> HIDE DEF put, made
  <2>4. R!Related(d) = (Before \ (Dropped \cup Unlinked)) \cup put
    BY <1>1, <2>2, <2>3, LinkedNow
  <2>5. Before \cap R!Asked("disconnect", Before) = Before \cap Unlinked
    BY <1>1 DEF R!Asked, Unlinked
  <2> HIDE DEF There, Before, Dropped
  <2>6. R!Related(d) = (LeftOver \cup Added) \cap ((There \ Taken) \cup Made)
    BY <1>1, <1>2, <2>1, <2>4, <2>5 DEF put
  <2>7. \A c \in Taken \ Made : d.child[c] = Gone
    BY <1>1, <1>2, <2>1, <2>2, <2>3 DEF LinksAre
  <2>8. ASSUME NEW c \in Children \ (Taken \cup Before \cup Added)
        PROVE  d.child[c] = base.child[c] /\ \A p \in Parents : <<p, c>> \in d.link <=> <<p, c>> \in base.link
    <3>1. c \notin Dropped \cap There /\ c \notin Before /\ c \notin made /\ c \notin put
      BY <1>2, <2>1, <2>3
    <3> QED BY <2>2, <3>1, LinkedUntouched
  <2> QED BY <2>6, <2>7, <2>8 DEF Outcome
<1>6. \/ R!Present("set") /\ LinksAre(d, Dropped, {}, Children, bag.set \cap Surviving)
      \/ ~R!Present("set") /\ LinksAre(d, Dropped, Found \ Surviving, Unlinked, (Connected \cap Surviving) \cup Found)
  BY LinkEnds
<1> QED BY <1>4, <1>5, <1>6

---------------------------------------------------------------------------
(* The parent's own foreign key. *)

\* One of connect, disconnect and create, or connectOrCreate.
Alone ==
  /\ R!Present("connect") \/ R!Present("disconnect") \/ R!Present("create") \/ R!Present("connectOrCreate")
  /\ ~R!Present("connectOrCreate") =>
       /\ ~(R!Present("connect") /\ R!Present("create")) /\ ~(R!Present("connect") /\ R!Present("disconnect"))
       /\ ~(R!Present("disconnect") /\ R!Present("create"))

OwnerGiven == R!WellFormed /\ Given /\ kind = "owner" /\ Alone

\* The tables when the rows of made are new.
OwnerIs(d, made) ==
  /\ d \in Records /\ d.link = base.link /\ d.parent = base.parent /\ d.ref = base.ref
  /\ d.child = [c \in Children |-> IF c \in made THEN Nobody ELSE base.child[c]]

OwnerStage(q, d) ==
  \/ q = R!Refuse /\ d = base
  \/ /\ R!Present("connectOrCreate") /\ ~R!Present("connect") /\ ~R!Present("create")
     /\ \E w \in Seq(Children), made \in SUBSET Children :
          /\ Elements(w) \subseteq bag.connectOrCreate /\ made \subseteq bag.connectOrCreate \ There
          /\ bag.connectOrCreate \subseteq Elements(w) \cup made \cup There
          /\ q = OneByOne("findOrCreate", w) \o R!Stmt("parent", bag.connectOrCreate) /\ OwnerIs(d, made)
  \/ /\ ~R!Present("connectOrCreate") /\ R!Present("connect") /\ ~R!Present("create")
     /\ q = R!Stmt("parent", bag.connect) /\ d = base
  \/ /\ ~R!Present("connectOrCreate") /\ ~R!Present("connect") /\ ~R!Present("create")
     /\ q = R!Stmt("parent", {}) /\ d = base
  \/ /\ ~R!Present("connectOrCreate") /\ ~R!Present("connect") /\ R!Present("create")
     /\ \E w \in Seq(Children), made \in SUBSET Children :
          /\ Elements(w) \subseteq bag.create /\ made \subseteq bag.create
          /\ bag.create \subseteq Elements(w) \cup made
          /\ q = OneByOne("child", w) \o R!Stmt("parent", bag.create) /\ OwnerIs(d, made)
  \/ /\ q = <<>> /\ d \in Records /\ d.link = base.link
     /\ d.child = [c \in Children |-> IF c \in Made \ There THEN Nobody ELSE base.child[c]]
     /\ {d.ref[Subject]} \ {Nobody} = Added /\ Added \subseteq There \cup Made

LEMMA OwnerBag ==
  ASSUME OwnerGiven
  PROVE  /\ bag.delete = Absent /\ bag.set = Absent /\ ~R!Present("set")
         /\ \A rows \in {bag.connect, bag.connectOrCreate, bag.create} : rows = Absent \/ \E c \in Children : rows = {c}
         /\ \A rows \in SUBSET Children : rows # Absent /\ rows # All
         /\ base \in Records /\ base.child \in [Children -> {Nobody, Gone}] /\ Subject \in Parents /\ Nobody # Gone /\ Nobody \notin Children
         /\ R!Present("create") => bag.create \cap There = {}
<1>1. kind \in {"owner", "one", "many", "m2m"} /\ bag \in R!Bags /\ R!WellFormed /\ base \in R!Databases /\ R!Possible(base) /\ kind = "owner"
  BY DEF OwnerGiven, Given
<1>2. \A rows \in SUBSET Children : rows # Absent /\ rows # All
  BY <1>1 DEF R!WellFormed
<1>3. base \in Records /\ base.child \in [Children -> {Nobody, Gone}]
  BY <1>1 DEF R!Databases, Records, R!Possible
<1>4. R!Present("create") => bag.create \cap There = {}
  BY DEF OwnerGiven, Given, R!Present, There
<1> QED BY <1>1, <1>2, <1>3, <1>4, BagIs, Apart DEF R!Present

LEMMA OwnerAsked ==
  ASSUME OwnerGiven
  PROVE  /\ Made = (IF R!Present("connectOrCreate") THEN bag.connectOrCreate ELSE {}) \cup (IF R!Present("create") THEN bag.create ELSE {})
         /\ Added = (IF R!Present("connect") THEN bag.connect ELSE {}) \cup Made
         /\ LeftOver = {} /\ Taken = {}
<1>1. \A o \in {"connect", "connectOrCreate", "create"} : R!Asked(o, {}) = IF R!Present(o) THEN bag[o] ELSE {}
  BY OwnerBag DEF R!Asked, R!Present
<1>2. Taken = {} /\ LeftOver = {}
  BY OwnerBag DEF Taken, R!Asked, LeftOver, OwnerGiven
<1> QED BY <1>1, <1>2, OwnerBag DEF Made, Added, Connected

LEMMA OwnerStart ==
  ASSUME OwnerGiven PROVE OwnerIs(base, {})
<1>1. base.child = [c \in Children |-> IF c \in {} THEN Nobody ELSE base.child[c]]
  BY OwnerBag
<1> QED BY <1>1, OwnerBag DEF OwnerIs

LEMMA OwnerNow ==
  ASSUME OwnerGiven, NEW made, made \subseteq Children, OwnerIs(db, made)
  PROVE  R!Exist = made \cup There
<1>1. ASSUME NEW c \in Children PROVE (db.child[c] # Gone) <=> (c \in made \cup There)
  BY OwnerBag DEF OwnerIs, There
<1> QED BY <1>1 DEF R!Exist, There

LEMMA OwnerMakes ==
  ASSUME OwnerGiven, NEW made, OwnerIs(db, made), NEW rows
  PROVE  OwnerIs(R!SetChildren(rows, Nobody), made \cup rows)
<1> DEFINE e == R!SetChildren(rows, Nobody)
<1>1. db \in Records
  BY DEF OwnerIs
<1>2. e \in Records /\ e.child = [c \in Children |-> IF c \in rows THEN Nobody ELSE db.child[c]]
      /\ e.link = db.link /\ e.parent = db.parent /\ e.ref = db.ref
  BY <1>1, ChildrenSet
<1> HIDE DEF e
<1>3. e.child = [c \in Children |-> IF c \in made \cup rows THEN Nobody ELSE base.child[c]]
  BY <1>2 DEF OwnerIs
<1>4. OwnerIs(e, made \cup rows)
  BY <1>2, <1>3 DEF OwnerIs
<1> QED BY <1>4 DEF e

LEMMA ParentOf ==
  ASSUME NEW c
  PROVE  R!Effect([do |-> "parent", rows |-> {c}]) = [db EXCEPT !.parent[Subject] = "new", !.ref[Subject] = c]
<1>1. (CHOOSE x \in {c} : TRUE) = c /\ {c} # {}
  OBVIOUS
<1> QED BY <1>1 DEF R!Effect

\* The parent's statement is the last one.
LEMMA OwnerLast ==
  ASSUME OwnerGiven, R!Execute, NEW made, OwnerIs(db, made), made = Made \ There,
         NEW rows, rows = {} \/ \E c \in Children : rows = {c}, rows = Added, todo = R!Stmt("parent", rows),
         rows \subseteq R!Exist => rows \subseteq There \cup Made
  PROVE  OwnerStage(todo', db') /\ phase' = IF todo' = <<>> THEN "done" ELSE "run"
<1> DEFINE s == [do |-> "parent", rows |-> rows]
<1>1. s \in Stmts /\ todo = <<s>> \o <<>> /\ <<>> \in Seq(Stmts)
  <2>1. "parent" \in Acts /\ rows \in Orders
    BY DEF Acts, Orders
  <2>2. R!Stmt("parent", rows) \in Seq(Stmts) /\ s \in Stmts /\ <<>> \in Seq(Stmts)
    BY <2>1, StmtIs
  <2>3. R!Stmt("parent", rows) \o <<>> = R!Stmt("parent", rows)
    BY <2>2, Joined
  <2> QED BY <2>2, <2>3 DEF R!Stmt
<1>2. R!Allowed(s) /\ db' = R!Effect(s) /\ todo' = <<>> /\ phase' = "done"
  BY <1>1, ExecuteOne
<1>3. rows \subseteq R!Exist
  BY <1>2 DEF R!Allowed
<1>4. \E r \in Children \cup {Nobody} :
        {r} \ {Nobody} = rows /\ db' = [db EXCEPT !.parent[Subject] = "new", !.ref[Subject] = r]
  <2>1. CASE rows = {}
    <3>1. R!Effect([do |-> "parent", rows |-> {}]) = [db EXCEPT !.parent[Subject] = "new", !.ref[Subject] = Nobody]
      BY DEF R!Effect
    <3>2. db' = [db EXCEPT !.parent[Subject] = "new", !.ref[Subject] = Nobody] /\ {Nobody} \ {Nobody} = rows
      BY <1>2, <2>1, <3>1
    <3> QED BY <3>2
  <2>2. CASE rows # {}
    <3>1. PICK c \in Children : rows = {c}
      BY <2>2
    <3>2. {c} \ {Nobody} = rows
      BY <3>1, OwnerBag
    <3>3. db' = [db EXCEPT !.parent[Subject] = "new", !.ref[Subject] = c]
      BY <1>2, <3>1, ParentOf
    <3> QED BY <3>2, <3>3
  <2> QED BY <2>1, <2>2
<1>5. PICK r \in Children \cup {Nobody} :
        {r} \ {Nobody} = rows /\ db' = [db EXCEPT !.parent[Subject] = "new", !.ref[Subject] = r]
  BY <1>4
<1> HIDE DEF s
<1>6. db \in Records
  BY DEF OwnerIs
<1>7. db' \in Records /\ db'.ref[Subject] = r /\ db'.child = db.child /\ db'.link = db.link
  BY <1>5, <1>6, ParentSet, OwnerBag
<1>8. db'.child = [c \in Children |-> IF c \in Made \ There THEN Nobody ELSE base.child[c]] /\ db'.link = base.link
  BY <1>7 DEF OwnerIs
<1>9. {db'.ref[Subject]} \ {Nobody} = Added /\ Added \subseteq There \cup Made
  BY <1>3, <1>5, <1>7
<1> QED BY <1>2, <1>7, <1>8, <1>9 DEF OwnerStage

\* Rows made one by one, then the parent.
LEMMA OwnerMaking ==
  ASSUME OwnerGiven, R!Execute, NEW do \in {"child", "findOrCreate"}, NEW w \in Seq(Children), NEW rows \in SUBSET Children,
         NEW made \in SUBSET Children, OwnerIs(db, made), w # <<>>, todo = OneByOne(do, w) \o R!Stmt("parent", rows)
  PROVE  /\ todo' = OneByOne(do, Tail(w)) \o R!Stmt("parent", rows) /\ todo' # <<>> /\ phase' = "run"
         /\ Tail(w) \in Seq(Children) /\ Head(w) \in Children /\ Elements(w) = Elements(Tail(w)) \cup {Head(w)}
         /\ OwnerIs(db', made \cup IF do = "child" THEN {Head(w)} ELSE {Head(w)} \ There)
<1> DEFINE last == R!Stmt("parent", rows)
           s == [do |-> do, rows |-> {Head(w)}]
           X == OneByOne(do, Tail(w)) \o last
<1>1. do \in Acts /\ "parent" \in Acts /\ rows \in Orders
  BY DEF Acts, Orders
<1>2. last \in Seq(Stmts) /\ Len(last) = 1
  BY <1>1, StmtIs DEF R!Stmt
<1> HIDE DEF last
<1>3. /\ OneByOne(do, w) \o last = <<s>> \o X
      /\ Tail(w) \in Seq(Children) /\ Head(w) \in Children /\ Elements(w) = Elements(Tail(w)) \cup {Head(w)}
  BY <1>1, <1>2, NextOne
<1>4. OneByOne(do, Tail(w)) \in Seq(Stmts)
  BY <1>1, <1>3, OneByOneIs
<1>5. X \in Seq(Stmts) /\ X # <<>>
  <2>1. ASSUME NEW S, NEW x \in Seq(S), NEW y \in Seq(S), Len(y) = 1 PROVE x \o y \in Seq(S) /\ Len(x \o y) # 0
    <3>1. x \o y \in Seq(S) /\ Len(x \o y) = Len(x) + Len(y) /\ Len(x) \in Nat
      OBVIOUS
    <3> QED BY <2>1, <3>1
  <2>2. Len(<<>>) = 0
    OBVIOUS
  <2>3. X \in Seq(Stmts) /\ Len(X) # 0
    <3> DEFINE f == OneByOne(do, Tail(w))
    <3>1. f \in Seq(Stmts)
      BY <1>4
    <3> HIDE DEF f
    <3>2. f \o last \in Seq(Stmts) /\ Len(f \o last) # 0
      BY <1>2, <2>1, <3>1
    <3> QED BY <3>2 DEF f
  <2> HIDE DEF X
  <2> QED BY <2>2, <2>3
<1>6. s \in Stmts /\ s.do # "list"
  <2>1. {Head(w)} \in Orders
    BY <1>3 DEF Orders
  <2> QED BY <1>1, <2>1, StmtIs
<1>7. db' = R!Effect(s) /\ todo' = X /\ phase' = IF X = <<>> THEN "done" ELSE "run"
  <2>1. todo = <<s>> \o X
    BY <1>3 DEF last
  <2> HIDE DEF X, s
  <2> QED BY <1>5, <1>6, <2>1, ExecuteOne
<1>8. OwnerIs(db', made \cup IF do = "child" THEN {Head(w)} ELSE {Head(w)} \ There)
  <2>1. CASE do = "child"
    <3>1. db' = R!SetChildren({Head(w)}, Nobody)
      BY <1>7, <2>1, Effects DEF OwnerGiven
    <3>2. OwnerIs(db', made \cup {Head(w)})
      BY <3>1, OwnerMakes
    <3> QED BY <2>1, <3>2
  <2>2. CASE do = "findOrCreate"
    <3>1. db' = R!SetChildren({Head(w)} \ R!Exist, Nobody)
      BY <1>7, <2>2, Effects
    <3>2. OwnerIs(db', made \cup ({Head(w)} \ R!Exist))
      BY <3>1, OwnerMakes
    <3>3. R!Exist = made \cup There
      BY OwnerNow
    <3>4. made \cup ({Head(w)} \ R!Exist) = made \cup ({Head(w)} \ There)
      BY <3>3
    <3>5. OwnerIs(db', made \cup ({Head(w)} \ There))
      BY <3>2, <3>4
    <3>6. do # "child"
      BY <2>2
    <3> QED BY <3>5, <3>6
  <2> QED BY <2>1, <2>2
<1> QED BY <1>3, <1>5, <1>7, <1>8 DEF last

LEMMA NoneMade ==
  ASSUME NEW do, NEW rows \in SUBSET Children
  PROVE  OneByOne(do, <<>>) \o R!Stmt("parent", rows) = R!Stmt("parent", rows) /\ Elements(<<>>) = {}
<1>1. OneByOne(do, <<>>) = <<>> /\ Elements(<<>>) = {}
  BY DEF OneByOne, Elements
<1>2. "parent" \in Acts /\ rows \in Orders
  BY DEF Acts, Orders
<1> DEFINE last == R!Stmt("parent", rows)
<1>3. last \in Seq(Stmts)
  BY <1>2, StmtIs
<1> HIDE DEF last
<1>4. <<>> \o last = last
  BY <1>3, Joined
<1> QED BY <1>1, <1>4 DEF last

LEMMA ParentToCome ==
  ASSUME NEW do \in Acts, NEW w \in Seq(Children), NEW rows \in SUBSET Children
  PROVE  OneByOne(do, w) \o R!Stmt("parent", rows) # <<>>
<1>1. "parent" \in Acts /\ rows \in Orders
  BY DEF Acts, Orders
<1>2. R!Stmt("parent", rows) \in Seq(Stmts) /\ Len(R!Stmt("parent", rows)) = 1 /\ OneByOne(do, w) \in Seq(Stmts)
  BY <1>1, StmtIs, OneByOneIs DEF R!Stmt
<1>3. ASSUME NEW S, NEW x \in Seq(S), NEW y \in Seq(S), Len(y) = 1 PROVE Len(x \o y) # 0
  <2>1. Len(x \o y) = Len(x) + Len(y) /\ Len(x) \in Nat
    OBVIOUS
  <2> QED BY <1>3, <2>1
<1> DEFINE f == OneByOne(do, w)
           last == R!Stmt("parent", rows)
<1>4. f \in Seq(Stmts) /\ last \in Seq(Stmts) /\ Len(last) = 1
  BY <1>2
<1> HIDE DEF f, last
<1>5. Len(f \o last) # 0
  BY <1>3, <1>4
<1>6. Len(<<>>) = 0
  OBVIOUS
<1>7. f \o last # <<>>
  BY <1>5, <1>6
<1> QED BY <1>7 DEF f, last

\* Each statement leads to the next stage.
LEMMA OwnerStep ==
  ASSUME OwnerGiven, R!Execute, OwnerStage(todo, db), todo # <<>>
  PROVE  OwnerStage(todo', db') /\ phase' = IF todo' = <<>> THEN "done" ELSE "run"
<1> DEFINE none == {}
<1>1. CASE todo = R!Refuse /\ db = base
  <2>1. Head(todo) = [do |-> "error", rows |-> {}]
    BY <1>1 DEF R!Refuse, R!Stmt
  <2> QED BY <2>1 DEF R!Execute, R!Allowed
<1>2. ASSUME R!Present("connectOrCreate"), ~R!Present("connect"), ~R!Present("create"), NEW w \in Seq(Children), NEW made \in SUBSET Children,
             Elements(w) \subseteq bag.connectOrCreate, made \subseteq bag.connectOrCreate \ There,
             bag.connectOrCreate \subseteq Elements(w) \cup made \cup There,
             todo = OneByOne("findOrCreate", w) \o R!Stmt("parent", bag.connectOrCreate), OwnerIs(db, made)
      PROVE  OwnerStage(todo', db') /\ phase' = IF todo' = <<>> THEN "done" ELSE "run"
  <2>1. bag.connectOrCreate \in SUBSET Children /\ \E c \in Children : bag.connectOrCreate = {c}
    BY <1>2, OwnerBag DEF R!Present
  <2>2. CASE w # <<>>
    <3> DEFINE do == "findOrCreate"
    <3>1. /\ todo' = OneByOne(do, Tail(w)) \o R!Stmt("parent", bag.connectOrCreate) /\ todo' # <<>> /\ phase' = "run"
          /\ Tail(w) \in Seq(Children) /\ Head(w) \in Children /\ Elements(w) = Elements(Tail(w)) \cup {Head(w)}
          /\ OwnerIs(db', made \cup IF do = "child" THEN {Head(w)} ELSE {Head(w)} \ There)
      <4>1. do \in {"child", "findOrCreate"} /\ todo = OneByOne(do, w) \o R!Stmt("parent", bag.connectOrCreate)
        BY <1>2
      <4> HIDE DEF do
      <4> QED BY <1>2, <2>1, <2>2, <4>1, OwnerMaking
    <3> DEFINE more == made \cup ({Head(w)} \ There)
    <3>2. /\ more \in SUBSET Children /\ Elements(Tail(w)) \subseteq bag.connectOrCreate /\ more \subseteq bag.connectOrCreate \ There
          /\ bag.connectOrCreate \subseteq Elements(Tail(w)) \cup more \cup There /\ OwnerIs(db', more)
      BY <1>2, <3>1
    <3> HIDE DEF more
    <3> QED BY <1>2, <3>1, <3>2 DEF OwnerStage
  <2>3. CASE w = <<>>
    <3>1. todo = R!Stmt("parent", bag.connectOrCreate) /\ Elements(w) = {}
      BY <1>2, <2>1, <2>3, NoneMade
    <3>2. Made = bag.connectOrCreate /\ Added = bag.connectOrCreate
      BY <1>2, OwnerAsked
    <3>3. made = Made \ There
      BY <1>2, <3>1, <3>2
    <3>4. bag.connectOrCreate \subseteq R!Exist => bag.connectOrCreate \subseteq There \cup Made
      BY <3>2
    <3> QED BY <1>2, <2>1, <3>1, <3>2, <3>3, <3>4, OwnerLast
  <2> QED BY <2>2, <2>3
<1>3. ASSUME ~R!Present("connectOrCreate"), ~R!Present("create"), NEW rows, db = base, todo = R!Stmt("parent", rows), rows = Added,
             rows = {} \/ \E c \in Children : rows = {c}
      PROVE  OwnerStage(todo', db') /\ phase' = IF todo' = <<>> THEN "done" ELSE "run"
  <2>1. OwnerIs(db, none)
    BY <1>3, OwnerStart
  <2>2. Made = {} /\ none = Made \ There
    BY <1>3, OwnerAsked
  <2>3. none \subseteq Children
    OBVIOUS
  <2> HIDE DEF none
  <2>4. R!Exist = none \cup There
    BY <2>1, <2>3, OwnerNow
  <2>5. rows \subseteq R!Exist => rows \subseteq There \cup Made
    BY <2>4 DEF none
  <2> QED BY <1>3, <2>1, <2>2, <2>5, OwnerLast
<1>4. CASE ~R!Present("connectOrCreate") /\ R!Present("connect") /\ ~R!Present("create") /\ todo = R!Stmt("parent", bag.connect) /\ db = base
  <2>1. Added = bag.connect
    BY <1>4, OwnerAsked
  <2>2. \E c \in Children : bag.connect = {c}
    BY <1>4, OwnerBag DEF R!Present
  <2> QED BY <1>3, <1>4, <2>1, <2>2
<1>5. CASE ~R!Present("connectOrCreate") /\ ~R!Present("connect") /\ ~R!Present("create") /\ todo = R!Stmt("parent", {}) /\ db = base
  <2>1. Added = {}
    BY <1>5, OwnerAsked
  <2> QED BY <1>3, <1>5, <2>1
<1>6. ASSUME ~R!Present("connectOrCreate"), ~R!Present("connect"), R!Present("create"), NEW w \in Seq(Children), NEW made \in SUBSET Children,
             Elements(w) \subseteq bag.create, made \subseteq bag.create, bag.create \subseteq Elements(w) \cup made,
             todo = OneByOne("child", w) \o R!Stmt("parent", bag.create), OwnerIs(db, made)
      PROVE  OwnerStage(todo', db') /\ phase' = IF todo' = <<>> THEN "done" ELSE "run"
  <2>1. bag.create \in SUBSET Children /\ \E c \in Children : bag.create = {c}
    BY <1>6, OwnerBag DEF R!Present
  <2>2. CASE w # <<>>
    <3> DEFINE do == "child"
    <3>1. /\ todo' = OneByOne(do, Tail(w)) \o R!Stmt("parent", bag.create) /\ todo' # <<>> /\ phase' = "run"
          /\ Tail(w) \in Seq(Children) /\ Head(w) \in Children /\ Elements(w) = Elements(Tail(w)) \cup {Head(w)}
          /\ OwnerIs(db', made \cup IF do = "child" THEN {Head(w)} ELSE {Head(w)} \ There)
      <4>1. do \in {"child", "findOrCreate"} /\ todo = OneByOne(do, w) \o R!Stmt("parent", bag.create)
        BY <1>6
      <4> HIDE DEF do
      <4> QED BY <1>6, <2>1, <2>2, <4>1, OwnerMaking
    <3> DEFINE more == made \cup {Head(w)}
    <3>2. /\ more \in SUBSET Children /\ Elements(Tail(w)) \subseteq bag.create /\ more \subseteq bag.create
          /\ bag.create \subseteq Elements(Tail(w)) \cup more /\ OwnerIs(db', more)
      BY <1>6, <3>1
    <3> HIDE DEF more
    <3> QED BY <1>6, <3>1, <3>2 DEF OwnerStage
  <2>3. CASE w = <<>>
    <3>1. todo = R!Stmt("parent", bag.create) /\ Elements(w) = {}
      BY <1>6, <2>1, <2>3, NoneMade
    <3>2. Made = bag.create /\ Added = bag.create /\ bag.create \cap There = {}
      BY <1>6, OwnerAsked, OwnerBag
    <3>3. made = Made \ There
      BY <1>6, <3>1, <3>2
    <3>4. bag.create \subseteq R!Exist => bag.create \subseteq There \cup Made
      BY <3>2
    <3> QED BY <1>6, <2>1, <3>1, <3>2, <3>3, <3>4, OwnerLast
  <2> QED BY <2>2, <2>3
<1> QED BY <1>1, <1>2, <1>4, <1>5, <1>6 DEF OwnerStage

\* Outside a transaction only connectOrCreate has left a row behind.
LEMMA OwnerFails ==
  ASSUME OwnerGiven, OwnerStage(todo, db), todo # <<>>, ~R!Present("create")
  PROVE  db = base \/ (R!Present("connectOrCreate") /\ [db EXCEPT !.child = base.child, !.ref = base.ref] = base)
<1>1. ASSUME NEW made, OwnerIs(db, made) PROVE [db EXCEPT !.child = base.child, !.ref = base.ref] = base
  <2>1. db \in Records /\ base \in Records /\ db.link = base.link /\ db.parent = base.parent
    BY <1>1, OwnerBag DEF OwnerIs
  <2> QED BY <2>1 DEF Records
<1> DEFINE restored == [db EXCEPT !.child = base.child, !.ref = base.ref]
<1>2. \A made : OwnerIs(db, made) => restored = base
  BY <1>1
<1> HIDE DEF restored
<1>3. db = base \/ (R!Present("connectOrCreate") /\ \E made : OwnerIs(db, made))
  BY DEF OwnerStage
<1>4. db = base \/ (R!Present("connectOrCreate") /\ restored = base)
  BY <1>2, <1>3
<1> QED BY <1>4 DEF restored

\* After the last stage the parent points to what it was asked to.
LEMMA OwnerOutcome ==
  ASSUME OwnerGiven, NEW q, NEW d, OwnerStage(q, d), q = <<>>
  PROVE  Outcome(d, Taken, Made, Added, LeftOver)
<1>1. ASSUME NEW do \in Acts, NEW w \in Seq(Children), NEW rows \in SUBSET Children PROVE q # OneByOne(do, w) \o R!Stmt("parent", rows)
  BY ParentToCome
<1>2. q # R!Refuse /\ \A rows : q # R!Stmt("parent", rows)
  BY DEF R!Refuse, R!Stmt
<1>3. /\ d \in Records /\ d.link = base.link
      /\ d.child = [c \in Children |-> IF c \in Made \ There THEN Nobody ELSE base.child[c]]
      /\ {d.ref[Subject]} \ {Nobody} = Added /\ Added \subseteq There \cup Made
  <2>1. "child" \in Acts /\ "findOrCreate" \in Acts
    BY DEF Acts
  <2>2. R!Present("connectOrCreate") => bag.connectOrCreate \in SUBSET Children
    BY OwnerBag DEF R!Present
  <2>3. R!Present("create") => bag.create \in SUBSET Children
    BY OwnerBag DEF R!Present
  <2> QED BY <1>1, <1>2, <2>1, <2>2, <2>3 DEF OwnerStage
<1>4. Taken = {} /\ LeftOver = {} /\ Made \subseteq Added
  BY OwnerAsked
<1>5. R!Related(d) = Added
  BY <1>3 DEF R!Related, OwnerGiven
<1>6. \A c \in Children \ Added : d.child[c] = base.child[c]
  BY <1>3, <1>4
<1> QED BY <1>3, <1>4, <1>5, <1>6 DEF Outcome

---------------------------------------------------------------------------
(* The invariant: the tables are what the stage says, and at the end what was
   asked for. *)

RelationIsRight ==
  /\ Given /\ (kind = "owner" => Alone) /\ phase \in {"run", "done", "failed"}
  /\ phase = "run" =>
       /\ todo # <<>>
       /\ kind = "owner" => OwnerStage(todo, db)
       /\ kind \in {"one", "many"} => InverseStage(todo, db)
       /\ kind = "m2m" => LinkStage(todo, db)
  /\ R!RelatedAsAsked /\ R!FailedLeavesNothing

\* The arguments of the write stay what they are.
Arguments == <<kind, engine, nullable, cascade, inTransaction, bag, base>>

LEMMA SameArguments ==
  ASSUME UNCHANGED Arguments
  PROVE  /\ kind' = kind /\ bag' = bag /\ base' = base /\ nullable' = nullable /\ engine' = engine /\ inTransaction' = inTransaction
         /\ Given' = Given /\ Alone' = Alone /\ (\A o : R!Present(o)' = R!Present(o)) /\ Before' = Before /\ There' = There
         /\ Removed' = Removed /\ Cut' = Cut /\ Had' = Had /\ Connected' = Connected /\ (\A o, r : R!Asked(o, r)' = R!Asked(o, r))
         /\ Dropped' = Dropped /\ Unlinked' = Unlinked /\ Surviving' = Surviving /\ Found' = Found /\ Made' = Made /\ Added' = Added
<1>1. kind' = kind /\ bag' = bag /\ base' = base /\ nullable' = nullable /\ engine' = engine /\ inTransaction' = inTransaction
  BY DEF Arguments
<1>2. Given' = Given
  BY <1>1 DEF Given, R!Possible, R!Bags, R!Databases
<1>3. Alone' = Alone /\ (\A o : R!Present(o)' = R!Present(o)) /\ (\A o, r : R!Asked(o, r)' = R!Asked(o, r))
  BY <1>1 DEF Alone, R!Present, R!Asked
<1>4. Before' = Before /\ There' = There
  BY <1>1 DEF Before, R!Related, There
<1>5. Removed' = Removed /\ Cut' = Cut /\ Had' = Had /\ Connected' = Connected
  BY <1>1, <1>3, <1>4 DEF Removed, Cut, Had, Connected, R!Asked
<1>6. Dropped' = Dropped /\ Unlinked' = Unlinked /\ Surviving' = Surviving /\ Found' = Found
  BY <1>1, <1>3, <1>4 DEF Dropped, Unlinked, Surviving, Found, R!Asked
<1>7. Made' = Made /\ Added' = Added
  BY <1>1, <1>3, <1>5 DEF Made, Added, R!Asked, R!Present, Connected
<1> QED BY <1>1, <1>2, <1>3, <1>4, <1>5, <1>6, <1>7

LEMMA SamePlan ==
  ASSUME UNCHANGED Arguments
  PROVE  /\ R!Creates' = R!Creates /\ R!FindOrCreates' = R!FindOrCreates
         /\ R!InverseWrite' = R!InverseWrite /\ R!M2MWrite' = R!M2MWrite
         /\ ToCreate' = ToCreate /\ ToLink' = ToLink /\ ToUnlink' = ToUnlink
         /\ ToFind' = ToFind /\ ToInsert' = ToInsert /\ ToCut' = ToCut
         /\ (\A r : R!SetInverse(r)' = R!SetInverse(r)) /\ (\A r : R!DisconnectInverse(r)' = R!DisconnectInverse(r))
<1>1. bag' = bag /\ nullable' = nullable /\ \A o : R!Present(o)' = R!Present(o)
  BY SameArguments
<1>2. R!Creates' = R!Creates /\ R!FindOrCreates' = R!FindOrCreates
  BY <1>1 DEF R!Creates, R!FindOrCreates
<1>3. (\A r : R!DisconnectInverse(r)' = R!DisconnectInverse(r)) /\ (\A r : R!SetInverse(r)' = R!SetInverse(r))
  BY <1>1 DEF R!DisconnectInverse, R!SetInverse
<1>4. ToCreate' = ToCreate /\ ToLink' = ToLink /\ ToUnlink' = ToUnlink /\ R!InverseWrite' = R!InverseWrite
  BY <1>1, <1>2, <1>3 DEF ToCreate, ToLink, ToUnlink, R!InverseWrite, R!When, R!SetInverse, R!DisconnectInverse, R!Present
<1>5. ToFind' = ToFind /\ ToInsert' = ToInsert /\ ToCut' = ToCut /\ R!M2MWrite' = R!M2MWrite
  BY <1>1, <1>2 DEF ToFind, ToInsert, ToCut, R!M2MWrite, R!When, R!Present
<1> QED BY <1>2, <1>3, <1>4, <1>5

LEMMA SameOwner ==
  ASSUME UNCHANGED Arguments, OwnerStage(todo', db')
  PROVE  OwnerStage(todo, db)'
<1>1. bag' = bag /\ base' = base /\ There' = There /\ Made' = Made /\ Added' = Added
  BY SameArguments
<1>2. R!Present("connect")' = R!Present("connect") /\ R!Present("create")' = R!Present("create")
      /\ R!Present("connectOrCreate")' = R!Present("connectOrCreate")
  BY <1>1 DEF R!Present
<1>3. \A made \in SUBSET Children : OwnerIs(db', made) => OwnerIs(db, made)'
  BY <1>1 DEF OwnerIs
<1> QED BY <1>1, <1>2, <1>3 DEF OwnerStage

LEMMA SameInverse ==
  ASSUME UNCHANGED Arguments, InverseStage(todo', db')
  PROVE  InverseStage(todo, db)'
<1>1. /\ bag' = bag /\ base' = base /\ nullable' = nullable /\ Before' = Before /\ Removed' = Removed /\ Cut' = Cut /\ Had' = Had /\ Connected' = Connected
  BY SameArguments
<1>2. /\ R!Present("delete")' = R!Present("delete") /\ R!Present("disconnect")' = R!Present("disconnect") /\ R!Present("set")' = R!Present("set")
      /\ R!Present("connect")' = R!Present("connect") /\ R!Present("create")' = R!Present("create") /\ R!Asked("create", {})' = R!Asked("create", {})
  BY <1>1 DEF R!Present, R!Asked
<1>3. /\ R!InverseWrite' = R!InverseWrite /\ ToUnlink' = ToUnlink /\ ToLink' = ToLink /\ ToCreate' = ToCreate
      /\ R!SetInverse(bag.set)' = R!SetInverse(bag.set) /\ R!DisconnectInverse(bag.disconnect)' = R!DisconnectInverse(bag.disconnect)
  BY <1>1, SamePlan DEF R!SetInverse, R!DisconnectInverse
<1>4. /\ InverseIs(db', {}, {}, {}) => InverseIs(db, {}, {}, {})'
      /\ InverseIs(db', Removed, {}, {}) => InverseIs(db, Removed, {}, {})'
      /\ InverseIs(db', Removed, Cut, {}) => InverseIs(db, Removed, Cut, {})'
      /\ InverseIs(db', Removed, Before, {}) => InverseIs(db, Removed, Before, {})'
  BY <1>1 DEF InverseIs
<1>5. /\ \A mine \in SUBSET Children : InverseIs(db', Removed, Cut, mine) => InverseIs(db, Removed, Cut, mine)'
      /\ InverseIs(db', Removed, Before, bag.set \cap Had) => InverseIs(db, Removed, Before, bag.set \cap Had)'
      /\ InverseIs(db', Removed, Cut, (Connected \cap Had) \cup R!Asked("create", {}))
           => InverseIs(db, Removed, Cut, (Connected \cap Had) \cup R!Asked("create", {}))'
  BY <1>1, <1>2 DEF InverseIs
<1> HIDE DEF Before, Removed, Cut, Had, Connected, R!InverseWrite, ToCreate, ToLink, ToUnlink
<1> QED BY <1>1, <1>2, <1>3, <1>4, <1>5 DEF InverseStage

LEMMA SameLinks ==
  ASSUME UNCHANGED Arguments, LinkStage(todo', db')
  PROVE  LinkStage(todo, db)'
<1>1. /\ bag' = bag /\ base' = base /\ Dropped' = Dropped /\ Unlinked' = Unlinked /\ Surviving' = Surviving /\ Found' = Found /\ Connected' = Connected
  BY SameArguments
<1>2. /\ R!Present("delete")' = R!Present("delete") /\ R!Present("disconnect")' = R!Present("disconnect") /\ R!Present("set")' = R!Present("set")
      /\ R!Present("connect")' = R!Present("connect") /\ R!Present("connectOrCreate")' = R!Present("connectOrCreate")
  BY <1>1 DEF R!Present
<1>3. R!M2MWrite' = R!M2MWrite /\ ToCut' = ToCut /\ ToInsert' = ToInsert /\ ToFind' = ToFind
  BY SamePlan
<1>4. /\ LinksAre(db', {}, {}, {}, {}) => LinksAre(db, {}, {}, {}, {})'
      /\ LinksAre(db', {}, {}, Dropped, {}) => LinksAre(db, {}, {}, Dropped, {})'
      /\ LinksAre(db', Dropped, {}, {}, {}) => LinksAre(db, Dropped, {}, {}, {})'
      /\ LinksAre(db', Dropped, {}, Unlinked, {}) => LinksAre(db, Dropped, {}, Unlinked, {})'
      /\ LinksAre(db', Dropped, {}, Children, {}) => LinksAre(db, Dropped, {}, Children, {})'
  BY <1>1 DEF LinksAre
<1>5. /\ \A made \in SUBSET Children :
           LinksAre(db', Dropped, made, Unlinked, Connected \cap Surviving) => LinksAre(db, Dropped, made, Unlinked, Connected \cap Surviving)'
      /\ LinksAre(db', Dropped, {}, Children, bag.set \cap Surviving) => LinksAre(db, Dropped, {}, Children, bag.set \cap Surviving)'
      /\ LinksAre(db', Dropped, Found \ Surviving, Unlinked, (Connected \cap Surviving) \cup Found)
           => LinksAre(db, Dropped, Found \ Surviving, Unlinked, (Connected \cap Surviving) \cup Found)'
  BY <1>1 DEF LinksAre
<1> HIDE DEF Dropped, Unlinked, Surviving, Found, Connected, R!M2MWrite, ToFind, ToInsert, ToCut
<1>6. CASE ~R!Present("set") /\ R!Present("connectOrCreate") /\
              \E w \in Seq(Children), made \in SUBSET Children :
                /\ Elements(w) \subseteq bag.connectOrCreate /\ made \subseteq bag.connectOrCreate \ Surviving
                /\ bag.connectOrCreate \subseteq Elements(w) \cup made \cup Surviving
                /\ todo' = OneByOne("findOrCreate", w) \o R!Stmt("insert", bag.connectOrCreate)
                /\ LinksAre(db', Dropped, made, Unlinked, Connected \cap Surviving)
  <2>1. (~R!Present("set") /\ R!Present("connectOrCreate") /\
           \E w \in Seq(Children), made \in SUBSET Children :
             /\ Elements(w) \subseteq bag.connectOrCreate /\ made \subseteq bag.connectOrCreate \ Surviving
             /\ bag.connectOrCreate \subseteq Elements(w) \cup made \cup Surviving
             /\ todo = OneByOne("findOrCreate", w) \o R!Stmt("insert", bag.connectOrCreate)
             /\ LinksAre(db, Dropped, made, Unlinked, Connected \cap Surviving))'
    BY <1>1, <1>2, <1>5, <1>6
  <2> QED BY <2>1 DEF LinkStage
<1>7. CASE ~R!Present("set") /\ R!Present("connect") /\ todo' = R!Stmt("insert", bag.connect) \o ToFind /\ LinksAre(db', Dropped, {}, Unlinked, {})
  BY <1>1, <1>2, <1>3, <1>4, <1>7 DEF LinkStage
<1>8. CASE \/ todo' = R!Stmt("parent", {}) \o R!M2MWrite /\ db' = base
           \/ R!Present("delete") /\ bag.delete = All /\ todo' = R!Stmt("list", {}) \o ToCut /\ LinksAre(db', {}, {}, {}, {})
           \/ R!Present("delete") /\ todo' = R!Stmt("unlink", Dropped) \o (R!Stmt("drop", Dropped) \o ToCut) /\ LinksAre(db', {}, {}, {}, {})
           \/ R!Present("delete") /\ todo' = R!Stmt("drop", Dropped) \o ToCut /\ LinksAre(db', {}, {}, Dropped, {})
           \/ R!Present("disconnect") /\ todo' = R!Stmt("unlink", bag.disconnect) \o ToInsert /\ LinksAre(db', Dropped, {}, {}, {})
  BY <1>1, <1>2, <1>3, <1>4, <1>8 DEF LinkStage
<1>9. CASE \/ R!Present("set") /\ todo' = R!Stmt("unlink", All) \o R!Stmt("insert", bag.set) /\ LinksAre(db', Dropped, {}, Unlinked, {})
           \/ R!Present("set") /\ todo' = R!Stmt("insert", bag.set) /\ LinksAre(db', Dropped, {}, Children, {})
           \/ /\ todo' = <<>>
              /\ \/ R!Present("set") /\ LinksAre(db', Dropped, {}, Children, bag.set \cap Surviving)
                 \/ ~R!Present("set") /\ LinksAre(db', Dropped, Found \ Surviving, Unlinked, (Connected \cap Surviving) \cup Found)
  BY <1>1, <1>2, <1>3, <1>4, <1>5, <1>9 DEF LinkStage
<1> QED BY <1>6, <1>7, <1>8, <1>9 DEF LinkStage

\* Of several operations on an outgoing key the write has one.
LEMMA OneOfThem ==
  ASSUME R!Init, kind = "owner"
  PROVE  Alone
<1>1. bag \in [delete : {Absent}, disconnect : {Absent, All}, set : {Absent}, connect : R!Single, connectOrCreate : R!Single, create : R!Single]
  BY DEF R!Init, R!Bags
<1>2. DOMAIN bag = {"delete", "disconnect", "set", "connect", "connectOrCreate", "create"}
  BY <1>1
<1>3. bag.delete = Absent /\ bag.set = Absent
  BY <1>1
<1> DEFINE given == {o \in DOMAIN bag : bag[o] # Absent}
<1>4. given # {}
  <2>1. Cardinality(given) \in 1 .. MaxOperations
    BY SameCount DEF R!Init
  <2>2. Cardinality({}) = 0
    BY FS_EmptySet
  <2>3. 0 \notin 1 .. MaxOperations
    OBVIOUS
  <2> HIDE DEF given
  <2> QED BY <2>1, <2>2, <2>3
<1>5. R!Present("connect") \/ R!Present("disconnect") \/ R!Present("create") \/ R!Present("connectOrCreate")
  BY <1>2, <1>3, <1>4 DEF R!Present
<1>6. \A o, other \in DOMAIN bag : R!Present(o) /\ R!Present(other) => o = other \/ R!Present("connectOrCreate")
  BY DEF R!Init
<1>7. ~R!Present("connectOrCreate") => \A o, other \in {"connect", "disconnect", "create"} : ~(R!Present(o) /\ R!Present(other)) \/ o = other
  BY <1>2, <1>6
<1> QED BY <1>5, <1>7 DEF Alone

\* The write of an outgoing key begins at its first stage.
LEMMA OwnerBegins ==
  ASSUME OwnerGiven, db = base
  PROVE  OwnerStage(R!ToOneWrite, db) /\ R!ToOneWrite # <<>>
<1>1. OwnerIs(db, {}) /\ {} \in SUBSET Children
  BY OwnerStart
<1>2. \A rows : R!Stmt("parent", rows) # <<>> /\ R!Refuse # <<>>
  BY DEF R!Stmt, R!Refuse
<1>3. CASE R!Present("connectOrCreate") /\ (R!Present("connect") \/ R!Present("create"))
  BY <1>2, <1>3 DEF R!ToOneWrite, OwnerStage
<1>4. CASE R!Present("connectOrCreate") /\ ~R!Present("connect") /\ ~R!Present("create")
  <2>1. bag.connectOrCreate \in SUBSET Children
    BY <1>4, OwnerBag DEF R!Present
  <2>2. PICK w \in Seq(Children) : R!FindOrCreates = OneByOne("findOrCreate", w) /\ Elements(w) = bag.connectOrCreate
    BY <2>1, FindsAre DEF OwnerGiven
  <2>3. R!ToOneWrite = OneByOne("findOrCreate", w) \o R!Stmt("parent", bag.connectOrCreate)
    BY <1>4, <2>2 DEF R!ToOneWrite
  <2>4. /\ Elements(w) \subseteq bag.connectOrCreate /\ {} \subseteq bag.connectOrCreate \ There
        /\ bag.connectOrCreate \subseteq Elements(w) \cup {} \cup There
    BY <2>2
  <2>5. OwnerStage(R!ToOneWrite, db)
    <3> HIDE DEF R!ToOneWrite
    <3> QED BY <1>1, <1>4, <2>2, <2>3, <2>4 DEF OwnerStage
  <2>6. "findOrCreate" \in Acts
    BY DEF Acts
  <2>7. R!ToOneWrite # <<>>
    <3> HIDE DEF R!ToOneWrite
    <3> QED BY <2>1, <2>3, <2>6, ParentToCome
  <2> QED BY <2>5, <2>7
<1>5. CASE ~R!Present("connectOrCreate") /\ R!Present("connect")
  <2>1. ~R!Present("create") /\ R!ToOneWrite = R!Stmt("parent", bag.connect)
    BY <1>5 DEF R!ToOneWrite, OwnerGiven, Alone
  <2> HIDE DEF R!ToOneWrite
  <2> QED BY <1>2, <1>5, <2>1 DEF OwnerStage
<1>6. CASE ~R!Present("connectOrCreate") /\ ~R!Present("connect") /\ R!Present("disconnect")
  <2>1. ~R!Present("create") /\ R!ToOneWrite = IF nullable THEN R!Stmt("parent", {}) ELSE R!Refuse
    BY <1>6 DEF R!ToOneWrite, OwnerGiven, Alone
  <2> HIDE DEF R!ToOneWrite
  <2>2. CASE nullable
    <3>1. R!ToOneWrite = R!Stmt("parent", {})
      BY <2>1, <2>2
    <3> QED BY <1>2, <1>6, <2>1, <3>1 DEF OwnerStage
  <2>3. CASE ~nullable
    <3>1. R!ToOneWrite = R!Refuse
      BY <2>1, <2>3
    <3> QED BY <1>2, <3>1 DEF OwnerStage
  <2> QED BY <2>2, <2>3
<1>7. CASE ~R!Present("connectOrCreate") /\ ~R!Present("connect") /\ ~R!Present("disconnect")
  <2>1. R!Present("create")
    BY <1>7 DEF OwnerGiven, Alone
  <2>2. bag.create \in SUBSET Children
    BY <2>1, OwnerBag DEF R!Present
  <2>3. PICK w \in Seq(Children) : R!Creates = OneByOne("child", w) /\ Elements(w) = bag.create
    BY <2>2, CreatesAre DEF OwnerGiven
  <2>4. R!ToOneWrite = OneByOne("child", w) \o R!Stmt("parent", bag.create)
    BY <1>7, <2>3 DEF R!ToOneWrite
  <2>5. Elements(w) \subseteq bag.create /\ {} \subseteq bag.create /\ bag.create \subseteq Elements(w) \cup {}
    BY <2>3
  <2>6. OwnerStage(R!ToOneWrite, db)
    <3> HIDE DEF R!ToOneWrite
    <3> QED BY <1>1, <1>7, <2>1, <2>3, <2>4, <2>5 DEF OwnerStage
  <2>7. "child" \in Acts
    BY DEF Acts
  <2>8. R!ToOneWrite # <<>>
    <3> HIDE DEF R!ToOneWrite
    <3> QED BY <2>2, <2>4, <2>7, ParentToCome
  <2> QED BY <2>6, <2>8
<1> QED BY <1>3, <1>4, <1>5, <1>6, <1>7

\* A write begins at its first stage.
LEMMA RelationStarts ==
  ASSUME R!WellFormed, R!Init
  PROVE  RelationIsRight
<1>1. Given /\ kind \in {"owner", "one", "many", "m2m"} /\ db = base /\ phase = "run" /\ todo = R!Plan
  BY DEF R!Init, R!WellFormed, Given
<1>2. CASE kind = "owner"
  <2>1. OwnerGiven
    BY <1>1, <1>2, OneOfThem DEF OwnerGiven
  <2>2. todo = R!ToOneWrite
    BY <1>1, <1>2 DEF R!Plan
  <2>3. OwnerStage(todo, db) /\ todo # <<>>
    BY <1>1, <2>1, <2>2, OwnerBegins
  <2>4. Alone
    BY <2>1 DEF OwnerGiven
  <2> QED BY <1>1, <1>2, <2>3, <2>4 DEF RelationIsRight, R!RelatedAsAsked, R!FailedLeavesNothing
<1>3. CASE kind \in {"one", "many"}
  <2>1. InverseGiven
    BY <1>1, <1>3 DEF InverseGiven
  <2>2. todo = R!Stmt("parent", {}) \o R!InverseWrite
    BY <1>1, <1>3 DEF R!Plan
  <2>3. InverseStage(todo, db)
    BY <1>1, <2>2 DEF InverseStage
  <2>4. todo # <<>>
    <3> DEFINE s == [do |-> "parent", rows |-> {}]
    <3>1. s \in Stmts /\ todo = <<s>> \o R!InverseWrite /\ R!InverseWrite \in Seq(Stmts)
      BY <2>1, <2>2, ParentSeq, InverseSeqs
    <3> HIDE DEF s
    <3> QED BY <3>1, FirstOf
  <2> QED BY <1>1, <1>3, <2>3, <2>4 DEF RelationIsRight, R!RelatedAsAsked, R!FailedLeavesNothing
<1>4. CASE kind = "m2m"
  <2>1. LinkedGiven
    BY <1>1, <1>4 DEF LinkedGiven
  <2>2. todo = R!Stmt("parent", {}) \o R!M2MWrite
    BY <1>1, <1>4 DEF R!Plan
  <2>3. LinkStage(todo, db)
    BY <1>1, <2>2 DEF LinkStage
  <2>4. todo # <<>>
    <3> DEFINE s == [do |-> "parent", rows |-> {}]
    <3>1. s \in Stmts /\ todo = <<s>> \o R!M2MWrite /\ R!M2MWrite \in Seq(Stmts)
      BY <2>1, <2>2, ParentSeq, LinkedSeqs
    <3> HIDE DEF s
    <3> QED BY <3>1, FirstOf
  <2> QED BY <1>1, <1>4, <2>3, <2>4 DEF RelationIsRight, R!RelatedAsAsked, R!FailedLeavesNothing
<1> QED BY <1>1, <1>2, <1>3, <1>4

\* Every statement, and every failure, keeps the invariant.
LEMMA RelationGoesOn ==
  ASSUME R!WellFormed, RelationIsRight, [R!Next]_(R!vars)
  PROVE  RelationIsRight'
<1>1. Given /\ (kind = "owner" => Alone) /\ kind \in {"owner", "one", "many", "m2m"}
  BY DEF RelationIsRight, Given
<1>2. CASE R!Execute
  <2>1. UNCHANGED Arguments /\ phase = "run"
    BY <1>2 DEF R!Execute, Arguments
  <2>2. Given' /\ (kind' = "owner" => Alone') /\ kind' = kind
    BY <1>1, <2>1, SameArguments
  <2>3. todo # <<>>
    BY <2>1 DEF RelationIsRight
  <2>4. CASE kind = "owner"
    <3>1. OwnerGiven /\ OwnerStage(todo, db)
      BY <1>1, <2>1, <2>4 DEF OwnerGiven, RelationIsRight
    <3>2. OwnerStage(todo', db') /\ phase' = IF todo' = <<>> THEN "done" ELSE "run"
      BY <1>2, <2>3, <3>1, OwnerStep
    <3>3. todo' = <<>> => R!RelatedAsAsked'
      <4>1. SUFFICES ASSUME todo' = <<>> PROVE R!RelatedAsAsked'
        OBVIOUS
      <4>2. Outcome(db', Taken, Made, Added, LeftOver)
        BY <3>1, <3>2, <4>1, OwnerOutcome
      <4> QED BY <2>1, <4>2, OutcomeThen DEF Arguments
    <3>4. OwnerStage(todo, db)'
      BY <2>1, <3>2, SameOwner
    <3>5. R!RelatedAsAsked'
      BY <3>2, <3>3 DEF R!RelatedAsAsked
    <3>6. R!FailedLeavesNothing'
      BY <3>2 DEF R!FailedLeavesNothing
    <3> QED BY <2>2, <2>4, <3>2, <3>4, <3>5, <3>6 DEF RelationIsRight
  <2>5. CASE kind \in {"one", "many"}
    <3>1. InverseGiven /\ InverseStage(todo, db)
      BY <1>1, <2>1, <2>5 DEF InverseGiven, RelationIsRight
    <3>2. InverseStage(todo', db') /\ phase' = IF todo' = <<>> THEN "done" ELSE "run"
      BY <1>2, <2>3, <3>1, InverseStep
    <3>3. todo' = <<>> => R!RelatedAsAsked'
      <4>1. SUFFICES ASSUME todo' = <<>> PROVE R!RelatedAsAsked'
        OBVIOUS
      <4>2. Outcome(db', Taken, Made, Added, LeftOver)
        BY <3>1, <3>2, <4>1, InverseOutcome
      <4> QED BY <2>1, <4>2, OutcomeThen DEF Arguments
    <3>4. InverseStage(todo, db)'
      BY <2>1, <3>2, SameInverse
    <3>5. R!RelatedAsAsked'
      BY <3>2, <3>3 DEF R!RelatedAsAsked
    <3>6. R!FailedLeavesNothing'
      BY <3>2 DEF R!FailedLeavesNothing
    <3> QED BY <2>2, <2>5, <3>2, <3>4, <3>5, <3>6 DEF RelationIsRight
  <2>6. CASE kind = "m2m"
    <3>1. LinkedGiven /\ LinkStage(todo, db)
      BY <1>1, <2>1, <2>6 DEF LinkedGiven, RelationIsRight
    <3>2. LinkStage(todo', db') /\ phase' = IF todo' = <<>> THEN "done" ELSE "run"
      BY <1>2, <2>3, <3>1, LinkStep
    <3>3. todo' = <<>> => R!RelatedAsAsked'
      <4>1. SUFFICES ASSUME todo' = <<>> PROVE R!RelatedAsAsked'
        OBVIOUS
      <4>2. Outcome(db', Taken, Made, Added, LeftOver)
        BY <3>1, <3>2, <4>1, LinkOutcome
      <4> QED BY <2>1, <4>2, OutcomeThen DEF Arguments
    <3>4. LinkStage(todo, db)'
      BY <2>1, <3>2, SameLinks
    <3>5. R!RelatedAsAsked'
      BY <3>2, <3>3 DEF R!RelatedAsAsked
    <3>6. R!FailedLeavesNothing'
      BY <3>2 DEF R!FailedLeavesNothing
    <3> QED BY <2>2, <2>6, <3>2, <3>4, <3>5, <3>6 DEF RelationIsRight
  <2> QED BY <1>1, <2>4, <2>5, <2>6
<1>3. CASE R!Fail
  <2>1. UNCHANGED Arguments /\ phase = "run" /\ phase' = "failed"
        /\ db' = IF R!OwnTransaction \/ (inTransaction /\ engine = "postgres") THEN base ELSE db
    BY <1>3 DEF R!Fail, Arguments
  <2>2. /\ Given' /\ (kind' = "owner" => Alone') /\ kind' = kind /\ base' = base /\ engine' = engine /\ inTransaction' = inTransaction
        /\ R!Present("connectOrCreate")' = R!Present("connectOrCreate")
    BY <1>1, <2>1, SameArguments DEF R!Present
  <2>3. R!FailedLeavesNothing'
    <3>1. CASE R!OwnTransaction \/ (inTransaction /\ engine = "postgres")
      BY <2>1, <2>2, <3>1 DEF R!FailedLeavesNothing
    <3>2. CASE inTransaction /\ engine # "postgres"
      BY <2>2, <3>2 DEF R!FailedLeavesNothing
    <3>3. CASE ~inTransaction /\ ~R!OwnTransaction
      <4>1. kind = "owner" /\ ~R!Present("create")
        BY <3>3 DEF R!OwnTransaction, R!NeedsTransaction
      <4>2. OwnerGiven /\ OwnerStage(todo, db) /\ todo # <<>>
        BY <1>1, <2>1, <4>1 DEF OwnerGiven, RelationIsRight
      <4>3. db = base \/ (R!Present("connectOrCreate") /\ [db EXCEPT !.child = base.child, !.ref = base.ref] = base)
        BY <4>1, <4>2, OwnerFails
      <4>4. db' = db
        BY <2>1, <3>3
      <4> QED BY <2>2, <4>1, <4>3, <4>4 DEF R!FailedLeavesNothing
    <3> QED BY <3>1, <3>2, <3>3
  <2>4. R!RelatedAsAsked'
    BY <2>1 DEF R!RelatedAsAsked
  <2> QED BY <2>1, <2>2, <2>3, <2>4 DEF RelationIsRight
<1>4. CASE UNCHANGED R!vars
  <2>1. UNCHANGED Arguments /\ todo' = todo /\ db' = db /\ phase' = phase
    BY <1>4 DEF R!vars, Arguments
  <2>2. Given' /\ (kind' = "owner" => Alone') /\ kind' = kind
    BY <1>1, <2>1, SameArguments
  <2>3. phase = "run" => (todo' # <<>> /\ (kind = "owner" => OwnerStage(todo, db)')
          /\ (kind \in {"one", "many"} => InverseStage(todo, db)') /\ (kind = "m2m" => LinkStage(todo, db)'))
    <3>1. SUFFICES ASSUME phase = "run"
          PROVE  todo' # <<>> /\ (kind = "owner" => OwnerStage(todo, db)')
                 /\ (kind \in {"one", "many"} => InverseStage(todo, db)') /\ (kind = "m2m" => LinkStage(todo, db)')
      OBVIOUS
    <3>2. todo' # <<>> /\ (kind = "owner" => OwnerStage(todo', db'))
      BY <2>1, <3>1 DEF RelationIsRight
    <3>3. kind \in {"one", "many"} => InverseStage(todo', db')
      BY <2>1, <3>1 DEF RelationIsRight
    <3>4. kind = "m2m" => LinkStage(todo', db')
      BY <2>1, <3>1 DEF RelationIsRight
    <3> QED BY <2>1, <3>2, <3>3, <3>4, SameOwner, SameInverse, SameLinks
  <2>4. R!RelatedAsAsked'
    BY <1>4 DEF RelationIsRight, R!RelatedAsAsked, R!vars, R!Related, R!Asked, R!Present
  <2>5. R!FailedLeavesNothing'
    BY <1>4 DEF RelationIsRight, R!FailedLeavesNothing, R!vars, R!Present
  <2>6. phase' \in {"run", "done", "failed"}
    BY <2>1 DEF RelationIsRight
  <2> QED BY <2>1, <2>2, <2>3, <2>4, <2>5, <2>6 DEF RelationIsRight
<1> QED BY <1>2, <1>3, <1>4 DEF R!Next, R!Ended
---------------------------------------------------------------------------
RelationInv == part = "relationWrites" => RelationIsRight

LEMMA RelationFromTheStart == Init => RelationInv
<1> SUFFICES ASSUME Init, part = "relationWrites" PROVE RelationIsRight
  BY DEF RelationInv
<1>1. R!Init
  BY DEF Init
<1> QED BY <1>1, RelationConstants, RelationStarts

LEMMA RelationGoesOnHere ==
  RelationInv /\ [Next]_<<part, v1, v2, v3, v4, v5, v6, v7, v8, v9, v10, v11, v12, v13, v14>> => RelationInv'
<1> SUFFICES ASSUME RelationInv, [Next]_<<part, v1, v2, v3, v4, v5, v6, v7, v8, v9, v10, v11, v12, v13, v14>>,
                    part' = "relationWrites"
             PROVE  RelationIsRight'
  BY DEF RelationInv
<1>1. part = "relationWrites"
  BY DEF Next, WritesNext, RelationWritesNext, PaginateNext, RelationLoadNext, ManyWritesNext, StudioGridNext,
     AggregatesNext, ReadsNext, Kept
<1>2. RelationIsRight
  BY <1>1 DEF RelationInv
<1>3. R!Next \/ UNCHANGED <<v1, v2, v3, v4, v5, v6, v7, v8, v9, v10>>
  BY <1>1 DEF Next, WritesNext, RelationWritesNext, PaginateNext, RelationLoadNext, ManyWritesNext, StudioGridNext,
     AggregatesNext, ReadsNext
<1>4. [R!Next]_(R!vars)
  BY <1>3 DEF R!vars
<1> QED BY <1>2, <1>4, RelationConstants, RelationGoesOn

\* NestedWritesAreWhole, for any tables, rows, kinds of relation, engines and
\* operations of the bag.
THEOREM NestedWritesAreAlwaysWhole == Spec => []NestedWritesAreWhole
<1>1. RelationInv => NestedWritesAreWhole
  BY DEF RelationInv, RelationIsRight, NestedWritesAreWhole
<1> QED BY <1>1, RelationFromTheStart, RelationGoesOnHere, PTL DEF Spec
===============================================================================
