----------------------------- MODULE ManyWrites -----------------------------
(***************************************************************************)
(* The writes of many rows: createMany, updateMany, deleteMany, their forms *)
(* that answer the rows, and updateMany with nested relation writes.  What  *)
(* a dialect cannot do in one statement (RETURNING) the code does in up to  *)
(* three, and other clients run between them.  The text of an UPDATE is     *)
(* cached: it holds placeholders, numbered on PostgreSQL and SQLite and     *)
(* bound in the order of the text on MySQL and MariaDB.                      *)
(***************************************************************************)
EXTENDS Naturals, Sequences, FiniteSets

CONSTANTS
  Ids,        \* primary keys: those of Stored may be in the table at first
  Stored,
  Authors,    \* keys of the table the relation of a row leads to
  Rows,       \* rows the table may hold at first, [author, n]
  Strays,     \* rows other clients leave, or Absent
  NewRows,    \* data of createMany: [id, n], None for what is left out
  Updates,    \* data of updateMany: sequences of [key, op, value]
  Dialects,
  None,
  Absent      \* no row

VARIABLES
  dialect,
  primaryKey, \* "serial", "filled" (by the client) or "none"
  rows,       \* id -> its row or Absent
  children,   \* ids whose rows the call gave a child
  cache,      \* updateManySqlByKeys: key -> text
  call, phase,
  first,      \* the table as the SELECT before the write saw it
  mapped,     \* <<id, row>> of the rows a statement answered
  answer,
  meant,      \* the ids the call is about, the table before its write and as it should be after (history)
  disturbed   \* another client wrote between two statements of the call (history)

vars == <<dialect, primaryKey, rows, children, cache, call, phase, first, mapped, answer, meant, disturbed>>

MySqlFamily == dialect \in {"mysql", "mariadb"}
supportsReturning == dialect # "mysql"
supportsUpdateReturning == ~MySqlFamily

Columns == {"author", "n"}
Row == [Columns -> Nat]
Present(table) == {i \in Ids : table[i] # Absent}
Pairs(ids, table) == {<<i, table[i]>> : i \in ids}
Named(ps) == {p[1] : p \in ps}
---------------------------------------------------------------------------
(* The statement of updateMany. *)

\* To-one filters become joins: asked for on PostgreSQL, the rule on MySQL.
shouldUseJoinUpdate(c) == dialect # "sqlite" /\ (c.useJoin = "yes" \/ (MySqlFamily /\ c.useJoin # "no"))
Joins(c) == c.join # None /\ shouldUseJoinUpdate(c)

\* data names each of the two columns once.
Order == [author |-> 1, n |-> 2]
Sorted(data) == IF Len(data) = 2 /\ Order[data[2].key] < Order[data[1].key] THEN <<data[2], data[1]>> ELSE data
Given(v) == IF v = None THEN <<>> ELSE <<v>>

\* dataToUpdateAssignments: the values by the name of their column.
Assignments(c) == [i \in DOMAIN c.data |-> Sorted(c.data)[i].value]

\* Mutant: the parameters in the order of the numbered placeholders everywhere.
WhereParamsRestFirst(c) == Given(c.rest) \o Given(c.join)

\* compileUpdateManyWhere: where the text binds them in its own order, those of
\* the joins come first.
WhereParams(c) ==
  IF Joins(c) /\ MySqlFamily THEN Given(c.join) \o Given(c.rest) ELSE Given(c.rest) \o Given(c.join)

\* buildUpdateManyQuery and buildUpdateManyJoinQuery: which parameter each
\* placeholder is bound to, 0 where the text has none.
BuildUpdate(c) ==
  LET k == Len(c.data)
      has(v) == IF v = None THEN 0 ELSE 1
      joinFirst == Joins(c) /\ MySqlFamily
  IN [sets |-> [i \in DOMAIN c.data |-> [key |-> Sorted(c.data)[i].key, op |-> Sorted(c.data)[i].op]],
      rest |-> has(c.rest) * (IF joinFirst THEN k + has(c.join) + 1 ELSE k + 1),
      join |-> has(c.join) * (IF joinFirst THEN k + 1 ELSE k + has(c.rest) + 1)]

\* Mutant: the key of the cache names the columns and not what is done to them.
UpdateKeyWithoutOps(c) ==
  <<[i \in DOMAIN c.data |-> Sorted(c.data)[i].key], c.rest # None, c.join # None, Joins(c)>>

\* The key names the columns with their operators, the where and the joins.
UpdateKey(c) ==
  <<[i \in DOMAIN c.data |-> [key |-> Sorted(c.data)[i].key, op |-> Sorted(c.data)[i].op]],
    c.rest # None, c.join # None, Joins(c)>>

UpdateText(c) == IF UpdateKey(c) \in DOMAIN cache THEN cache[UpdateKey(c)] ELSE BuildUpdate(c)

Selected(text, params) ==
  {i \in Present(rows) :
     /\ text.rest = 0 \/ rows[i].n = params[text.rest]
     /\ text.join = 0 \/ rows[i].author = params[text.join]}
Assigned(row, text, params) ==
  [col \in Columns |->
    LET at == {j \in DOMAIN text.sets : text.sets[j].key = col}
    IN IF at = {} THEN row[col]
       ELSE LET j == CHOOSE x \in at : TRUE
            IN IF text.sets[j].op = "set" THEN params[j] ELSE row[col] + params[j]]

\* What the call asks for, read off its arguments.
Matches(c, row) == (c.rest = None \/ row.n = c.rest) /\ (c.join = None \/ row.author = c.join)
Matching(c, table) == {i \in Present(table) : Matches(c, table[i])}
After(c, row) ==
  [col \in Columns |->
    LET given == {j \in DOMAIN c.data : c.data[j].key = col}
    IN IF given = {} THEN row[col]
       ELSE LET a == c.data[CHOOSE j \in given : TRUE]
            IN IF a.op = "set" THEN a.value ELSE row[col] + a.value]
---------------------------------------------------------------------------
(* The rows of createMany. *)

FirstId == CHOOSE j \in Ids \ Stored : \A h \in Ids \ Stored : j <= h
NewId(i) == FirstId + (i - 1)
Undefined(data, i) == {j \in 1..i : data[j].id = None}

\* The id of the i-th new row: the given one, or the next one of the sequence or the client.
IdOf(data, i) == IF data[i].id # None THEN data[i].id ELSE NewId(Cardinality(Undefined(data, i)))
RowOf(data, i) ==
  [col \in Columns |-> IF col = "author" THEN CHOOSE a \in Authors : TRUE ELSE IF data[i].n = None THEN 0 ELSE data[i].n]

\* fillMissingPrimaryKeys leaves serial keys to the database.
Filled(data) ==
  IF primaryKey = "serial" THEN data ELSE [i \in DOMAIN data |-> [data[i] EXCEPT !.id = IdOf(data, i)]]

\* Rows that leave out a key another row has are written with DEFAULT, which
\* SQLite does not take.
Uneven(data) ==
  \E f \in {"id", "n"} : (\E i \in DOMAIN data : data[i][f] = None) /\ (\E i \in DOMAIN data : data[i][f] # None)

\* The rows of data that are not in the way of another: with skipDuplicates those that are inserted.
Fresh(data) == {i \in DOMAIN data : rows[IdOf(data, i)] = Absent /\ \A j \in 1..(i - 1) : IdOf(data, j) # IdOf(data, i)}
Inserted(data) ==
  [id \in Ids |->
    IF \E i \in Fresh(data) : IdOf(data, i) = id THEN RowOf(data, CHOOSE i \in Fresh(data) : IdOf(data, i) = id) ELSE rows[id]]

\* insertId: the first id the database made, or else the last one it was given.
InsertId(data) ==
  IF Undefined(data, Len(data)) = {} THEN data[Len(data)].id
  ELSE IdOf(data, CHOOSE i \in Undefined(data, Len(data)) : \A j \in Undefined(data, Len(data)) : i <= j)

\* synthesizeSerialPkRows: the given rows with the ids from the first one on.
Synthesized(data) == {<<InsertId(data) + i - 1, data[i]>> : i \in DOMAIN data}

\* What is read again, by its keys: synthesized ones, or the given ones if all are given.
ToReload(data) ==
  IF primaryKey = "serial" /\ ~call.skip THEN Synthesized(data)
  ELSE IF \A i \in DOMAIN data : data[i].id # None THEN {<<data[i].id, data[i]>> : i \in DOMAIN data}
  ELSE {}
---------------------------------------------------------------------------
\* An update gives a column one value, and there are keys for the rows of a createMany.
Assignment == [key : Columns, op : {"set", "increment"}, value : Nat]
WellFormed ==
  /\ IsFiniteSet(Ids) /\ Ids \subseteq Nat /\ Stored \subseteq Ids /\ {FirstId, FirstId + 1} \subseteq Ids \ Stored
  /\ Authors # {} /\ Authors \subseteq Nat
  /\ Rows \subseteq Row /\ Strays \subseteq Row \cup {Absent} /\ NewRows \subseteq [id : Ids \cup {None}, n : Nat \cup {None}]
  /\ \A data \in Updates : data \in Seq(Assignment) /\ \A i, j \in DOMAIN data : data[i].key = data[j].key => i = j
  /\ None \notin Nat /\ Absent \notin Row

NoCall == [verb |-> "none"]
NoAnswer == [kind |-> "none", rows |-> {}, count |-> 0]

UpdateCalls ==
  {u \in [verb : {"update"}, data : Updates \cup {<<>>}, rest : {None, 1}, join : {None, 2}, useJoin : {"yes", "no"},
          back : BOOLEAN, nested : BOOLEAN] : u.data = <<>> => u.nested}
DeleteCalls == [verb : {"delete"}, rest : {None, 1}, join : {None, 2}, back : BOOLEAN, nested : {FALSE}]
CreateCalls ==
  [verb : {"create"}, data : {<<r>> : r \in NewRows} \cup {<<r, s>> : r, s \in NewRows}, skip : BOOLEAN,
   back : BOOLEAN, rest : {None}, join : {None}, nested : {FALSE}]

\* The cache holds what one earlier updateMany of one column left there, if anything.
Init ==
  /\ dialect \in Dialects
  /\ primaryKey \in {"serial", "filled"} \cup (IF supportsUpdateReturning THEN {} ELSE {"none"})
  /\ rows \in [Ids -> Rows \cup {Absent}]
  /\ Present(rows) \subseteq Stored
  /\ \/ cache = <<>>
     \/ \E c \in UpdateCalls : Len(c.data) = 1 /\ c.rest # None /\ Joins(c) /\ cache = [key \in {UpdateKey(c)} |-> BuildUpdate(c)]
  /\ children = {} /\ call = NoCall /\ phase = "idle" /\ first = rows /\ mapped = {} /\ answer = NoAnswer
  /\ meant = [ids |-> {}, before |-> rows, after |-> rows] /\ disturbed = FALSE

Answer(kind, ps, count) == answer' = [kind |-> kind, rows |-> ps, count |-> count] /\ phase' = "answered"
Answered(ps) == Answer("rows", IF call.back THEN ps ELSE {}, Cardinality(ps))
Goto(place) == phase' = place /\ UNCHANGED answer
Steady == UNCHANGED <<dialect, primaryKey, call, disturbed>>

\* What cannot answer its rows, or has relation writes to make for them, selects them first.
SelectsFirst(c) ==
  \/ c.verb = "delete" /\ c.back /\ ~supportsReturning
  \/ c.verb = "update" /\ (c.data = <<>> \/ ((c.back \/ c.nested) /\ ~supportsUpdateReturning))

Start ==
  /\ phase = "idle"
  /\ \E c \in UpdateCalls \cup DeleteCalls \cup CreateCalls :
       /\ c.verb = "create" \/ c.nested => primaryKey # "none"
       /\ c.verb = "update" \/ cache = <<>>   \* bound: other calls do not look at the cache
       /\ call' = c
       /\ IF c.verb = "update" /\ dialect = "sqlite" /\ c.useJoin = "yes" THEN Answer("error", {}, 0)
          ELSE Goto(IF SelectsFirst(c) THEN "select" ELSE "write")
  /\ UNCHANGED <<dialect, primaryKey, rows, children, cache, first, mapped, meant, disturbed>>

\* fetchRowsByWhere before the write.
Select ==
  /\ phase = "select"
  /\ LET found == Pairs(Matching(call, rows), rows)
     IN /\ first' = rows /\ mapped' = found
        /\ IF call.verb = "update" /\ call.data = <<>>
           THEN Goto("nested") /\ meant' = [ids |-> Named(found), before |-> rows, after |-> rows]
           ELSE /\ IF call.verb = "delete" /\ found = {} THEN Answered({}) ELSE Goto("write")
                /\ UNCHANGED meant
  /\ UNCHANGED <<rows, children, cache>> /\ Steady

UpdateMany ==
  /\ phase = "write" /\ call.verb = "update"
  /\ LET text == UpdateText(call)
         params == Assignments(call) \o WhereParams(call)
         ids == Selected(text, params)
         about == Matching(call, rows)
     IN /\ rows' = [i \in Ids |-> IF i \in ids THEN Assigned(rows[i], text, params) ELSE rows[i]]
        /\ cache' = [key \in DOMAIN cache \cup {UpdateKey(call)} |-> IF key = UpdateKey(call) THEN text ELSE cache[key]]
        /\ meant' = [ids |-> about, before |-> rows,
                     after |-> [i \in Ids |-> IF i \in about THEN After(call, rows[i]) ELSE rows[i]]]
        /\ IF SelectsFirst(call)
           THEN /\ UNCHANGED mapped
                /\ IF call.back /\ mapped # {} THEN Goto("reload")
                   ELSE IF call.nested THEN Goto("nested") ELSE Answered({})
           ELSE /\ mapped' = Pairs(ids, rows')
                /\ IF call.nested THEN Goto("nested") ELSE Answered(Pairs(ids, rows'))
  /\ UNCHANGED <<children, first>> /\ Steady

DeleteMany ==
  /\ phase = "write" /\ call.verb = "delete"
  /\ LET ids == Matching(call, rows)
         table == [i \in Ids |-> IF i \in ids THEN Absent ELSE rows[i]]
     IN /\ rows' = table
        /\ meant' = [ids |-> ids, before |-> rows, after |-> table]
        /\ Answered(IF SelectsFirst(call) THEN mapped ELSE Pairs(ids, rows))
  /\ UNCHANGED <<children, cache, first, mapped>> /\ Steady

CreateMany ==
  /\ phase = "write" /\ call.verb = "create"
  /\ LET data == Filled(call.data)
         ids == {IdOf(data, i) : i \in Fresh(data)}
     IN IF (Uneven(data) /\ dialect = "sqlite") \/ (Fresh(data) # DOMAIN data /\ ~call.skip)
        THEN Answer("error", {}, 0) /\ UNCHANGED <<rows, meant, mapped>>
        ELSE /\ rows' = Inserted(data)
             /\ meant' = [ids |-> ids, before |-> rows, after |-> Inserted(data)]
             /\ IF ~call.back \/ supportsReturning THEN Answered(Pairs(ids, rows')) /\ UNCHANGED mapped
                ELSE IF ToReload(data) # {} THEN Goto("reload") /\ mapped' = ToReload(data)
                ELSE Answered({<<data[i].id, data[i]>> : i \in DOMAIN data}) /\ UNCHANGED mapped
  /\ UNCHANGED <<children, cache, first>> /\ Steady

\* In a transaction the rows the call did not write are those of its snapshot.
Seen == [i \in Ids |-> IF call.nested /\ i \notin meant.ids THEN first[i] ELSE rows[i]]

\* Mutant: the rows are read again by the filter.
ReloadedByFilter == Pairs(Matching(call, Seen), Seen)

\* reloadManyRows: by primary key, or by the filter where there is none.
Reloaded ==
  IF primaryKey = "none" THEN Pairs(Matching(call, Seen), Seen)
  ELSE Pairs(Named(mapped) \cap Present(Seen), Seen)

\* Rows whose keys were synthesized are answered as they are if none is found.
Reload ==
  /\ phase = "reload"
  /\ mapped' = IF call.verb = "create" /\ primaryKey = "serial" /\ ~call.skip /\ Reloaded = {} THEN mapped ELSE Reloaded
  /\ IF call.nested THEN Goto("nested") ELSE Answered(mapped')
  /\ UNCHANGED <<rows, children, cache, first, meant>> /\ Steady

\* executeRelationWrites for each row, in the transaction of the write: a
\* to-many create, which fails if the row is gone and may fail otherwise.
NestedWrites ==
  /\ phase = "nested"
  /\ \/ /\ Named(mapped) \subseteq Present(rows)
        /\ children' = Named(mapped)
        /\ Answered(mapped) /\ UNCHANGED rows
     \/ /\ mapped # {}
        /\ rows' = [i \in Ids |-> IF i \in meant.ids THEN meant.before[i] ELSE rows[i]]
        /\ Answer("error", {}, 0) /\ UNCHANGED children
  /\ UNCHANGED <<cache, first, mapped, meant>> /\ Steady

\* Another client writes between two statements: rows that a transaction has
\* written are locked, and it has a SQLite database for itself.
Disturb ==
  /\ ~disturbed /\ dialect # "sqlite"
  /\ phase \in {"reload", "nested"} \/ (phase = "write" /\ SelectsFirst(call))
  /\ \E i \in Stored, row \in Strays :
       /\ call.nested /\ phase # "write" => i \notin meant.ids
       /\ row # rows[i]
       /\ rows' = [rows EXCEPT ![i] = row]
  /\ disturbed' = TRUE
  /\ UNCHANGED <<dialect, primaryKey, children, cache, call, phase, first, mapped, answer, meant>>

Finished == phase = "answered" /\ UNCHANGED vars

Next ==
  \/ Start \/ Select \/ UpdateMany \/ DeleteMany \/ CreateMany \/ Reload \/ NestedWrites \/ Disturb
  \/ Finished

Spec == Init /\ [][Next]_vars
---------------------------------------------------------------------------
(* Properties. *)

\* The rows cannot be found again: the table has no primary key, or MySQL made
\* some of the keys of createMany and not the others, or skipped a row.
Unknowable ==
  \/ primaryKey = "none" /\ call.verb = "update"
  \/ /\ call.verb = "create" /\ ~supportsReturning
     /\ call.skip \/ (primaryKey = "serial" /\ \E i \in DOMAIN call.data : call.data[i].id # None)

\* When no other client came between its statements, a call has written the
\* rows its own filter names as its own data says, whichever call the text of
\* its statement was built for; it answers them, or their number, and its
\* nested writes are made for each of them.  Otherwise the nested writes are
\* made for the rows it answers.  A call that failed wrote nothing.
AnsweredAreAffected ==
  phase = "answered" =>
    /\ answer.kind = "error" /\ ~disturbed => rows = meant.before /\ children = {}
    /\ answer.kind = "rows" /\ call.nested => children = Named(mapped)
    /\ answer.kind = "rows" /\ ~disturbed =>
         /\ rows = meant.after
         /\ call.nested => children = meant.ids \/ Unknowable
         /\ ~call.back \/ ~Unknowable =>
              /\ answer.count = Cardinality(meant.ids) \/ Unknowable
              /\ call.back => answer.rows = Pairs(meant.ids, IF call.verb = "delete" THEN meant.before ELSE meant.after)
=============================================================================
