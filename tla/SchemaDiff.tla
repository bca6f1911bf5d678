----------------------------- MODULE SchemaDiff -----------------------------
(***************************************************************************)
(* The schema diff: two manifests become an ordered list of DDL statements, *)
(* which a database in the first schema runs one by one.  Loops over the    *)
(* columns or tables of a manifest run in the order of schema.ts, which may *)
(* be any: a plan is a sequence of sets of statements, and the statements   *)
(* of one set run in any order.                                             *)
(*                                                                          *)
(* A column of the database carries the property name under which its data  *)
(* was written, so that a wrong copy or rename shows.                       *)
(***************************************************************************)
EXTENDS Naturals, Sequences, FiniteSets, SequencesExt, TLC

CONSTANTS
  Properties,  \* tsName of a column
  Names,       \* sqlName of a column
  IndexNames,
  Dialects,    \* subset of {"postgres", "mysql", "sqlite"}
  None,        \* no foreign key
  Fresh        \* data of a column that was just created

VARIABLES
  dialect,
  prev, next,  \* manifests: table -> columns and indexes
  accept,      \* --accept-data-loss; without it the caller is `db push`
  db,          \* table -> columns, foreign keys, indexes
  todo,        \* statements to come: a sequence of sets
  pc           \* "idle", "ready" (a database in schema prev), "edited", "running", "done", "failed"

vars == <<dialect, prev, next, accept, db, todo, pc>>
---------------------------------------------------------------------------
(* Manifests. *)

\* "name" is a text column that is NOT NULL, "ref" a foreign key to a text id.
ColumnKinds == {"int", "bool", "text", "name", "ref"}
Column == {c \in [ts : Properties, sql : Names, kind : ColumnKinds, ref : {None, "B"}] : (c.kind = "ref") = (c.ref = "B")}

\* Bound: of two columns one is an int.
ColumnSets ==
  {{}} \cup {{c} : c \in Column}
  \cup {{p[1], p[2]} : p \in {q \in Column \X Column : q[1].ts # q[2].ts /\ q[1].sql # q[2].sql /\ q[2].kind = "int"}}
IndexSets(cols) == {{}} \cup {{[name |-> i, col |-> c.sql]} : i \in IndexNames, c \in {d \in cols : d.kind # "ref"}}

\* Bound: columns of table B other than a foreign key to A.
Back == [ts |-> "z", sql |-> "z", kind |-> "ref", ref |-> "A"]
ATables == UNION {{[cols |-> cs, index |-> is] : is \in IndexSets(cs)} : cs \in ColumnSets}
BTables == {[cols |-> cs, index |-> {}] : cs \in {{}, {Back}}}

References(table) == {c.ref : c \in {d \in table.cols : d.kind = "ref"}}
Manifests ==
  {m \in {<<>>} \cup {"A" :> a : a \in ATables} \cup {"B" :> b : b \in BTables}
         \cup {("A" :> p[1]) @@ ("B" :> p[2]) : p \in ATables \X BTables} :
     \A t \in DOMAIN m : References(m[t]) \subseteq DOMAIN m}

SqlType(c) ==
  CASE c.kind \in {"int", "bool"} -> c.kind
    [] c.kind = "ref" /\ dialect = "mysql" -> "varchar"
    [] OTHER -> "text"
Required(c) == c.kind = "name"
CanAutoCast(from, to) == from = to \/ (dialect # "mysql" /\ "text" \in {from, to})

HasTs(table, ts) == \E c \in table.cols : c.ts = ts
HasSql(table, sql) == \E c \in table.cols : c.sql = sql
ByTs(table, ts) == CHOOSE c \in table.cols : c.ts = ts
BySql(table, sql) == CHOOSE c \in table.cols : c.sql = sql
---------------------------------------------------------------------------
(* The difference of two versions of a table. *)

Renamed(p, n) ==
  {[from |-> ByTs(p, c.ts).sql, to |-> c.sql] : c \in {d \in n.cols : HasTs(p, d.ts) /\ ByTs(p, d.ts).sql # d.sql}}

Added(p, n) ==
  {c \in n.cols : ~HasTs(p, c.ts) /\ ~HasSql(p, c.sql) /\ c.sql \notin {r.to : r \in Renamed(p, n)}}

Dropped(p, n) ==
  {c.sql : c \in {d \in p.cols : ~HasTs(n, d.ts) /\ ~HasSql(n, d.sql) /\ d.sql \notin {r.from : r \in Renamed(p, n)}}}

\* buildColumnAlter: the new column and the type and nullability it had.
Altered(p, n) ==
  {a \in {[col |-> c, from |-> SqlType(ByTs(p, c.ts)), was |-> Required(ByTs(p, c.ts))] :
            c \in {d \in n.cols : HasTs(p, d.ts)}} :
     a.from # SqlType(a.col) \/ a.was # Required(a.col)}

Named(table, name) == {i \in table.index : i.name = name}
SameSignature(table, index) == {i \in table.index : i.col = index.col}

\* An index is found again by its name or else by what it covers.
Matched(p, index) == IF Named(p, index.name) # {} THEN Named(p, index.name) ELSE SameSignature(p, index)
\* Mutant: an index whose columns changed is dropped and not created again.
IndexesNew(p, n) == {i \in n.index : Matched(p, i) = {}}
AddedIndexes(p, n) == {i \in n.index : \A j \in Matched(p, i) : j.col # i.col}
DroppedIndexes(p, n) ==
  {j.name : j \in {k \in p.index :
     IF \E i \in n.index : k \in Matched(p, i)
     THEN \E i \in n.index : k \in Matched(p, i) /\ i.col # k.col
     ELSE SameSignature(n, k) = {}}}

ForeignKeys(table) == {[col |-> c.sql, ref |-> c.ref] : c \in {d \in table.cols : d.kind = "ref"}}
AddedForeignKeys(p, n) == ForeignKeys(n) \ ForeignKeys(p)
DroppedForeignKeys(p, n) == ForeignKeys(p) \ ForeignKeys(n)

diffTable(p, n) ==
  [drop |-> Dropped(p, n), rename |-> Renamed(p, n), add |-> Added(p, n), alter |-> Altered(p, n),
   dropIndex |-> DroppedIndexes(p, n), addIndex |-> AddedIndexes(p, n),
   dropFk |-> DroppedForeignKeys(p, n), addFk |-> AddedForeignKeys(p, n)]
HasChanges(d) == \E f \in DOMAIN d : d[f] # {}

Unsafe(a) == ~CanAutoCast(a.from, SqlType(a.col))

\* classifyDestructive looks for TYPE or CREATE TABLE in the statement, which MODIFY COLUMN has not.
Manual(d) == dialect # "mysql" /\ \E a \in d.alter : Unsafe(a)
IsDestructive(d) == d.drop # {} \/ d.dropIndex # {} \/ d.dropFk # {} \/ Manual(d)

\* Mutant: columns that are gone from the schema are still dropped.
stripAllButDrops(d) ==
  [d EXCEPT !.dropIndex = {}, !.dropFk = {}, !.alter = {a \in @ : ~Unsafe(a)},
            !.addFk = {f \in @ : f.col \notin {g.col : g \in d.dropFk}}]
\* A changed foreign key goes as a whole.
stripDestructive(d) ==
  [d EXCEPT !.drop = {}, !.dropIndex = {}, !.dropFk = {}, !.alter = {a \in @ : ~Unsafe(a)},
            !.addFk = {f \in @ : f.col \notin {g.col : g \in d.dropFk}}]
---------------------------------------------------------------------------
(* Statements. *)

OnCreate(t, table) == {[do |-> "createIndex", t |-> t, index |-> i] : i \in table.index}
AddFks(t, fks) == {[do |-> "addFk", t |-> t, fk |-> f] : f \in fks}

Temporary(t) == "__neoorm_" \o t \o "_new"

\* emitRebuildSql of SQLite, from the new table and what the diff says of its columns.
Rebuild(t, d) ==
  LET new == next[t]
      Old(sql) == IF \E r \in d.rename : r.to = sql THEN (CHOOSE r \in d.rename : r.to = sql).from ELSE sql
  IN << {[do |-> "createTable", t |-> Temporary(t), of |-> t, table |-> new]},
        {[do |-> "copy", t |-> t, pairs |-> {<<c.sql, Old(c.sql)>> : c \in new.cols \ d.add}]},
        {[do |-> "dropTable", t |-> t]},
        {[do |-> "renameTable", t |-> t]},
        OnCreate(t, new) >>

\* emitAlterTable of the three dialects.
AlterTable(t, d) ==
  LET dropFks == {[do |-> "dropFk", t |-> t, fk |-> f] : f \in d.dropFk}
      dropIndexes == {[do |-> "dropIndex", t |-> t, name |-> i] : i \in d.dropIndex}
      dropColumns == {[do |-> "dropColumn", t |-> t, sql |-> c] : c \in d.drop}
      renames == {[do |-> "renameColumn", t |-> t, from |-> r.from, to |-> BySql(next[t], r.to)] : r \in d.rename}
      adds == {[do |-> "addColumn", t |-> t, col |-> c] : c \in d.add}
      alters == {[do |-> "alterType", t |-> t, col |-> a.col, unsafe |-> Unsafe(a)] : a \in {b \in d.alter : b.from # SqlType(b.col)}}
                \cup {[do |-> "alterNull", t |-> t, col |-> a.col] :
                        a \in {b \in d.alter : b.was # Required(b.col) /\ (dialect # "mysql" \/ b.from = SqlType(b.col))}}
      addIndexes == {[do |-> "createIndex", t |-> t, index |-> i] : i \in d.addIndex}
  IN IF dialect # "sqlite"
     THEN <<dropFks, dropIndexes, dropColumns, renames, adds, alters, addIndexes, AddFks(t, d.addFk)>>
     ELSE IF d.alter # {} \/ d.addFk # {} \/ d.dropFk # {} THEN Rebuild(t, d)
     ELSE <<dropColumns, renames, adds, dropIndexes, addIndexes>>

\* orderTablesByForeignKeys: parents first; in a cycle whichever schema.ts has first.
Bigger(m, t, u) == u \in References(m[t]) /\ t \notin References(m[u])
ParentsFirst(m, tables) ==
  {o \in SetToSeqs(tables) : \A i, j \in DOMAIN o : i < j => ~Bigger(m, o[i], o[j])}

\* emitCreatedTablesSql
CreatePlan(order) ==
  FlattenSeq([i \in DOMAIN order |->
            << {[do |-> "createTable", t |-> order[i], of |-> order[i], table |-> next[order[i]]]},
               OnCreate(order[i], next[order[i]]) >>])
  \o IF dialect = "sqlite" THEN <<>>
     ELSE [i \in DOMAIN order |-> AddFks(order[i], ForeignKeys(next[order[i]]))]

Kept == DOMAIN prev \cap DOMAIN next
Diffs == [t \in Kept |-> diffTable(prev[t], next[t])]
Blocked ==
  IF accept THEN \E t \in Kept : Manual(Diffs[t])
  ELSE DOMAIN prev \ DOMAIN next # {} \/ \E t \in Kept : IsDestructive(Diffs[t])

\* resolveMigrationSql: what may not be done is left out of the diff or, when it
\* was accepted, the statements of a manual type change are left out of the SQL.
Resolved == IF Blocked /\ ~accept THEN [t \in Kept |-> stripDestructive(Diffs[t])] ELSE Diffs
IsManual(s) ==
  \/ s.do = "alterType" /\ s.unsafe
  \/ s.do = "createTable" /\ s.t = Temporary(s.of) /\ Manual(Diffs[s.of])
Filtered(plan) == IF Blocked /\ accept THEN [i \in DOMAIN plan |-> {s \in plan[i] : ~IsManual(s)}] ELSE plan

\* buildMigrationSql: alter, drop, create.
Plan(diffs, altered, dropped, created) ==
  FlattenSeq([i \in DOMAIN altered |-> AlterTable(altered[i], diffs[altered[i]])])
  \o [i \in DOMAIN dropped |-> {[do |-> "dropTable", t |-> Reverse(dropped)[i]]}]
  \o CreatePlan(created)
---------------------------------------------------------------------------
(* The database. *)

\* A table as CREATE TABLE and CREATE INDEX leave it, with the data of the kept properties.
Built(t, table, kept) ==
  [cols |-> [sql \in {c.sql : c \in table.cols} |->
               [type |-> SqlType(BySql(table, sql)), required |-> Required(BySql(table, sql)),
                data |-> IF BySql(table, sql).ts \in kept THEN BySql(table, sql).ts ELSE Fresh]],
   fks |-> {[of |-> t, col |-> f.col, ref |-> f.ref, name |-> f.col] : f \in ForeignKeys(table)},
   index |-> table.index]

Without(f, x) == [y \in DOMAIN f \ {x} |-> f[y]]
Set(t, table) == (t :> table) @@ db
Cols(s) == DOMAIN db[s.t].cols
Constrains(table, col) == \E f \in table.fks : f.col = col
Indexes(table, col) == \E i \in table.index : i.col = col
Follow(set, from, to) == {IF x.col = from THEN [x EXCEPT !.col = to] ELSE x : x \in set}

\* Whether the database takes the statement.
Accepts(s) ==
  CASE s.do = "createTable" -> s.t \notin DOMAIN db
    [] s.do = "copy" -> Temporary(s.t) \in DOMAIN db /\ \A p \in s.pairs : p[2] \in Cols(s)
    [] s.do = "renameTable" -> s.t \notin DOMAIN db /\ Temporary(s.t) \in DOMAIN db
    [] s.do = "dropTable" ->
         /\ s.t \in DOMAIN db
         /\ dialect = "sqlite" \/ \A u \in DOMAIN db \ {s.t} : \A f \in db[u].fks : f.ref # s.t
    [] s.do = "dropFk" -> \E f \in db[s.t].fks : f.name = s.fk.col
    [] s.do = "addFk" ->
         /\ s.fk.ref \in DOMAIN db /\ s.fk.col \in Cols(s)
         /\ db[s.t].cols[s.fk.col].type = SqlType([kind |-> "ref"])
         /\ \A f \in db[s.t].fks : f.name # s.fk.col
    [] s.do = "dropIndex" -> dialect # "mysql" \/ \E i \in db[s.t].index : i.name = s.name
    [] s.do = "createIndex" -> s.index.col \in Cols(s) /\ \A i \in db[s.t].index : i.name # s.index.name
    [] s.do = "dropColumn" ->
         /\ s.sql \in Cols(s)
         /\ dialect = "postgres" \/ ~Constrains(db[s.t], s.sql)
         /\ dialect = "sqlite" => ~Indexes(db[s.t], s.sql)
    [] s.do = "renameColumn" -> s.from \in Cols(s) /\ s.to.sql \notin Cols(s)
    [] s.do = "addColumn" -> s.col.sql \notin Cols(s)
    [] OTHER -> s.col.sql \in Cols(s)

\* What it does.  CHANGE COLUMN of MySQL names the type but not NOT NULL, MODIFY COLUMN both.
Effect(s) ==
  LET t == db[s.t]
      col == t.cols[s.col.sql]
  IN CASE s.do = "createTable" ->
            Set(s.t, [Built(s.of, s.table, {}) EXCEPT !.index = {}, !.fks = IF dialect = "sqlite" THEN @ ELSE {}])
       [] s.do = "copy" ->
            Set(Temporary(s.t), [db[Temporary(s.t)] EXCEPT !.cols =
              [c \in DOMAIN @ |-> IF \E p \in s.pairs : p[1] = c
                                  THEN [@[c] EXCEPT !.data = t.cols[(CHOOSE p \in s.pairs : p[1] = c)[2]].data]
                                  ELSE @[c]]])
       [] s.do = "renameTable" -> Without(Set(s.t, db[Temporary(s.t)]), Temporary(s.t))
       [] s.do = "dropTable" -> Without(db, s.t)
       [] s.do = "dropFk" -> Set(s.t, [t EXCEPT !.fks = {f \in @ : f.name # s.fk.col}])
       [] s.do = "addFk" ->
            Set(s.t, [t EXCEPT !.fks = @ \cup {[of |-> s.t, col |-> s.fk.col, ref |-> s.fk.ref, name |-> s.fk.col]}])
       [] s.do = "dropIndex" -> Set(s.t, [t EXCEPT !.index = {i \in @ : i.name # s.name}])
       [] s.do = "createIndex" -> Set(s.t, [t EXCEPT !.index = @ \cup {s.index}])
       [] s.do = "dropColumn" ->
            Set(s.t, [cols |-> Without(t.cols, s.sql), fks |-> {f \in t.fks : f.col # s.sql},
                      index |-> {i \in t.index : i.col # s.sql}])
       [] s.do = "renameColumn" ->
            Set(s.t, [cols |-> (s.to.sql :> IF dialect = "mysql"
                                            THEN [t.cols[s.from] EXCEPT !.type = SqlType(s.to), !.required = FALSE]
                                            ELSE t.cols[s.from])
                               @@ Without(t.cols, s.from),
                      fks |-> Follow(t.fks, s.from, s.to.sql), index |-> Follow(t.index, s.from, s.to.sql)])
       [] s.do = "addColumn" ->
            Set(s.t, [t EXCEPT !.cols =
              (s.col.sql :> [type |-> SqlType(s.col), required |-> Required(s.col), data |-> Fresh]) @@ @])
       [] s.do = "alterType" ->
            Set(s.t, [t EXCEPT !.cols[s.col.sql] =
              [@ EXCEPT !.type = SqlType(s.col), !.required = IF dialect = "mysql" THEN Required(s.col) ELSE @]])
       [] s.do = "alterNull" -> Set(s.t, [t EXCEPT !.cols[s.col.sql].required = Required(s.col)])
---------------------------------------------------------------------------
Init ==
  /\ dialect \in Dialects /\ accept = FALSE
  /\ prev = <<>> /\ next = <<>> /\ db = <<>> /\ todo = <<>> /\ pc = "idle"

\* A database in the schema of the last snapshot, or of what db push found in it.
Snapshot(m) ==
  /\ pc = "idle" /\ pc' = "ready"
  /\ prev' = m /\ next' = m /\ db' = [t \in DOMAIN m |-> Built(t, m[t], {c.ts : c \in m[t].cols})]
  /\ UNCHANGED <<dialect, accept, todo>>

\* schema.ts is edited.
Edit(m, accepting) ==
  /\ pc = "ready" /\ pc' = "edited"
  /\ next' = m /\ accept' = accepting
  /\ UNCHANGED <<dialect, prev, db, todo>>

\* diffManifest and resolveMigrationSql.
Diff ==
  /\ pc = "edited" /\ pc' = "running"
  /\ LET diffs == Resolved
         drops == IF Blocked /\ ~accept THEN {} ELSE DOMAIN prev \ DOMAIN next
     IN \E altered \in SetToSeqs({t \in Kept : HasChanges(diffs[t])}), dropped \in ParentsFirst(prev, drops),
           created \in ParentsFirst(next, DOMAIN next \ DOMAIN prev) :
          todo' = SelectSeq(Filtered(Plan(diffs, altered, dropped, created)), LAMBDA phase : phase # {})
  /\ UNCHANGED <<dialect, prev, next, accept, db>>

\* applySql: one statement after the other, until one fails.
Run(s) ==
  /\ pc = "running" /\ todo # <<>> /\ s \in Head(todo)
  /\ IF Accepts(s)
     THEN /\ db' = Effect(s) /\ pc' = "running"
          /\ todo' = IF Head(todo) = {s} THEN Tail(todo) ELSE <<Head(todo) \ {s}>> \o Tail(todo)
     ELSE db' = db /\ pc' = "failed" /\ todo' = <<>>
  /\ UNCHANGED <<dialect, prev, next, accept>>

Finish ==
  /\ pc = "running" /\ todo = <<>> /\ pc' = "done"
  /\ UNCHANGED <<dialect, prev, next, accept, db, todo>>

Again ==
  /\ pc \in {"done", "failed"} /\ pc' = "idle" /\ accept' = FALSE
  /\ prev' = <<>> /\ next' = <<>> /\ db' = <<>> /\ todo' = <<>>
  /\ UNCHANGED dialect

Next ==
  \/ pc \in {"idle", "ready"} /\ \E m \in Manifests : Snapshot(m) \/ \E a \in BOOLEAN : Edit(m, a)
  \/ Diff \/ Finish \/ Again
  \/ todo # <<>> /\ \E s \in Head(todo) : Run(s)

Spec == Init /\ [][Next]_vars
---------------------------------------------------------------------------
(* Properties. *)

\* What the diff does not get right, each by itself.
NamesChangeHands ==
  \E t \in Kept : \E c \in prev[t].cols, d \in next[t].cols : c.sql = d.sql /\ c.ts # d.ts
IndexRenamed ==
  \E t \in Kept : \E i \in prev[t].index, j \in next[t].index : i.col = j.col /\ i.name # j.name
ReferencesCreated ==
  dialect # "sqlite" /\ \E t \in Kept : \E f \in AddedForeignKeys(prev[t], next[t]) : f.ref \notin DOMAIN prev
CycleDropped ==
  /\ dialect # "sqlite"
  /\ \E t, u \in DOMAIN prev \ DOMAIN next : u \in References(prev[t]) /\ t \in References(prev[u])
IndexedDropped ==
  dialect = "sqlite" /\ \E t \in Kept : \E i \in prev[t].index : i.col \in Dropped(prev[t], next[t])
RequiredRenamed ==
  dialect = "mysql" /\ \E t \in Kept : \E r \in Renamed(prev[t], next[t]) : Required(BySql(next[t], r.to))
Known ==
  \/ NamesChangeHands \/ IndexRenamed \/ ReferencesCreated \/ CycleDropped
  \/ IndexedDropped \/ RequiredRenamed

\* The statements of a diff run to the end and leave the database in the new
\* schema, with the data of each property in its column, when nothing was
\* blocked and the diff has none of the known gaps.
DiffReachesSchema ==
  (pc \in {"done", "failed"} /\ ~Blocked /\ ~Known) =>
    /\ pc = "done"
    /\ db = [t \in DOMAIN next |->
               Built(t, next[t], IF t \in Kept THEN {c.ts : c \in prev[t].cols} ELSE {})]

\* Without --accept-data-loss no data of the old schema is gone.
KeepsData ==
  (pc \in {"done", "failed"} /\ ~accept) =>
    \A t \in DOMAIN prev : \A c \in prev[t].cols :
      t \in DOMAIN db /\ \E sql \in DOMAIN db[t].cols : db[t].cols[sql].data = c.ts

\* The same where a table is altered in place.
KeepsDataInPlace == dialect # "sqlite" => KeepsData
=============================================================================
