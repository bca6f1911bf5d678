------------------------------ MODULE MCSchema ------------------------------
(***************************************************************************)
(* The commands of the CLI, the diff they rely on, the column and the       *)
(* partial index that introspection reads back, the names of relations, and *)
(* the where clauses of the runtime, each model-checked on its own: part    *)
(* says which one a behaviour is of.  The variables are those of Workflow;  *)
(* the other parts use the first of them.                                   *)
(***************************************************************************)
EXTENDS Workflow, TLC

CONSTANTS
  Dialects, Properties, SqlNames, IndexNames, Fresh, None,   \* SchemaDiff
  Providers, Whole, MaxPulls,                               \* IndexWhere
  Absent, MaxSteps,                                         \* Introspect
  Null, Capacity                                            \* Where

VARIABLE part

\* No part has both commands and properties.
Symmetry == Permutations(Commands) \cup {f @@ g : f \in Permutations(Properties), g \in Permutations(SqlNames)}

D == INSTANCE SchemaDiff WITH
  Names <- SqlNames,
  dialect <- schema, prev <- code, next <- snapshot, accept <- folder, todo <- ledger, pc <- devLock

\* The predicates of partial indexes that are tried: objects of one or two
\* columns, two of them or an object and a group in a group, and groups of those.
Lone(col, ops) == [is |-> "column", col |-> col, ops |-> ops, parts |-> <<>>]
Grouped(is, parts) == [is |-> is, col |-> "", ops |-> <<>>, parts |-> parts]
Plain == {<<Lone("a", ops)>> : ops \in {
  "equals" :> "1", "gt" :> "7", "contains" :> "word", "contains" :> "percent", "in" :> "bits", "equals" :> "null",
  "equals" :> "word" @@ "mode" :> "insensitive", "gt" :> "7" @@ "isNotNull" :> "true",
  "equals" :> "word" @@ "contains" :> "word" @@ "mode" :> "insensitive"}}
Pairs == {x \o <<Lone("b", "equals" :> "true")>> : x \in Plain}
Few == {<<Lone("a", "gt" :> "7")>>, <<Lone("a", "contains" :> "word")>>, <<Lone("a", "gt" :> "7"), Lone("b", "equals" :> "true")>>}
Combined(one, other) == {<<Grouped(is, <<x, y>>)>> : is \in {"AND", "OR"}, x \in one, y \in other}
Negated(objects) == {<<Grouped("NOT", <<x>>)>> : x \in objects}
Deep == Combined(Few, Few) \cup Negated(Few) \cup {x \o y : x \in Few, y \in Combined(Few, Few)}
IndexWheres ==
  LET objects == Plain \cup Pairs
  IN objects \cup Combined(objects, objects) \cup Deep \cup Negated(Deep) \cup Combined(Few, Deep) \cup Combined(Deep, Few)

I == INSTANCE IndexWhere WITH
  Wheres <- IndexWheres,
  provider <- schema, declared <- code, where <- snapshot, index <- folder, pulls <- ledger
C == INSTANCE Introspect WITH
  dialect <- schema, schema <- code, catalog <- snapshot, said <- folder, gap <- ledger, steps <- devLock

\* The tables whose relations are named: users, posts and their junction links.
users == <<"user", "s", 1>>
posts == <<"post", "s", 1>>
links == <<"link", "s", 1>>
user == <<"user", "", 1>>
userId == <<"user", "Id", 1>>
postId == <<"post", "Id", 1>>
Item(kind, name, to, one, as, inverse, through) ==
  [kind |-> kind, name |-> name, to |-> to, one |-> one, as |-> as, inverse |-> inverse, through |-> through]
Scalar(n) == Item("plain", n, None, None, None, None, None)
Key(n, to, one, as, inverse) == Item("fk", n, to, one, as, inverse, None)

\* Catalogs: users with one column and posts with two, each plain or a foreign
\* key, and a foreign key over two columns.
KeyOrScalar(n) == {Scalar(n)} \cup {Key(n, to, one, None, None) : to \in {users, posts}, one \in {None, "column"}}
WithComposite(tables) ==
  tables \cup {t \o <<Item("composite", t[1].name, to, None, None, None, None)>> :
                 t \in {t \in tables : t[1].kind = "plain"}, to \in {users, posts}}
OneColumn(names) == {<<c>> : c \in UNION {KeyOrScalar(n) : n \in names}}
TwoColumns == {<<x, y>> : x \in KeyOrScalar(user), y \in KeyOrScalar(userId)} \cup {<<y, x>> : x \in KeyOrScalar(user), y \in KeyOrScalar(userId)}
Catalogs ==
  {users :> u @@ posts :> p : u \in {<<>>} \cup WithComposite(OneColumn({userId, posts})),
                              p \in WithComposite(OneColumn({user, userId}) \cup TwoColumns)}

\* Declared schemas, with names given or left out: users with a key, posts with
\* two keys or a key and a many(), and a junction that may lack a key.
UserTables ==
  {<<>>, <<Scalar(posts)>>}
  \cup {<<Key(userId, to, one, None, inv)>> : to \in {users, posts}, one \in {None, "index"}, inv \in {None, user}}
PostKeys(names) == {Key(n, users, one, as, inv) : n \in {user, userId}, one \in {None, "index"}, as \in names, inv \in {None, user}}
PostManys(through) ==
  {Item("many", n, users, None, as, inv, through) : n \in {user, users}, as \in {None, users}, inv \in {None, user}}
PostTables(through) == {<<x>> : x \in PostManys(through)} \cup {<<k, x>> : k \in PostKeys({None}), x \in PostManys(through)}
LinkTables == {<<Key(userId, users, None, None, None)>>, <<Key(userId, users, None, None, None), Key(postId, posts, None, None, None)>>}
KeyTables == {<<k>> : k \in PostKeys({None, user})} \cup {<<k, l>> : k \in PostKeys({None}), l \in PostKeys({None, user})}
DeclaredSchemas ==
  {users :> u @@ posts :> p : u \in UserTables, p \in KeyTables \cup PostTables(None)}
  \cup {users :> u @@ posts :> p @@ links :> l : u \in UserTables, p \in PostTables(links), l \in LinkTables}

R == INSTANCE Relations WITH
  Accessors <- <<links, posts, users>>, Databases <- Catalogs, Schemas <- DeclaredSchemas,
  dialect <- schema, pulled <- code, given <- snapshot, schema <- folder, manifest <- ledger, phase <- devLock

Q == INSTANCE Where WITH shells <- schema, asked <- code, got <- snapshot, filledBy <- folder

\* In the other parts no command is at rest or runs, so that what Workflow
\* states does not speak of them.
Unused ==
  /\ pc = [p \in Commands |-> "none"] /\ job = [p \in Commands |-> Idle]
  /\ runs = 0 /\ edits = 0 /\ crashes = 0
  /\ torn = 0 /\ raced = 0 /\ jumbled = 0 /\ drifted = 0

ASSUME CommandConstants == WellFormed

PartInit ==
  \/ part = "workflow" /\ Init
  \/ part = "diff" /\ D!Init /\ Unused
  \/ part = "index" /\ I!Init /\ Unused /\ db = 0 /\ devLock = 0
  \/ part = "column" /\ C!Init /\ Unused /\ db = 0
  \/ part = "relations" /\ R!Init /\ Unused /\ db = 0
  \/ part = "where" /\ Q!Init /\ Unused /\ db = 0 /\ ledger = 0 /\ devLock = 0

WorkflowNext == part = "workflow" /\ Next
SchemaDiffNext == part = "diff" /\ D!Next /\ UNCHANGED <<pc, job, counts, history>>
IndexWhereNext == part = "index" /\ I!Next /\ UNCHANGED <<db, devLock, pc, job, counts, history>>
IntrospectNext == part = "column" /\ C!Next /\ UNCHANGED <<db, pc, job, counts, history>>
RelationsNext == part = "relations" /\ R!Next /\ UNCHANGED <<db, pc, job, counts, history>>
WhereNext == part = "where" /\ Q!Next /\ UNCHANGED <<database, devLock, pc, job, counts, history>>

PartNext ==
  /\ UNCHANGED part
  /\ WorkflowNext \/ SchemaDiffNext \/ IndexWhereNext \/ IntrospectNext \/ RelationsNext \/ WhereNext
PartSpec == PartInit /\ [][PartNext]_<<part, vars>>

\* A behaviour of Workflow that is no longer Orderly is left: every property is
\* about orderly ones.
InOrder == part = "workflow" => Orderly
---------------------------------------------------------------------------
(* The properties of the parts; each is stated in its module, those of the  *)
(* commands in Workflow: FilesSnapshotDatabase, Revertible, DevReachesSchema.*)

\* The statements of a schema diff leave the database in the new schema, and a
\* push that leaves destructive changes out keeps the data (SchemaDiff).
DiffReachesAndKeeps == part = "diff" => D!DiffReachesSchema /\ D!KeepsDataInPlace
\* A partial index that was pulled and pushed again covers the same rows (IndexWhere).
IndexCoversItsRows == part = "index" => I!IndexCoversItsRows
\* After a push or a pull the column of the database is the column of the schema (Introspect).
SchemaIsDatabase == part = "column" => C!SchemaIsDatabase
\* generate accepts what db pull wrote (Relations).
PulledIsAccepted == part = "relations" => R!PulledIsAccepted
\* The relation names of an accepted schema lead from both tables to the other (Relations).
NamesLead == part = "relations" => R!NamesLead
\* A where that can match nothing selects nothing, and one answered by a shell
\* of its own kind selects its own rows (Where).
WhereSelectsItsRows == part = "where" => Q!ImpossibleIsEmpty /\ Q!KeyedIsTransparent
=============================================================================
