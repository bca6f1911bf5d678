------------------------------ MODULE Relations ------------------------------
(***************************************************************************)
(* The names of relations.  A foreign key puts a relation on its own table  *)
(* and the inverse on the table it references; a many-to-many puts one on   *)
(* both sides and may make a junction table.  Names that the schema leaves  *)
(* out are inferred, and a table's relations and columns share one name     *)
(* space.  db pull chooses the names of a database's foreign keys, generate *)
(* compiles the schema and refuses clashes, and the queries look relations  *)
(* up by name and by the column that carries them.                           *)
(* A name is <<stem, ending, number>>: userId is <<"user", "Id", 1>>, posts  *)
(* <<"post", "s", 1>> and posts2 <<"post", "s", 2>>.                         *)
(***************************************************************************)
EXTENDS Naturals, Sequences, FiniteSets, SequencesExt

CONSTANTS
  Accessors,  \* table accessors in the order of the schema
  Databases,  \* catalogs that are pulled: accessor -> sequence of items
  Schemas,    \* schemas that are declared: the same, with names
  Dialects,
  None

VARIABLES
  dialect,    \* of the catalog
  pulled,     \* the schema is the emission of a catalog
  given,      \* the catalog or the declared schema
  schema,
  manifest,
  phase       \* "database", "schema", "compiled", "accepted" or "refused"

vars == <<dialect, pulled, given, schema, manifest, phase>>

\* An item of a table: a plain column, an fk() column, a foreignKey() over the
\* column name and another, or a many().  one: "column" for unique(), "index"
\* for a unique index.
Fks(items) == SelectSeq(items, LAMBDA i : i.kind \in {"fk", "composite"})
ColumnsOf(items) == {items[j].name : j \in {j \in DOMAIN items : items[j].kind \in {"plain", "fk"}}}

Singular(n) == IF n[2] = "s" /\ n[3] = 1 THEN [n EXCEPT ![2] = ""] ELSE n
inferFkAs(n) == IF n[2] = "Id" /\ n[3] = 1 THEN [n EXCEPT ![2] = ""] ELSE n
---------------------------------------------------------------------------
(* db pull. *)

withSuffix(base, used) ==
  IF base \notin used THEN base
  ELSE LET free == {k \in 2..(Cardinality(used) + 2) : [base EXCEPT ![3] = k] \notin used}
       IN [base EXCEPT ![3] = CHOOSE k \in free : \A j \in free : k <= j]

\* Names of columns and of the relations picked so far.
Reserved(picked, t) == ColumnsOf(given[t]) \cup picked[t]

RelationName(picked, t, i) ==
  LET inferred == inferFkAs(i.name)
      used == Reserved(picked, t)
  IN IF inferred \notin used THEN inferred
     ELSE withSuffix(IF inferred = i.name THEN Singular(i.to) ELSE inferred, used)

DefaultInverse(t, i) == IF i.kind = "fk" /\ i.one = "column" THEN Singular(t) ELSE t

\* Mutant: the names of the target table are not looked at.
InverseNameOfSource(picked, t, i) == DefaultInverse(t, i)
InverseName(picked, t, i) == withSuffix(DefaultInverse(t, i), Reserved(picked, i.to))

\* emitFkBuilder, and the foreignKey() of emitTableExtras: what can be inferred
\* is left out of an fk().  On SQLite its unique() is never written.
Emitted(i, name, inverse, t) ==
  [i EXCEPT
    !.as = IF i.kind = "fk" /\ name = inferFkAs(i.name) THEN None ELSE name,
    !.inverse = IF i.kind = "fk" /\ inverse = DefaultInverse(t, i) THEN None ELSE inverse,
    !.one = IF i.kind = "fk" /\ i.one = "column" /\ dialect = "sqlite" THEN None ELSE @]

PullItem(acc, t, i) ==
  IF i.kind = "plain" THEN [acc EXCEPT !.schema[t] = Append(@, i)]
  ELSE LET name == RelationName(acc.picked, t, i)
           forward == [acc.picked EXCEPT ![t] = @ \cup {name}]
           inverse == InverseName(forward, t, i)
       IN [picked |-> [forward EXCEPT ![i.to] = @ \cup {inverse}],
           schema |-> [acc.schema EXCEPT ![t] = Append(@, Emitted(i, name, inverse, t))]]

Present(tables) == SelectSeq(Accessors, LAMBDA t : t \in DOMAIN tables)

Pull ==
  /\ phase = "database"
  /\ schema' = FoldLeft(
       LAMBDA acc, t : FoldLeft(LAMBDA a, i : PullItem(a, t, i), acc, given[t]),
       [picked |-> [t \in DOMAIN given |-> {}], schema |-> [t \in DOMAIN given |-> <<>>]],
       Present(given)).schema
  /\ phase' = "schema"
  /\ UNCHANGED <<dialect, pulled, given, manifest>>
---------------------------------------------------------------------------
(* schemaToManifest. *)

\* The many() of the schema in its order, with the table each is on.
Manys ==
  FoldLeft(LAMBDA acc, t : acc \o FoldLeft(
      LAMBDA some, i : IF i.kind = "many" THEN Append(some, [left |-> t, item |-> i]) ELSE some, <<>>, schema[t]),
    <<>>, Present(schema))

Position(t) == CHOOSE k \in DOMAIN Accessors : Accessors[k] = t
autoJunctionName(l, r) ==
  IF Position(l) <= Position(r) THEN <<l[1] \o "s_" \o r[1], "s", 1>> ELSE <<r[1] \o "s_" \o l[1], "s", 1>>
ThroughOf(m) == IF m.item.through # None THEN m.item.through ELSE autoJunctionName(m.left, m.item.to)
KeyTo(t) == [Singular(t) EXCEPT ![2] = "Id"]

FkTo(name, to) ==
  [kind |-> "fk", name |-> name, to |-> to, one |-> None, as |-> None, inverse |-> None, through |-> None]
Autos == {k \in DOMAIN Manys : Manys[k].item.through = None}
AutoJunction(m) == <<FkTo(KeyTo(m.left), m.left), FkTo(KeyTo(m.item.to), m.item.to)>>
AllTables ==
  [t \in DOMAIN schema \cup {ThroughOf(Manys[k]) : k \in Autos} |->
    IF t \in DOMAIN schema THEN schema[t]
    ELSE AutoJunction(Manys[CHOOSE k \in Autos : ThroughOf(Manys[k]) = t])]

\* What schemaToManifest throws at: targets, junctions and keys that are not
\* there, and junction tables it would make twice.
Unresolved ==
  \/ \E t \in DOMAIN schema : \E j \in DOMAIN schema[t] :
       LET i == schema[t][j]
       IN \/ i.kind \in {"fk", "composite", "many"} /\ i.to \notin DOMAIN schema
          \/ i.kind = "composite" /\ (i.as = None \/ i.inverse = None)
  \/ \E k \in DOMAIN Manys :
       LET m == Manys[k]
       IN \/ m.item.through # None /\ m.item.through \notin DOMAIN schema
          \/ k \in Autos /\ (ThroughOf(m) \in DOMAIN schema \/ \E j \in Autos : j < k /\ ThroughOf(Manys[j]) = ThroughOf(m))
          \/ m.item.through \in DOMAIN schema /\ ~({KeyTo(m.left), KeyTo(m.item.to)} \subseteq ColumnsOf(schema[m.item.through]))

\* buildRelations and extraFkRelations.
Forward(t) ==
  LET fks == Fks(AllTables[t])
  IN [j \in DOMAIN fks |->
       [name |-> IF fks[j].as # None THEN fks[j].as ELSE inferFkAs(fks[j].name),
        to |-> fks[j].to, fk |-> fks[j].name, many |-> FALSE, one |-> fks[j].one # None,
        inverse |-> IF fks[j].inverse # None THEN fks[j].inverse ELSE DefaultInverse(t, fks[j])]]

FirstNamed(rels, name) ==
  LET at == {j \in DOMAIN rels : rels[j].name = name}
  IN IF at = {} THEN 0 ELSE CHOOSE j \in at : \A k \in at : j <= k

\* Mutant: a taken inverse name is passed over whatever foreign key has it.
PassedOver(existing, rel) == TRUE
SameKey(existing, rel) == existing.fk = rel.fk

AddInverse(acc, t, rel) ==
  LET at == FirstNamed(acc.rels[rel.to], rel.inverse)
  IN IF at # 0
     THEN [acc EXCEPT !.clash = @ \/ ~SameKey(acc.rels[rel.to][at], rel)]
     ELSE [acc EXCEPT !.rels[rel.to] = Append(@,
            [name |-> rel.inverse, to |-> t, fk |-> rel.fk, many |-> ~rel.one, one |-> FALSE, inverse |-> rel.name])]

\* The relations of a table that its columns carry: inverses that an earlier
\* table put there may be among them.
AddInverses(acc, t) ==
  FoldLeft(LAMBDA a, rel : AddInverse(a, t, rel), acc, SelectSeq(acc.rels[t], LAMBDA r : r.fk \in ColumnsOf(AllTables[t])))
WithInverses == FoldLeft(AddInverses, [rels |-> [t \in DOMAIN AllTables |-> Forward(t)], clash |-> FALSE], Present(schema))

ManyToMany ==
  [k \in DOMAIN Manys |->
    LET m == Manys[k]
    IN [left |-> m.left, right |-> m.item.to, through |-> ThroughOf(m),
        as |-> IF m.item.as # None THEN m.item.as ELSE m.item.name,
        inverse |-> IF m.item.inverse # None THEN m.item.inverse ELSE m.left]]
ManyRelation(name, to, fk, inverse) ==
  [name |-> name, to |-> to, fk |-> fk, many |-> TRUE, one |-> FALSE, inverse |-> inverse]
WithManyToMany(rels) ==
  FoldLeft(LAMBDA acc, m :
      LET left == [acc EXCEPT ![m.left] = Append(@, ManyRelation(m.as, m.right, KeyTo(m.left), m.inverse))]
      IN [left EXCEPT ![m.right] = Append(@, ManyRelation(m.inverse, m.left, KeyTo(m.right), m.as))],
    rels, ManyToMany)

Compile ==
  /\ phase = "schema"
  /\ IF Unresolved THEN phase' = "refused" /\ UNCHANGED manifest
     ELSE LET built == WithInverses
          IN IF built.clash THEN phase' = "refused" /\ UNCHANGED manifest
             ELSE /\ manifest' = [tables |-> AllTables, relations |-> WithManyToMany(built.rels), manyToMany |-> ManyToMany]
                  /\ phase' = "compiled"
  /\ UNCHANGED <<dialect, pulled, given, schema>>

\* validateManifest: one name for each column and relation of a table, and one
\* model for each table.
Duplicate ==
  \/ \E t \in DOMAIN manifest.tables :
       LET items == manifest.tables[t]
           rels == manifest.relations[t]
       IN \/ \E j, k \in DOMAIN items :
               j # k /\ {items[j].kind, items[k].kind} \subseteq {"plain", "fk"} /\ items[j].name = items[k].name
          \/ \E j \in DOMAIN rels : rels[j].name \in ColumnsOf(items) \/ \E k \in DOMAIN rels : j # k /\ rels[j].name = rels[k].name
  \/ \E t, u \in DOMAIN manifest.tables : t # u /\ Singular(t) = Singular(u)

Validate ==
  /\ phase = "compiled"
  /\ phase' = IF Duplicate THEN "refused" ELSE "accepted"
  /\ UNCHANGED <<dialect, pulled, given, schema, manifest>>

Init ==
  /\ \/ pulled = TRUE /\ dialect \in Dialects /\ given \in Databases /\ phase = "database"
     \/ pulled = FALSE /\ dialect = None /\ given \in Schemas /\ phase = "schema"
  /\ schema = given
  /\ manifest = None

Finished == phase \in {"accepted", "refused"} /\ UNCHANGED vars

Next == Pull \/ Compile \/ Validate \/ Finished

Spec == Init /\ [][Next]_vars
---------------------------------------------------------------------------
(* How a query follows a name. *)

findM2M(t, name) ==
  LET at == {k \in DOMAIN manifest.manyToMany :
               LET m == manifest.manyToMany[k] IN (m.left = t /\ m.as = name) \/ (m.right = t /\ m.inverse = name)}
  IN IF at = {} THEN None ELSE manifest.manyToMany[CHOOSE k \in at : \A j \in at : k <= j]
relationByName(t, name) == manifest.relations[t][FirstNamed(manifest.relations[t], name)]
tableOwnsFk(t, rel) == rel.fk \in ColumnsOf(manifest.tables[t])

\* The rows a name leads to: through a junction, by the table's own column, or
\* those of the other table that reference it.
Follow(t, name) ==
  IF findM2M(t, name) # None THEN [by |-> "junction", to |-> relationByName(t, name).to, fk |-> findM2M(t, name).through]
  ELSE LET rel == relationByName(t, name)
       IN [by |-> IF ~rel.many /\ tableOwnsFk(t, rel) THEN "own" ELSE "other", to |-> rel.to, fk |-> rel.fk]

\* effectiveRelations: what a client may name, without the hops to junctions.
Throughs == {manifest.manyToMany[k].through : k \in DOMAIN manifest.manyToMany}
effectiveRelations(t) ==
  {manifest.relations[t][j].name : j \in {j \in DOMAIN manifest.relations[t] : manifest.relations[t][j].to \notin Throughs}}
  \cup {manifest.manyToMany[k].as : k \in {k \in DOMAIN manifest.manyToMany : manifest.manyToMany[k].left = t}}
  \cup {manifest.manyToMany[k].inverse : k \in {k \in DOMAIN manifest.manyToMany : manifest.manyToMany[k].right = t}}
---------------------------------------------------------------------------
(* Properties. *)

\* A schema that db pull wrote is one that generate accepts, however the names
\* of the database's columns and tables meet.  On SQLite a unique foreign key
\* is pulled without unique(), and its names are those of another schema.
PulledIsAccepted ==
  pulled /\ phase = "refused" =>
    \E t \in DOMAIN given : \E j \in DOMAIN given[t] : dialect = "sqlite" /\ given[t][j].kind = "fk" /\ given[t][j].one # None

ForwardName(t, i) == IF i.as # None THEN i.as ELSE inferFkAs(i.name)
BackName(t, i) == IF i.inverse # None THEN i.inverse ELSE DefaultInverse(t, i)

\* The inverse name is already that of a relation with the same column name, of
\* the target table itself or of another one: it is taken for the same key and
\* the inverse is left out.
Hidden(t, i) ==
  \E u \in DOMAIN schema : \E j \in DOMAIN Fks(schema[u]) :
    LET o == Fks(schema[u])[j]
    IN /\ o.name = i.name
       /\ \/ u = i.to /\ ForwardName(u, o) = BackName(t, i)
          \/ u # t /\ o.to = i.to /\ BackName(u, o) = BackName(t, i)

\* In a schema that was accepted every foreign key and every many() can be
\* followed under its names from both tables to the other one and by the
\* column it was declared on, and a unique one leads to one row.  Which side
\* of a one-to-one has the column is told by its name, so the way back is
\* right if the target table has no column of that name.
NamesLead ==
  phase = "accepted" =>
    \A t \in DOMAIN schema : \A j \in DOMAIN schema[t] :
      LET i == schema[t][j]
      IN /\ i.kind \in {"fk", "composite"} =>
              /\ Follow(t, ForwardName(t, i)) = [by |-> "own", to |-> i.to, fk |-> i.name]
              /\ t \notin Throughs /\ i.to \notin Throughs => ForwardName(t, i) \in effectiveRelations(t)
              /\ ~Hidden(t, i) =>
                   /\ \/ i.one # None /\ i.name \in ColumnsOf(schema[i.to])
                      \/ Follow(i.to, BackName(t, i)) = [by |-> "other", to |-> t, fk |-> i.name]
                   /\ relationByName(i.to, BackName(t, i)).many = (i.one = None)
                   /\ relationByName(i.to, BackName(t, i)).inverse = ForwardName(t, i)
         /\ i.kind = "many" =>
              LET m == CHOOSE k \in DOMAIN Manys : Manys[k] = [left |-> t, item |-> i]
                  x == ManyToMany[m]
              IN /\ Follow(t, x.as) = [by |-> "junction", to |-> i.to, fk |-> ThroughOf(Manys[m])]
                 /\ Follow(i.to, x.inverse) = [by |-> "junction", to |-> t, fk |-> ThroughOf(Manys[m])]
                 /\ x.as \in effectiveRelations(t) /\ x.inverse \in effectiveRelations(i.to)
=============================================================================
