--------------------------- MODULE RelationWrites ---------------------------
(***************************************************************************)
(* Nested relation writes of create and update.  One parent row is written  *)
(* with a bag of operations for one relation, which the code turns into a   *)
(* sequence of statements, in one transaction of its own if it needs one,   *)
(* or in the user's.  Any statement may fail.                               *)
(***************************************************************************)
EXTENDS Naturals, Sequences, FiniteSets, SequencesExt

CONSTANTS
  Parents, Subject,   \* the parents, and the one that is written
  Children,           \* the rows of the other table
  Kinds,              \* of "owner" (outgoing foreign key), "one", "many" (inverse), "m2m"
  Engines,            \* of "postgres", "sqlite", "mysql"
  MaxOperations,      \* bound: operations in one bag
  All, Absent, Nobody, Gone

VARIABLES
  kind, engine,
  nullable, cascade,  \* the foreign key may be NULL; a deleted row takes its links along
  inTransaction,      \* the caller has a transaction open
  bag,                \* operation -> the rows it names, All for true, or Absent
  db, base,           \* the tables, now and before the write
  todo, phase

vars == <<kind, engine, nullable, cascade, inTransaction, bag, db, base, todo, phase>>

Lists == {Absent} \cup ((SUBSET Children) \ {{}})
OrAll == Lists \cup {All}
Single == {Absent} \cup {{c} : c \in Children}
\* What docs/relations.md lists for each kind; a list names at least one row.
Bags ==
  LET Has(del, dis, set, con, coc, cre) ==
        [delete : del, disconnect : dis, set : set, connect : con, connectOrCreate : coc, create : cre]
  IN CASE kind = "owner" -> Has({Absent}, {Absent, All}, {Absent}, Single, Single, Single)
       [] kind = "one" -> Has(OrAll, {Absent, All}, Single, Single, {Absent}, Single)
       [] kind = "many" -> Has(OrAll, OrAll, Lists, Lists, {Absent}, Lists)
       [] kind = "m2m" -> Has(OrAll, OrAll, Lists, Lists, Lists, {Absent})

\* child: who its foreign key names (inverse kinds); ref: who the parent's names.
Databases ==
  [parent : {f \in [Parents -> {"old", "none"}] : \A p \in Parents \ {Subject} : f[p] = "old"},
   child : [Children -> Parents \cup {Nobody, Gone}], link : SUBSET (Parents \X Children),
   ref : [Parents -> Children \cup {Nobody}]]

Possible(d) ==
  /\ kind \notin {"one", "many"} => \A c \in Children : d.child[c] \in {Nobody, Gone}
  /\ ~nullable => \A c \in Children : kind \in {"one", "many"} => d.child[c] # Nobody
  /\ kind = "one" => \A c, e \in Children : d.child[c] = d.child[e] /\ d.child[c] \in Parents => c = e
  /\ kind # "m2m" => d.link = {}
  /\ kind # "owner" => \A p \in Parents : d.ref[p] = Nobody
  /\ \A l \in d.link : d.child[l[2]] # Gone
  /\ \A p \in Parents : d.ref[p] # Nobody => d.child[d.ref[p]] # Gone
  /\ ~nullable /\ kind = "owner" => \A p \in Parents : d.ref[p] = Nobody <=> d.parent[p] = "none"
  /\ d.parent[Subject] = "none" =>
       /\ d.ref[Subject] = Nobody /\ \A c \in Children : d.child[c] # Subject /\ <<Subject, c>> \notin d.link

Present(o) == bag[o] # Absent

---------------------------------------------------------------------------
(* Statements: [do, rows], over the rows of the relation of Subject. *)

Stmt(do, rows) == <<[do |-> do, rows |-> rows]>>
When(o, stmts) == IF Present(o) THEN stmts ELSE <<>>

\* Compile errors in the middle: thrown when they are reached.
Refuse == Stmt("error", {})

\* disconnectInverseMany wants a foreign key that may be NULL.
DisconnectInverse(rows) == IF nullable THEN Stmt("unset", rows) ELSE Refuse
\* setInverseMany: unlink all, then link.
SetInverse(rows) == DisconnectInverse(All) \o Stmt("point", rows)
Creates == LET rows == SetToSeq(bag.create) IN [i \in DOMAIN rows |-> Stmt("child", {rows[i]})[1]]
FindOrCreates == LET rows == SetToSeq(bag.connectOrCreate) IN [i \in DOMAIN rows |-> Stmt("findOrCreate", {rows[i]})[1]]

\* executeToOneWrite: one of them, in this order, before the parent is written;
\* assignOutgoingFkScalars puts the key into the parent's own statement.
ToOneWrite ==
  IF Present("connectOrCreate") /\ (Present("connect") \/ Present("create")) THEN Refuse
  ELSE IF Present("connectOrCreate") THEN FindOrCreates \o Stmt("parent", bag.connectOrCreate)
  ELSE IF Present("connect") THEN Stmt("parent", bag.connect)
  ELSE IF Present("disconnect") THEN IF nullable THEN Stmt("parent", {}) ELSE Refuse
  ELSE Creates \o Stmt("parent", bag.create)

\* executeInverseOneWrite and executeInverseManyWrite: set ends them.
InverseWrite ==
  When("delete", Stmt("remove", bag.delete)) \o When("disconnect", DisconnectInverse(bag.disconnect))
    \o IF Present("set") THEN SetInverse(bag.set)
       ELSE When("connect", Stmt("point", bag.connect)) \o When("create", Creates)

\* deleteM2MRelated: the links of the rows it was given or has listed, then the rows.
DeleteRelated(rows) == Stmt("unlink", rows) \o Stmt("drop", rows)

\* Mutant: set only adds.
M2MWriteKeeps ==
  When("delete", IF bag.delete = All THEN Stmt("list", {}) ELSE DeleteRelated(bag.delete))
    \o When("disconnect", Stmt("unlink", bag.disconnect))
    \o IF Present("set") THEN Stmt("insert", bag.set)
       ELSE When("connect", Stmt("insert", bag.connect))
              \o When("connectOrCreate", FindOrCreates \o Stmt("insert", bag.connectOrCreate))

\* executeM2MWrite.
M2MWrite ==
  When("delete", IF bag.delete = All THEN Stmt("list", {}) ELSE DeleteRelated(bag.delete))
    \o When("disconnect", Stmt("unlink", bag.disconnect))
    \o IF Present("set") THEN Stmt("unlink", All) \o Stmt("insert", bag.set)
       ELSE When("connect", Stmt("insert", bag.connect))
              \o When("connectOrCreate", FindOrCreates \o Stmt("insert", bag.connectOrCreate))

\* runCreate and runUpdate: writes of an outgoing key, the parent, the others.
Plan ==
  IF kind = "owner" THEN ToOneWrite ELSE Stmt("parent", {}) \o IF kind = "m2m" THEN M2MWrite ELSE InverseWrite

\* Mutant: only what is written after the parent needs a transaction.
AfterParentNeedsTransaction == kind # "owner"

\* relationWritesNeedTransaction.
NeedsTransaction == kind # "owner" \/ Present("create")
OwnTransaction == NeedsTransaction /\ ~inTransaction

\* Which children of Subject a statement concerns.
Named(rows) == IF rows = All THEN Children ELSE rows
Related(d) ==
  CASE kind = "owner" -> {d.ref[Subject]} \ {Nobody}
    [] kind = "m2m" -> {c \in Children : <<Subject, c>> \in d.link}
    [] OTHER -> {c \in Children : d.child[c] = Subject}

SetChildren(rows, value) == [db EXCEPT !.child = [c \in Children |-> IF c \in rows THEN value ELSE @[c]]]
Exist == {c \in Children : db.child[c] # Gone}
Links(rows) == {Subject} \X rows

\* The tables after a statement.
Effect(s) ==
  LET mine == Named(s.rows) \cap Related(db)
  IN CASE s.do = "parent" -> [db EXCEPT !.parent[Subject] = "new",
                                        !.ref[Subject] = IF s.rows = {} THEN Nobody ELSE CHOOSE c \in s.rows : TRUE]
       [] s.do = "remove" -> SetChildren(mine, Gone)
       [] s.do = "unset" -> SetChildren(mine, Nobody)
       [] s.do = "point" -> SetChildren(s.rows \cap Exist, Subject)
       [] s.do = "child" -> SetChildren(s.rows, IF kind \in {"one", "many"} THEN Subject ELSE Nobody)
       [] s.do = "findOrCreate" -> SetChildren(s.rows \ Exist, Nobody)
       [] s.do = "unlink" -> [db EXCEPT !.link = @ \ Links(Named(s.rows))]
       [] s.do = "insert" -> [db EXCEPT !.link = @ \cup Links(s.rows \cap Exist)]
       [] s.do = "drop" -> [SetChildren(s.rows, Gone) EXCEPT !.link = {l \in @ : l[2] \notin s.rows}]
       [] s.do = "list" -> db

\* Constraints: unique and foreign keys; INSERT IGNORE passes over the latter.
Allowed(s) ==
  CASE s.do = "error" -> FALSE
    [] s.do = "parent" -> s.rows \subseteq Exist
    [] s.do \in {"point", "child"} -> kind = "one" => Cardinality((IF s.do = "child" THEN s.rows ELSE s.rows \cap Exist) \cup Related(db)) <= 1
    [] s.do = "insert" -> s.rows \subseteq Exist \/ engine = "mysql"
    [] s.do = "drop" -> cascade \/ \A l \in db.link : l[2] \notin s.rows
    [] OTHER -> TRUE
---------------------------------------------------------------------------
\* The subject is a parent, and what stands for no row or all rows is none.
WellFormed ==
  /\ Kinds \subseteq {"owner", "one", "many", "m2m"} /\ IsFiniteSet(Children)
  /\ Subject \in Parents /\ {Nobody, Gone} \cap Parents = {} /\ Nobody # Gone /\ Nobody \notin Children
  /\ All # Absent /\ \A rows \in SUBSET Children : rows \notin {All, Absent}

Init ==
  /\ kind \in Kinds /\ engine \in Engines
  /\ nullable \in BOOLEAN /\ cascade \in BOOLEAN /\ inTransaction \in BOOLEAN
  /\ kind = "m2m" => nullable
  /\ kind # "m2m" => cascade
  /\ db \in Databases /\ Possible(db) /\ base = db
  /\ bag \in Bags /\ Cardinality({o \in DOMAIN bag : bag[o] # Absent}) \in 1..MaxOperations
  \* Of several operations on an outgoing key the code takes one.
  /\ kind = "owner" => \A o, other \in DOMAIN bag : Present(o) /\ Present(other) => o = other \/ Present("connectOrCreate")
  /\ engine = "postgres" \/ inTransaction \/ kind = "m2m"
  /\ bag.create # Absent => \A c \in bag.create : db.child[c] = Gone
  /\ todo = Plan /\ phase = "run"

Done == todo' = Tail(todo) /\ phase' = IF Len(todo) = 1 THEN "done" ELSE "run"

\* One statement; the list of links decides what the next ones delete.
Execute ==
  /\ phase = "run" /\ Allowed(Head(todo))
  /\ db' = Effect(Head(todo))
  /\ IF Head(todo).do = "list" /\ Related(db) # {}
     THEN todo' = DeleteRelated(Related(db)) \o Tail(todo) /\ phase' = "run"
     ELSE Done
  /\ UNCHANGED <<kind, engine, nullable, cascade, inTransaction, bag, base>>

\* A refused statement, or one the database fails for another reason.  The
\* transaction is rolled back if it is the write's own; PostgreSQL aborts the
\* user's, and elsewhere what was done before stays in it.
Fail ==
  /\ phase = "run"
  /\ db' = IF OwnTransaction \/ (inTransaction /\ engine = "postgres") THEN base ELSE db
  /\ phase' = "failed" /\ todo' = <<>>
  /\ UNCHANGED <<kind, engine, nullable, cascade, inTransaction, bag, base>>

Ended == phase \in {"done", "failed"} /\ UNCHANGED vars

Next == Execute \/ Fail \/ Ended
Spec == Init /\ [][Next]_vars
---------------------------------------------------------------------------
(* Properties. *)

\* The rows an operation names, of the related ones when it names all.
Asked(o, related) == IF bag[o] = Absent THEN {} ELSE IF bag[o] = All THEN related ELSE bag[o]

\* After the write the parent is related to what the bag asks for, in the order
\* delete, disconnect, set, connect / connectOrCreate, create, where set is the
\* whole relation; what was deleted is gone, and nothing else is touched.
RelatedAsAsked ==
  phase = "done" =>
    LET before == Related(base)
        there == {c \in Children : base.child[c] # Gone}
        removed == Asked("delete", before) \cap (IF kind = "m2m" THEN there ELSE before)
        made == IF Present("set") THEN {} ELSE Asked("connectOrCreate", {}) \cup Asked("create", {})
        added == IF Present("set") THEN bag.set ELSE Asked("connect", {}) \cup made
        left == IF Present("set") \/ kind = "owner" THEN {} ELSE (before \ removed) \ Asked("disconnect", before)
    IN /\ Related(db) = (left \cup added) \cap ((there \ removed) \cup made)
       /\ \A c \in removed \ made : db.child[c] = Gone
       /\ \A c \in Children \ (removed \cup before \cup added) :
            db.child[c] = base.child[c] /\ \A p \in Parents : <<p, c>> \in db.link <=> <<p, c>> \in base.link

\* A write that fails leaves nothing, unless the user's transaction keeps it or
\* the only trace is the row connectOrCreate made for an outgoing key.
FailedLeavesNothing ==
  phase = "failed" =>
    \/ db = base
    \/ inTransaction /\ engine # "postgres"
    \/ kind = "owner" /\ Present("connectOrCreate") /\ [db EXCEPT !.child = base.child, !.ref = base.ref] = base
=============================================================================
