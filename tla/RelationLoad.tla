---------------------------- MODULE RelationLoad ----------------------------
(***************************************************************************)
(* findMany with related rows.  A planner decides which relations the main  *)
(* query brings along (a join or an aggregate) and which are fetched by     *)
(* queries of their own afterwards; the plan is kept under the shape of the *)
(* with object.  Posts have an author (a foreign key of their own), many    *)
(* comments and, over a link table, tags.                                   *)
(***************************************************************************)
EXTENDS Naturals, FiniteSets, FiniteSetsExt

CONSTANTS
  Posts, Comments, Tags,   \* Comments and Tags are natural numbers; a tag is labelled like its comment
  Labels,                  \* what a related row can be filtered by
  Anything, None, Unset,
  MaxFinds, MaxChanges      \* bounds

VARIABLES
  dialect,
  author,    \* post -> the label of its author, or None
  on,        \* comment -> its post, or None
  label,     \* comment or tag -> its label
  tagged,    \* <<post, tag>>
  plans,     \* shape -> the with the cached plan was made for, or None
  asked, plan,
  read,      \* post -> its row in the main query: whether it had an author
  found,     \* relation -> post -> the related rows
  todo,      \* relations to be fetched
  finds, writes,
  moments    \* the databases since the find began (history)

db == <<author, on, label, tagged>>
vars == <<dialect, db, plans, asked, plan, read, found, todo, finds, writes, moments>>

Relations == {"author", "comments", "tags"}
Specs == [where : {Anything} \cup Labels, take : {Anything, 1}, nested : BOOLEAN]
Plain == [where |-> Anything, take |-> Anything, nested |-> FALSE]
\* One relation of any kind, or all of them as they are; a to-one relation takes
\* no take, and only there a nested with changes how it is loaded.
SpecsOf(rel) ==
  {spec \in Specs :
     CASE rel = "author" -> spec.take = Anything /\ (spec.nested => spec.where = Anything)
       [] rel = "comments" -> ~spec.nested /\ (spec.take = Anything \/ spec.where = Anything)
       [] rel = "tags" -> ~spec.nested /\ spec.where = Anything}
Withs == {[r \in Relations |-> Plain]} \cup UNION {{[r \in {rel} |-> spec] : spec \in SpecsOf(rel)} : rel \in Relations}

\* None is no label and no with object, and what is not set is no set of rows.
WellFormed ==
  /\ Comments \subseteq Nat /\ Tags \subseteq Nat
  /\ None \notin Labels /\ None \notin Withs
  /\ \A rows \in SUBSET (Labels \cup Comments \cup Tags) : Unset # rows

\* Mutant: take is left out as well.
SignatureWithoutTake(with) == [rel \in DOMAIN with |-> [with[rel] EXCEPT !.where = @ # Anything, !.take = Anything]]

\* withShapeSignature: the columns a where names, never its values.
withShapeSignature(with) == [rel \in DOMAIN with |-> [with[rel] EXCEPT !.where = @ # Anything]]
RelationPlanKey(with) == withShapeSignature(with)
PlanKeys == {withShapeSignature(w) : w \in Withs} \cup {SignatureWithoutTake(w) : w \in Withs}

\* planRelationLoad: what the main query cannot bring along.  A join takes a to-one
\* relation without a filter; an aggregate takes one collection as it is, a
\* correlated subquery any other, which MariaDB does not have.
Simple(spec) == spec = Plain
Batched(with) ==
  {rel \in DOMAIN with :
     CASE rel = "author" -> with[rel].where # Anything \/ with[rel].nested
       [] rel = "comments" -> dialect = "mariadb" /\ ~Simple(with[rel])
       [] rel = "tags" -> TRUE}

\* The first rows of those that match, by their ids.
First(rows, take) == IF take = Anything \/ rows = {} THEN rows ELSE {Min(rows)}
Matching(rows, spec, labels) == First({r \in rows : spec.where \in {Anything, labels[r]}}, spec.take)

\* What one relation of a post holds in a database.
Related(rel, spec, post, d) ==
  LET posts == d[1] comments == d[2] labels == d[3] links == d[4]
  IN CASE rel = "author" -> IF posts[post] # None /\ spec.where \in {Anything, posts[post]} THEN {posts[post]} ELSE {}
       [] rel = "comments" -> Matching({c \in Comments : comments[c] = post}, spec, labels)
       [] rel = "tags" -> Matching({t \in Tags : <<post, t>> \in links}, spec, labels)
---------------------------------------------------------------------------
Init ==
  /\ dialect \in {"postgresql", "mariadb"}
  /\ author \in [Posts -> Labels \cup {None}]
  /\ on \in [Comments -> Posts]
  /\ label \in {l \in [Comments \cup Tags -> Labels] : {l[c] : c \in Comments} = Labels}
  /\ tagged \in SUBSET (Posts \X Tags)
  /\ plans = [k \in PlanKeys |-> None]
  /\ asked = None /\ plan = None /\ read = [p \in Posts |-> None]
  /\ found = [rel \in Relations |-> [p \in Posts |-> Unset]]
  /\ todo = {} /\ finds = 0 /\ writes = 0 /\ moments = {}

\* The main query, by the cached plan of this shape or by a new one; the values
\* of a filter are those of the plan.
Find(with) ==
  /\ asked = None /\ finds < MaxFinds /\ finds' = finds + 1
  /\ LET key == RelationPlanKey(with)
         use == IF plans[key] # None THEN plans[key] ELSE with
     IN /\ plan' = use /\ plans' = [plans EXCEPT ![key] = use]
        /\ todo' = Batched(use)
        /\ found' = [rel \in Relations |-> [p \in Posts |->
             IF rel \in DOMAIN use \ Batched(use) THEN Related(rel, use[rel], p, db) ELSE Unset]]
  /\ asked' = with /\ read' = author /\ moments' = {db}
  /\ UNCHANGED <<dialect, db, writes>>

\* loadOneRelation for a foreign key of the parent: by the key as it was read; if
\* no parent has one nothing is set.
LoadOwned ==
  /\ "author" \in todo /\ todo' = todo \ {"author"}
  /\ found' = IF \A p \in Posts : read[p] = None THEN found
              ELSE [found EXCEPT !["author"] = [p \in Posts |-> Related("author", plan["author"], p, <<read, on, label, tagged>>)]]
  /\ UNCHANGED <<dialect, db, plans, asked, plan, read, finds, writes, moments>>

\* loadOneRelation and loadM2MRelation: one query for all parents, its rows then
\* grouped by the parent they belong to; take ranks them for each parent.
LoadMany(rel) ==
  /\ rel \in todo \ {"author"} /\ todo' = todo \ {rel}
  /\ found' = [found EXCEPT ![rel] = [p \in Posts |-> Related(rel, plan[rel], p, db)]]
  /\ UNCHANGED <<dialect, db, plans, asked, plan, read, finds, writes, moments>>

\* Someone else moves a comment, links a tag or gives a post away (bound: beside
\* the last find only).
Disturb ==
  /\ todo # {} /\ finds = MaxFinds /\ writes < MaxChanges /\ writes' = writes + 1
  /\ \/ \E c \in Comments, p \in Posts \cup {None} : on' = [on EXCEPT ![c] = p] /\ UNCHANGED <<author, tagged>>
     \/ \E link \in Posts \X Tags : tagged' = (tagged \ {link}) \cup ({link} \ tagged) /\ UNCHANGED <<author, on>>
     \/ \E p \in Posts, a \in Labels \cup {None} : author' = [author EXCEPT ![p] = a] /\ UNCHANGED <<on, tagged>>
  /\ moments' = moments \cup {<<author', on', label, tagged'>>}
  /\ UNCHANGED <<dialect, label, plans, asked, plan, read, found, todo, finds>>

\* The caller has what it asked for.
Answer ==
  /\ asked # None /\ todo = {}
  /\ asked' = None /\ plan' = None /\ moments' = {}
  /\ read' = [p \in Posts |-> None] /\ found' = [rel \in Relations |-> [p \in Posts |-> Unset]]
  /\ UNCHANGED <<dialect, db, plans, todo, finds, writes>>

Finished == asked = None /\ finds = MaxFinds /\ UNCHANGED vars

Next == (\E with \in Withs : Find(with)) \/ LoadOwned \/ (\E rel \in Relations : LoadMany(rel)) \/ Disturb \/ Answer \/ Finished

Spec == Init /\ [][Next]_vars
---------------------------------------------------------------------------
(* Properties. *)

Done == asked # None /\ todo = {}
Rows(rel, post) == IF found[rel][post] = Unset THEN {} ELSE found[rel][post]

\* A filter by the values of this find, not of the one the plan was made for.
OwnValues == \A rel \in DOMAIN asked : plan[rel].where = asked[rel].where

\* Whatever is joined, aggregated or fetched later, each relation of each post is
\* what the with object asks for, at one moment of the find for all posts.
LoadedAsAsked ==
  Done /\ OwnValues =>
    \A rel \in DOMAIN asked : \E d \in moments : \A p \in Posts : Rows(rel, p) = Related(rel, asked[rel], p, d)

\* A filter in a with object holds for this find's own value.
FilteredByOwnValue ==
  Done => \A rel \in DOMAIN asked : \E d \in moments : \A p \in Posts : Rows(rel, p) = Related(rel, asked[rel], p, d)
=============================================================================
