------------------------------- MODULE MCParts -------------------------------
(***************************************************************************)
(* The parts of neoorm that share nothing but the database, each            *)
(* model-checked on its own: part says which one a behaviour is of, and its *)
(* variables are v1, v2, ... in the order the module declares them.         *)
(***************************************************************************)
EXTENDS Naturals, Sequences, FiniteSets, TLC

CONSTANTS
  Clients, Keys, Values, Dialects, NoRow, Nobody, MaxOps, Unconditional,           \* Writes
  Parents, Subject, Children, Kinds, Engines, MaxOperations, All, Absent, Gone,       \* RelationWrites
  Ids, Ranks, Grain, Takes, None, MaxWrites,                                        \* Paginate
  Posts, Comments, Tags, Labels, Anything, Unset, MaxFinds, MaxChanges,                  \* RelationLoad
  RowIds, Stored, Authors,                                                          \* ManyWrites
  Null, MaxEvents, MaxFlight,                                                       \* StudioGrid
  MaxCalls,                                                                         \* Aggregates
  MaxReads                                                                          \* Reads

VARIABLES part, v1, v2, v3, v4, v5, v6, v7, v8, v9, v10, v11, v12, v13, v14

\* A behaviour is of one part, so parts may share model values.
Symmetry == {f @@ g : f \in Permutations(Clients \cup Children \cup Posts), g \in Permutations(Values \cup Labels)}

W == INSTANCE Writes WITH
  dialect <- v1, current <- v2, stable <- v3, owner <- v4, op <- v5, pc <- v6, local <- v7,
  answer <- v8, snap <- v9, started <- v10, seen <- v11, did <- v12
ASSUME WritesConstants == W!Distinct

R == INSTANCE RelationWrites WITH
  kind <- v1, engine <- v2, nullable <- v3, cascade <- v4, inTransaction <- v5, bag <- v6, db <- v7,
  base <- v8, todo <- v9, phase <- v10
ASSUME RelationConstants == R!WellFormed

P == INSTANCE Paginate WITH
  rank <- v1, descending <- v2, take <- v3, request <- v4, pc <- v5, page <- v6, start <- v7,
  visited <- v8, steady <- v9, quiet <- v10, writes <- v11
ASSUME PageConstants == P!WellFormed
L == INSTANCE RelationLoad WITH
  dialect <- v1, author <- v2, on <- v3, label <- v4, tagged <- v5, plans <- v6, asked <- v7,
  plan <- v8, read <- v9, found <- v10, todo <- v11, finds <- v12, writes <- v13, moments <- v14
ASSUME LoadConstants == L!WellFormed

\* StudioGrid, with what is proved about it.
G == INSTANCE StudioGridProofs WITH
  db <- v1, rows <- v2, filter <- v3, fetches <- v4, edits <- v5, drafts <- v6, jobs <- v7, saving <- v8,
  count <- v9, staged <- v10, shown <- v11, made <- v12, rough <- v13
ASSUME GridConstants == G!WellFormed

\* The data of updateMany and createMany, and the rows they meet.
Post(author, n) == [author |-> author, n |-> n]
Assign(key, op) == [key |-> key, op |-> op, value |-> 1]
UpdateData == {<<Assign("n", "set")>>, <<Assign("n", "increment")>>, <<Assign("n", "increment"), Assign("author", "set")>>}
NewPosts == [id : {None, 1}, n : {None, 1}]
FirstPosts == {Post(2, 0), Post(2, 1), Post(1, 1)}
StrayPosts == {Absent, Post(2, 1)}

M == INSTANCE ManyWrites WITH
  Ids <- RowIds, Updates <- UpdateData, NewRows <- NewPosts, Rows <- FirstPosts, Strays <- StrayPosts,
  dialect <- v1, primaryKey <- v2, rows <- v3, children <- v4, cache <- v5, call <- v6, phase <- v7,
  first <- v8, mapped <- v9, answer <- v10, meant <- v11, disturbed <- v12
ASSUME ManyConstants == M!WellFormed

Asked == INSTANCE AggregateCalls
A == INSTANCE Aggregates WITH
  Tables <- Asked!GroupedTables, Calls <- Asked!AllCalls,
  dialect <- v1, table <- v2, cache <- v3, call <- v4, answer <- v5, calls <- v6

F == INSTANCE Reads WITH
  dialect <- v1, blank <- v2, cache <- v3, asked <- v4, answer <- v5, without <- v6, reads <- v7
ASSUME ReadConstants == F!WellFormed

\* The variables a part with n of them does not have.
Unused(n) ==
  /\ IF n >= 7 THEN TRUE ELSE v7 = 0
  /\ IF n >= 8 THEN TRUE ELSE v8 = 0
  /\ IF n >= 9 THEN TRUE ELSE v9 = 0
  /\ IF n >= 10 THEN TRUE ELSE v10 = 0
  /\ IF n >= 11 THEN TRUE ELSE v11 = 0
  /\ IF n >= 12 THEN TRUE ELSE v12 = 0
  /\ IF n >= 13 THEN TRUE ELSE v13 = 0
  /\ IF n >= 14 THEN TRUE ELSE v14 = 0
Kept(n) ==
  /\ part' = part
  /\ IF n >= 7 THEN TRUE ELSE v7' = v7
  /\ IF n >= 8 THEN TRUE ELSE v8' = v8
  /\ IF n >= 9 THEN TRUE ELSE v9' = v9
  /\ IF n >= 10 THEN TRUE ELSE v10' = v10
  /\ IF n >= 11 THEN TRUE ELSE v11' = v11
  /\ IF n >= 12 THEN TRUE ELSE v12' = v12
  /\ IF n >= 13 THEN TRUE ELSE v13' = v13
  /\ IF n >= 14 THEN TRUE ELSE v14' = v14

Init ==
  \/ part = "writes" /\ W!Init /\ Unused(12)
  \/ part = "relationWrites" /\ R!Init /\ Unused(10)
  \/ part = "pages" /\ P!Init /\ Unused(11)
  \/ part = "loading" /\ L!Init /\ Unused(14)
  \/ part = "many" /\ M!Init /\ Unused(12)
  \/ part = "grid" /\ G!Init /\ Unused(13)
  \/ part = "aggregates" /\ A!Init /\ Unused(6)
  \/ part = "reads" /\ F!Init /\ Unused(7)

WritesNext == part = "writes" /\ W!Next /\ Kept(12)
RelationWritesNext == part = "relationWrites" /\ R!Next /\ Kept(10)
PaginateNext == part = "pages" /\ P!Next /\ Kept(11)
RelationLoadNext == part = "loading" /\ L!Next /\ Kept(14)
ManyWritesNext == part = "many" /\ M!Next /\ Kept(12)
StudioGridNext == part = "grid" /\ G!Next /\ Kept(13)
AggregatesNext == part = "aggregates" /\ A!Next /\ Kept(6)
ReadsNext == part = "reads" /\ F!Next /\ Kept(7)

Next ==
  \/ WritesNext \/ RelationWritesNext \/ PaginateNext \/ RelationLoadNext
  \/ ManyWritesNext \/ StudioGridNext \/ AggregatesNext \/ ReadsNext

Spec == Init /\ [][Next]_<<part, v1, v2, v3, v4, v5, v6, v7, v8, v9, v10, v11, v12, v13, v14>>
---------------------------------------------------------------------------
(* The properties of the parts; each is stated in its module. *)

\* A write answers with a row that was there, and findOrCreate says it created
\* the row exactly when it did (Writes).
WritesAnswerTruly == part = "writes" => W!AnswersWereThere /\ W!CreatedOrFound
\* Nested relation writes relate what they were asked to, and one that fails
\* leaves the database as it was (RelationWrites).
NestedWritesAreWhole == part = "relationWrites" => R!RelatedAsAsked /\ R!FailedLeavesNothing
\* A walk over pages visits each row nobody wrote exactly once, and hasMore and
\* hasPrevious are true of a quiet database (Paginate).
PagesAreTrue == part = "pages" => P!WalkVisitsOnce /\ P!FlagsAreTrue
\* Related rows are those the with object asks for (RelationLoad), and a read answers
\* the columns and relations its arguments ask for, whatever was read before (Reads).
LoadedAsAsked == (part = "loading" => L!LoadedAsAsked) /\ (part = "reads" => F!AnswersWhatWasAsked)
\* A write of many rows writes the rows its filter names, and answers those (ManyWrites).
AnsweredAreAffected == part = "many" => M!AnsweredAreAffected
\* What is staged in Studio's grid is kept until it is written to its row or
\* discarded, a draft becomes one row, and the rows shown settle on those asked for (StudioGrid).
GridKeepsItsWord == part = "grid" => G!StagedIsKept /\ G!DraftsMadeOnce /\ G!ShownIsCurrent
\* aggregate and groupBy answer what was asked, whatever was asked before (Aggregates).
AnswersAsAsked == part = "aggregates" => A!AnswersAsAsked
=============================================================================
