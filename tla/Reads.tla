------------------------------- MODULE Reads -------------------------------
(***************************************************************************)
(* Which columns and relations a read answers.  select, omit, includeHidden *)
(* and with decide what the SQL selects, more than was asked when relations *)
(* are to be attached; the SQL is kept under a signature, and what was not  *)
(* asked is taken from the rows again.  Books have a writer (a foreign key  *)
(* of their own), many reviews and, over a link table, tags.                *)
(***************************************************************************)
EXTENDS Naturals

CONSTANTS None, MaxReads   \* MaxReads is a bound

VARIABLES
  dialect,
  blank,    \* the writer has no name
  cache,    \* signature -> the SQL text kept under it
  asked,    \* the read that is answered, or None
  answer,   \* book -> the row answered, or None if the read was refused
  without,  \* the columns strip() has taken away, or None
  reads

vars == <<dialect, blank, cache, asked, answer, without, reads>>

\* Book 1 has a writer, a review and a tag; a partial unique index over the
\* title holds book 1 only, though both have the same.
Books == {1, 2}
OwnColumns == {"id", "title", "secret", "writerId"}
TargetColumns == {"id", "name", "secret"}
ColumnsOf(table) == IF table = "books" THEN OwnColumns ELSE TargetColumns
Hidden == {"secret"}
Parsed == {"title"}       \* deserializeColumns: the database's text is not their value
Relations == {"writer", "reviews", "tags"}

\* select, omit or neither, with includeHidden.
Pick(kind, keys, hidden) == [kind |-> kind, keys |-> keys, hidden |-> hidden]
Every(hidden) == Pick("all", {}, hidden)
OwnPicks ==
  {Every(h) : h \in BOOLEAN} \cup {Pick("select", k, FALSE) : k \in {{}, {"title"}, {"secret"}, {"id", "writerId"}}}
    \cup {Pick("omit", k, h) : k \in {{"title"}, {"id", "writerId"}, OwnColumns}, h \in BOOLEAN}
Specs == [pick : {Every(FALSE), Every(TRUE), Pick("select", {"name"}, FALSE), Pick("omit", {"name"}, TRUE)}, filtered : BOOLEAN]
Plain == [pick |-> Every(FALSE), filtered |-> FALSE]
Pair == [rel \in {"writer", "reviews"} |-> Plain]
Withs == {Pair} \cup UNION {[{rel} -> Specs] : rel \in Relations}
PlainWiths == {Pair} \cup UNION {[{rel} -> [pick : {Every(FALSE)}, filtered : BOOLEAN]] : rel \in Relations}
NoWith == [rel \in {} |-> Plain]

Read(op, own, with) == [op |-> op, own |-> own, with |-> with]
Calls ==
  {Read(op, own, NoWith) : op \in {"findMany", "findById"}, own \in OwnPicks}
    \cup {Read(op, Every(FALSE), with) : op \in {"findMany", "findById"}, with \in Withs}
    \cup {Read(op, own, with) : op \in {"findMany", "findById"}, with \in PlainWiths,
                                own \in {Every(TRUE), Pick("select", {"title"}, FALSE)}}
    \cup {Read("findMany", Pick("omit", OwnColumns, FALSE), with) : with \in PlainWiths}
    \cup {Read("findFirst", Every(FALSE), with) : with \in {NoWith, Pair}}
    \cup {Read("findUnique", Every(FALSE), with) : with \in {NoWith} \cup PlainWiths}
---------------------------------------------------------------------------
\* columnsForOutput: no keys are every column, the hidden ones if included.
columnsForOutput(table, keys, hidden) ==
  IF keys # {} THEN keys ELSE IF hidden THEN ColumnsOf(table) ELSE ColumnsOf(table) \ Hidden

\* resolveRelationSelectKeys; no keys are every column.
resolveRelationSelectKeys(table, pick) ==
  IF pick.kind = "omit" /\ pick.keys # {} THEN columnsForOutput(table, {}, pick.hidden) \ pick.keys ELSE pick.keys
columnsForSelect(rel, pick) == columnsForOutput(rel, resolveRelationSelectKeys(rel, pick), pick.hidden)

\* internalSelectColumns: what attaching relations needs of the parent.
internalSelectColumns(with) ==
  (IF DOMAIN with = {} THEN {} ELSE {"id"}) \cup (IF "writer" \in DOMAIN with THEN {"writerId"} ELSE {})

\* resolveParentProjection; no SQL columns are every column.
resolveParentProjection(call) ==
  LET own == call.own
      extras == internalSelectColumns(call.with)
      has == own.kind = "select" \/ (own.kind = "omit" /\ own.keys # {})
      requested == IF own.kind = "select" THEN own.keys ELSE columnsForOutput("books", {}, own.hidden) \ own.keys
  IN [has |-> has,
      requested |-> IF has THEN requested ELSE {},
      sqlColumns |-> IF has THEN requested \cup extras ELSE {},
      refused |-> has /\ requested = {} /\ (own.kind = "select" \/ DOMAIN call.with = {})]

\* planRelationLoad and its options: what joins, what is a value of the main
\* query, grouped or correlated, and what is fetched afterwards.
Aggregated(call) == call.op = "findMany" \/ dialect = "mariadb"
Batched(call) ==
  {rel \in DOMAIN call.with :
     CASE rel = "writer" -> call.with[rel].filtered
       [] rel = "reviews" -> dialect = "mariadb" /\ call.with[rel] # Plain
       [] rel = "tags" -> TRUE}
needsQualifiedRefs(call) ==
  LET inline == DOMAIN call.with \ Batched(call)
  IN "writer" \in inline \/ ("reviews" \in inline /\ Aggregated(call) /\ call.with["reviews"] = Plain)

\* Mutant: includeHidden is left out.
SignatureOfColumns(columns, hidden) == [columns |-> columns, hidden |-> FALSE]

\* projectionSignature
projectionSignature(columns, hidden) == [columns |-> columns, hidden |-> columns = {} /\ hidden]

\* The books a where selects: an index predicate is appended to the SQL of
\* findUnique, and lost when the where is compiled again with qualified names.
Where(call) ==
  CASE call.op = "findById" -> "id"
    [] call.op = "findUnique" -> IF needsQualifiedRefs(call) THEN "title" ELSE "indexed"
    [] OTHER -> "all"
Selected(where) == IF where \in {"id", "indexed"} THEN {1} ELSE Books

\* findFirst, findUnique and findById take one row.
One(call) == call.op # "findMany"

\* buildPlanExtraSelectCols: the columns of each relation the main query brings along.
ExtraColumns(call) == [rel \in DOMAIN call.with \ Batched(call) |-> columnsForSelect(rel, call.with[rel].pick)]

\* The SQL of a read.
BuildQuery(call, hidden) ==
  [own |-> columnsForOutput("books", resolveParentProjection(call).sqlColumns, hidden),
   along |-> ExtraColumns(call),
   where |-> Where(call), one |-> One(call)]

\* getCachedFindByIdWithQuery attaches relations in one query when nothing is left to fetch; that
\* query and its signature do not know includeHidden.
Inline(call) == call.op = "findById" /\ DOMAIN call.with # {} /\ Batched(call) = {}
Signature(call) ==
  [path |-> IF call.op = "findById" THEN (IF DOMAIN call.with = {} THEN "byId" ELSE IF Inline(call) THEN "byIdWith" ELSE "where") ELSE "where",
   where |-> Where(call), one |-> One(call), with |-> call.with, aggregated |-> Aggregated(call),
   columns |-> projectionSignature(resolveParentProjection(call).sqlColumns, call.own.hidden /\ ~Inline(call))]

\* isBareFindMany: without a projection these are built beforehand or anew, and never kept.
Kept(call) ==
  /\ ~(call.op = "findMany" /\ call.with = NoWith /\ ~resolveParentProjection(call).has /\ ~call.own.hidden)
  /\ ~(call.op = "findById" /\ call.with = NoWith /\ ~resolveParentProjection(call).has)

\* findAllSqlFor, findByIdSqlFor and getOrSetSqlCache
QueryOf(call) ==
  IF Kept(call) /\ Signature(call) \in DOMAIN cache THEN cache[Signature(call)]
  ELSE BuildQuery(call, call.own.hidden /\ ~Inline(call))
---------------------------------------------------------------------------
\* A row of the database: what is stored as text is not yet a value.
StoredAs(table, columns) ==
  [c \in columns |-> IF table = "books" /\ c \in Parsed THEN "text" ELSE IF table = "writer" /\ c = "name" /\ blank THEN "null" ELSE "value"]
Record(table, columns, along) == [columns |-> StoredAs(table, columns), along |-> along, rels |-> NoWith, strip |-> FALSE]

\* canReuseDriverRow: nothing to deserialise and no key that is not a column's.
canReuseDriverRow(row) == row.along = {} /\ DOMAIN row.columns \cap Parsed = {}

\* mapRowToTs: the driver's row, or a new one of the known columns only, which
\* gets a strip().
mapRowToTs(row) ==
  IF canReuseDriverRow(row) THEN row
  ELSE [columns |-> [c \in DOMAIN row.columns |-> IF row.columns[c] = "text" THEN "value" ELSE row.columns[c]],
        along |-> {}, rels |-> NoWith, strip |-> TRUE]

Matches(spec, book) == book = 1 /\ (spec.filtered => ~blank)
Target(rel, columns) == mapRowToTs(Record(rel, columns, {}))

\* extractJoinedRelations and hydrateInlineChainValue; a joined row of nothing
\* but nulls is no row.
Along(rel, spec, columns, book) ==
  IF ~Matches(spec, book) \/ (rel = "writer" /\ \A c \in columns : StoredAs(rel, columns)[c] = "null") THEN {}
  ELSE {Target(rel, columns)}

\* hydrateRowsWithPlan: the strip() is not carried over.
hydrateRowsWithPlan(call, query, book) ==
  LET row == mapRowToTs(Record("books", query.own, DOMAIN query.along))
  IN [row EXCEPT !.rels = [rel \in DOMAIN query.along |-> Along(rel, call.with[rel], query.along[rel], book)], !.strip = FALSE]

\* loadOneRelation and loadM2MRelation: by the key of the row, a to-one row found
\* by its own key; without a key to look for nothing is set.
Fetched(call, rows, book) ==
  LET looksUp(rel) == rel # "writer" \/ \E b \in DOMAIN rows : b = 1 /\ "writerId" \in DOMAIN rows[b].columns
      value(rel) ==
        LET columns == columnsForSelect(rel, call.with[rel].pick)
        IN IF ~Matches(call.with[rel], book) \/ (rel = "writer" /\ "id" \notin columns) \/ "id" \notin DOMAIN rows[book].columns
           THEN {} ELSE {Target(rel, columns)}
  IN [rel \in {r \in Batched(call) : looksUp(r)} |-> value(rel)]

\* applyParentProjection
applyParentProjection(row, requested, with) ==
  [row EXCEPT !.columns = [c \in DOMAIN row.columns \cap requested |-> row.columns[c]],
              !.rels = [rel \in DOMAIN row.rels \cap DOMAIN with |-> row.rels[rel]], !.strip = FALSE]
projectFindRows(row, call) ==
  LET projection == resolveParentProjection(call)
  IN IF projection.has THEN applyParentProjection(row, projection.requested, call.with) ELSE row

\* The rows of the books a query found, with their relations.
Merge(one, two) == [rel \in DOMAIN one \cup DOMAIN two |-> IF rel \in DOMAIN one THEN one[rel] ELSE two[rel]]
RowsOf(call, query, found) ==
  IF DOMAIN call.with = {}
  THEN [book \in found |-> projectFindRows(mapRowToTs(Record("books", query.own, {})), call)]
  ELSE LET rows == [book \in found |-> hydrateRowsWithPlan(call, query, book)]
       IN [book \in found |-> projectFindRows([rows[book] EXCEPT !.rels = Merge(@, Fetched(call, rows, book))], call)]
---------------------------------------------------------------------------
Init ==
  /\ dialect \in {"postgresql", "mariadb"} /\ blank \in {FALSE, dialect = "postgresql"}
  /\ cache = [key \in {} |-> None]
  /\ asked = None /\ answer = None /\ without = None /\ reads = 0

\* findMany, findFirst, findUnique or findById; a row of many found is any.
Find(call) ==
  /\ reads < MaxReads /\ reads' = reads + 1
  /\ asked' = call /\ without' = None
  /\ IF resolveParentProjection(call).refused THEN answer' = None /\ UNCHANGED cache
     ELSE LET query == QueryOf(call)
          IN /\ cache' = IF Kept(call) THEN [key \in DOMAIN cache \cup {Signature(call)} |->
                                              IF key \in DOMAIN cache THEN cache[key] ELSE query]
                         ELSE cache
             /\ \E found \in IF query.one THEN {{book} : book \in Selected(query.where)} ELSE {Selected(query.where)} :
                  answer' = RowsOf(call, query, found)
  /\ UNCHANGED <<dialect, blank>>

\* stripRecords: the hidden columns and those named, and the hidden ones of related rows.
stripRow(row, keys) ==
  LET less(r, k) == [r EXCEPT !.columns = [c \in DOMAIN r.columns \ k |-> r.columns[c]], !.strip = FALSE]
  IN [less(row, Hidden \cup keys) EXCEPT !.rels = [rel \in DOMAIN row.rels |-> {less(r, Hidden) : r \in row.rels[rel]}]]
StripKeys == {{}, {"title"}}
Strip(keys) ==
  /\ answer # None /\ without = None /\ \A book \in DOMAIN answer : answer[book].strip
  /\ without' = keys /\ answer' = [book \in DOMAIN answer |-> stripRow(answer[book], keys)]
  /\ UNCHANGED <<dialect, blank, cache, asked, reads>>

\* The model value of what is not there is no set of keys.
WellFormed == None \notin StripKeys

Finished == reads = MaxReads /\ UNCHANGED vars

Next == (\E call \in Calls : Find(call)) \/ (\E keys \in StripKeys : Strip(keys)) \/ Finished

Spec == Init /\ [][Next]_vars
---------------------------------------------------------------------------
(* Properties. *)

\* What the arguments say of the columns, whatever is selected for other reasons.
Wanted(table, pick) ==
  CASE pick.kind = "select" -> pick.keys
    [] pick.kind = "omit" -> {c \in ColumnsOf(table) : c \notin pick.keys /\ (c \in Hidden => pick.hidden)}
    [] OTHER -> {c \in ColumnsOf(table) : c \in Hidden => pick.hidden}
Taken == IF without = None THEN {} ELSE without \cup Hidden

\* Where the code answers something else: findById does not pass includeHidden to
\* the one query it attaches relations in; a to-one row is lost when its columns
\* are all null or, fetched afterwards, when its key is not selected; and a
\* unique lookup that joins loses the predicate of its index.
HiddenIsLost == Inline(asked) /\ asked.own.hidden
RowIsLost ==
  "writer" \in DOMAIN asked.with /\
    LET columns == columnsForSelect("writer", asked.with["writer"].pick)
    IN IF "writer" \in Batched(asked) THEN "id" \notin columns ELSE blank /\ columns = {"name"}
PredicateIsLost == asked.op = "findUnique" /\ needsQualifiedRefs(asked)

\* Every row has exactly the columns asked for, each with its value, and of each
\* relation the rows and columns asked for (none may also be no relation at all), whatever the SQL had to select, which
\* signature it was kept under and which path the relation was loaded by.
AnswersWhatWasAsked ==
  answer # None /\ ~HiddenIsLost /\ ~RowIsLost /\ ~PredicateIsLost =>
    /\ (asked.op = "findMany" => DOMAIN answer = Books) /\ (asked.op \in {"findById", "findUnique"} => DOMAIN answer = {1})
    /\ \A book \in DOMAIN answer :
         LET row == answer[book]
         IN /\ DOMAIN row.columns = Wanted("books", asked.own) \ Taken /\ row.along = {}
            /\ \A c \in DOMAIN row.columns : row.columns[c] = "value"
            /\ DOMAIN row.rels \subseteq DOMAIN asked.with
            /\ \A rel \in DOMAIN asked.with : rel \in DOMAIN row.rels /\ row.rels[rel] # {} <=> Matches(asked.with[rel], book)
            /\ \A rel \in DOMAIN row.rels :
                 \A r \in row.rels[rel] : DOMAIN r.columns = Wanted(rel, asked.with[rel].pick) \ (Taken \cap Hidden)
=============================================================================
