----------------------------- MODULE PartsProofs -----------------------------
(***************************************************************************)
(* Proofs about the parts of MCParts that read, page, load, write many rows  *)
(* and show a grid (WritesProofs has the other writes): a behaviour is of    *)
(* one part from its first state on, and the part's own invariant is kept by *)
(* its own steps.                                                            *)
(***************************************************************************)
EXTENDS MCParts, FiniteSetTheorems, SequenceTheorems, WellFoundedInduction, TLAPS

(* The grid. *)

GridIsRight == part = "grid" => G!GridInv

LEMMA GridFromTheStart == Init => GridIsRight
<1> SUFFICES ASSUME Init, part = "grid" PROVE G!GridInv
  BY DEF GridIsRight
<1>1. G!Init
  BY DEF Init
<1> QED BY <1>1, GridConstants, G!GridFromTheStart

LEMMA GridGoesOn == GridIsRight /\ [Next]_<<part, v1, v2, v3, v4, v5, v6, v7, v8, v9, v10, v11, v12, v13, v14>> => GridIsRight'
<1> SUFFICES ASSUME GridIsRight, [Next]_<<part, v1, v2, v3, v4, v5, v6, v7, v8, v9, v10, v11, v12, v13, v14>>,
                    part' = "grid"
             PROVE  G!GridInv'
  BY DEF GridIsRight
<1>1. part = "grid"
  BY DEF Next, WritesNext, RelationWritesNext, PaginateNext, RelationLoadNext, ManyWritesNext, StudioGridNext,
     AggregatesNext, ReadsNext, Kept
<1>2. G!GridInv
  BY <1>1 DEF GridIsRight
<1>3. G!Next \/ UNCHANGED <<part, v1, v2, v3, v4, v5, v6, v7, v8, v9, v10, v11, v12, v13, v14>>
  BY <1>1 DEF Next, WritesNext, RelationWritesNext, PaginateNext, RelationLoadNext, ManyWritesNext, StudioGridNext,
     AggregatesNext, ReadsNext
<1>4. [G!Next]_(G!vars)
  BY <1>3 DEF G!vars, G!grid, G!stage
<1> QED BY <1>2, <1>4, GridConstants, G!GridGoesOn

\* GridKeepsItsWord, for any values, gestures, jobs and list requests on their way.
THEOREM GridAlwaysKeepsItsWord == Spec => []GridKeepsItsWord
<1>1. GridIsRight => GridKeepsItsWord
  BY G!GridIsRight DEF GridIsRight, GridKeepsItsWord
<1> QED BY <1>1, GridFromTheStart, GridGoesOn, PTL DEF Spec
---------------------------------------------------------------------------
(* Reads: the lemmas are about that part, whose variables these are. *)
dialect == v1
blank == v2
cache == v3
asked == v4
answer == v5
without == v6
USE DEF dialect, blank, cache, asked, answer, without

\* A pick: no keys without select or omit.
IsPick(pick) == pick.kind \in {"all", "select", "omit"} /\ pick.hidden \in BOOLEAN /\ (pick.kind = "all" => pick.keys = {})
IsSpec(rel, spec) == IsPick(spec.pick) /\ spec.filtered \in BOOLEAN /\ F!Wanted(rel, spec.pick) # {}
IsCall(call) ==
  /\ call.op \in {"findMany", "findFirst", "findUnique", "findById"}
  /\ IsPick(call.own)
  /\ DOMAIN call.with \subseteq F!Relations /\ \A rel \in DOMAIN call.with : IsSpec(rel, call.with[rel])

\* The rows that are asked for, without the columns taken away.
IsRow(row) == row = [columns |-> row.columns, along |-> row.along, rels |-> row.rels, strip |-> row.strip]
OwnRight(call, row, taken) ==
  /\ DOMAIN row.columns = F!Wanted("books", call.own) \ taken /\ row.along = {}
  /\ \A c \in DOMAIN row.columns : row.columns[c] = "value"
RelationsRight(call, row, book, taken) ==
  /\ DOMAIN row.rels \subseteq DOMAIN call.with
  /\ \A rel \in DOMAIN call.with : rel \in DOMAIN row.rels /\ row.rels[rel] # {} <=> F!Matches(call.with[rel], book)
  /\ \A rel \in DOMAIN row.rels : \A r \in row.rels[rel] :
       IsRow(r) /\ DOMAIN r.columns = F!Wanted(rel, call.with[rel].pick) \ (taken \cap F!Hidden)
RightRow(call, row, book, taken) == IsRow(row) /\ OwnRight(call, row, taken) /\ RelationsRight(call, row, book, taken)

\* The same of a call as of the one that is answered.
Lost(call) ==
  \/ F!Inline(call) /\ call.own.hidden
  \/ /\ "writer" \in DOMAIN call.with
     /\ LET columns == F!columnsForSelect("writer", call.with["writer"].pick)
        IN IF "writer" \in F!Batched(call) THEN "id" \notin columns ELSE blank /\ columns = {"name"}
  \/ call.op = "findUnique" /\ F!needsQualifiedRefs(call)

QueryFor(call) == F!BuildQuery(call, call.own.hidden /\ ~F!Inline(call))

LEMMA PickIs ==
  ASSUME NEW kind \in {"all", "select", "omit"}, NEW keys, NEW hidden \in BOOLEAN, kind = "all" => keys = {}
  PROVE  /\ IsPick(F!Pick(kind, keys, hidden))
         /\ F!Pick(kind, keys, hidden).kind = kind /\ F!Pick(kind, keys, hidden).keys = keys
<1>1. F!Pick(kind, keys, hidden).kind = kind /\ F!Pick(kind, keys, hidden).keys = keys
  BY DEF F!Pick
<1>2. F!Pick(kind, keys, hidden).hidden \in BOOLEAN
  BY DEF F!Pick
<1> QED BY <1>1, <1>2 DEF IsPick

LEMMA EveryIs == ASSUME NEW h \in BOOLEAN PROVE IsPick(F!Every(h)) /\ F!Every(h).kind = "all" /\ F!Every(h).keys = {}
<1>1. F!Every(h) = F!Pick("all", {}, h)
  BY DEF F!Every
<1>2. IsPick(F!Pick("all", {}, h)) /\ F!Pick("all", {}, h).kind = "all" /\ F!Pick("all", {}, h).keys = {}
  BY PickIs
<1> QED BY <1>1, <1>2

LEMMA SpecsFit == \A spec \in F!Specs, rel \in F!Relations : IsSpec(rel, spec)
<1>1. ASSUME NEW spec \in F!Specs, NEW rel \in F!Relations PROVE IsSpec(rel, spec)
  <2>1. spec.filtered \in BOOLEAN /\ spec.pick \in {F!Every(FALSE), F!Every(TRUE), F!Pick("select", {"name"}, FALSE), F!Pick("omit", {"name"}, TRUE)}
    BY DEF F!Specs
  <2>2. /\ IsPick(spec.pick) /\ spec.pick.keys \in {{}, {"name"}}
        /\ spec.pick.kind = "select" => spec.pick.keys = {"name"}
    <3>1. CASE spec.pick = F!Every(FALSE)
      BY <3>1, EveryIs
    <3>2. CASE spec.pick = F!Every(TRUE)
      BY <3>2, EveryIs
    <3>3. CASE spec.pick = F!Pick("select", {"name"}, FALSE)
      <4>1. IsPick(F!Pick("select", {"name"}, FALSE)) /\ F!Pick("select", {"name"}, FALSE).keys = {"name"}
        BY PickIs
      <4> QED BY <3>3, <4>1
    <3>4. CASE spec.pick = F!Pick("omit", {"name"}, TRUE)
      <4>1. /\ IsPick(F!Pick("omit", {"name"}, TRUE)) /\ F!Pick("omit", {"name"}, TRUE).keys = {"name"}
            /\ F!Pick("omit", {"name"}, TRUE).kind = "omit"
        BY PickIs
      <4> QED BY <3>4, <4>1
    <3> QED BY <2>1, <3>1, <3>2, <3>3, <3>4
  <2>3. F!ColumnsOf(rel) = {"id", "name", "secret"}
    BY DEF F!ColumnsOf, F!Relations, F!TargetColumns
  <2>4. F!Wanted(rel, spec.pick) # {}
    <3>3. CASE spec.pick.kind = "select"
      BY <2>2, <3>3 DEF F!Wanted
    <3>4. CASE spec.pick.kind # "select"
      <4>1. "id" \in F!ColumnsOf(rel) /\ "id" \notin F!Hidden /\ "id" \notin spec.pick.keys
        BY <2>2, <2>3 DEF F!Hidden
      <4> QED BY <2>2, <3>4, <4>1 DEF F!Wanted, IsPick
    <3> QED BY <3>3, <3>4
  <2> QED BY <2>1, <2>2, <2>4 DEF IsSpec
<1> QED BY <1>1

LEMMA WithsFit ==
  \A with \in F!Withs \cup F!PlainWiths \cup {F!NoWith} : DOMAIN with \subseteq F!Relations /\ \A rel \in DOMAIN with : IsSpec(rel, with[rel])
<1>1. F!Plain \in F!Specs
  BY DEF F!Plain, F!Specs
<1>2. [pick : {F!Every(FALSE)}, filtered : BOOLEAN] \subseteq F!Specs
  BY DEF F!Specs
<1>3. DOMAIN F!Pair \subseteq F!Relations /\ \A rel \in DOMAIN F!Pair : IsSpec(rel, F!Pair[rel])
  BY <1>1, SpecsFit DEF F!Pair, F!Relations
<1>4. DOMAIN F!NoWith = {}
  BY DEF F!NoWith
<1>5. ASSUME NEW rel \in F!Relations, NEW with \in [{rel} -> F!Specs]
      PROVE  DOMAIN with \subseteq F!Relations /\ \A r \in DOMAIN with : IsSpec(r, with[r])
  BY SpecsFit
<1>6. \A with \in F!Withs : with = F!Pair \/ \E rel \in F!Relations : with \in [{rel} -> F!Specs]
  BY DEF F!Withs
<1>7. \A with \in F!PlainWiths : with = F!Pair \/ \E rel \in F!Relations : with \in [{rel} -> F!Specs]
  BY <1>2 DEF F!PlainWiths
<1> QED BY <1>3, <1>4, <1>5, <1>6, <1>7

LEMMA CallsFit == \A call \in F!Calls : IsCall(call)
<1> DEFINE Bare == F!Every(FALSE)
           Full == F!Every(TRUE)
           Titled == F!Pick("select", {"title"}, FALSE)
           Less == F!Pick("omit", F!OwnColumns, FALSE)
           Some == {{}, {"title"}, {"secret"}, {"id", "writerId"}}
           Taking(k) == F!Pick("select", k, FALSE)
           Leaving(k, h) == F!Pick("omit", k, h)
           Ops == {"findMany", "findFirst", "findUnique", "findById"}
           AllWiths == F!Withs \cup F!PlainWiths \cup {F!NoWith}
           C1 == {F!Read(op, own, F!NoWith) : op \in {"findMany", "findById"}, own \in F!OwnPicks}
           C2 == {F!Read(op, Bare, with) : op \in {"findMany", "findById"}, with \in F!Withs}
           C3 == {F!Read(op, own, with) : op \in {"findMany", "findById"}, with \in F!PlainWiths, own \in {Full, Titled}}
           C4 == {F!Read("findMany", Less, with) : with \in F!PlainWiths}
           C5 == {F!Read("findFirst", Bare, with) : with \in {F!NoWith, F!Pair}}
           C6 == {F!Read("findUnique", Bare, with) : with \in {F!NoWith} \cup F!PlainWiths}
<1>1. F!Calls = C1 \cup C2 \cup C3 \cup C4 \cup C5 \cup C6
  BY DEF F!Calls
<1>2. F!OwnPicks = {F!Every(h) : h \in BOOLEAN} \cup {Taking(k) : k \in Some}
                   \cup {Leaving(k, h) : k \in {{"title"}, {"id", "writerId"}, F!OwnColumns}, h \in BOOLEAN}
  BY DEF F!OwnPicks
<1>3. IsPick(Bare) /\ IsPick(Full) /\ IsPick(Titled) /\ IsPick(Less)
  <2>1. IsPick(F!Every(FALSE)) /\ IsPick(F!Every(TRUE))
    BY EveryIs
  <2>2. IsPick(F!Pick("select", {"title"}, FALSE)) /\ IsPick(F!Pick("omit", F!OwnColumns, FALSE))
    BY PickIs
  <2> QED BY <2>1, <2>2
<1>4. \A k : IsPick(Taking(k))
  BY PickIs
<1>5. \A k : \A h \in BOOLEAN : IsPick(Leaving(k, h))
  BY PickIs
<1>6. F!NoWith \in AllWiths /\ F!Pair \in AllWiths /\ F!Withs \subseteq AllWiths /\ F!PlainWiths \subseteq AllWiths
  BY DEF F!Withs
<1>7. \A with \in AllWiths : DOMAIN with \subseteq F!Relations /\ \A rel \in DOMAIN with : IsSpec(rel, with[rel])
  BY WithsFit
<1> HIDE DEF Bare, Full, Titled, Less, Some, Taking, Leaving, AllWiths
<1>8. ASSUME NEW own \in F!OwnPicks PROVE IsPick(own)
  <2>1. CASE own \in {F!Every(h) : h \in BOOLEAN}
    <3>1. own = F!Every(TRUE) \/ own = F!Every(FALSE)
      BY <2>1
    <3> QED BY <3>1, EveryIs
  <2>2. CASE own \in {Taking(k) : k \in Some}
    BY <1>4, <2>2
  <2>3. CASE own \in {Leaving(k, h) : k \in {{"title"}, {"id", "writerId"}, F!OwnColumns}, h \in BOOLEAN}
    <3>1. PICK k \in {{"title"}, {"id", "writerId"}, F!OwnColumns}, h \in BOOLEAN : own = Leaving(k, h)
      BY <2>3
    <3> QED BY <1>5, <3>1
  <2> QED BY <1>2, <2>1, <2>2, <2>3
<1>9. ASSUME NEW op \in Ops, NEW own, IsPick(own), NEW with \in AllWiths PROVE IsCall(F!Read(op, own, with))
  BY <1>7, <1>9 DEF IsCall, F!Read
<1> HIDE DEF C1, C2, C3, C4, C5, C6, Ops
<1>10. Ops = {"findMany", "findFirst", "findUnique", "findById"}
  BY DEF Ops
<1>11. ASSUME NEW call \in C1 PROVE IsCall(call)
  <2>1. PICK op \in {"findMany", "findById"}, own \in F!OwnPicks : call = F!Read(op, own, F!NoWith)
    BY <1>11 DEF C1
  <2> QED BY <1>6, <1>8, <1>9, <1>10, <2>1
<1>12. ASSUME NEW call \in C2 PROVE IsCall(call)
  <2>1. PICK op \in {"findMany", "findById"}, with \in F!Withs : call = F!Read(op, Bare, with)
    BY <1>12 DEF C2
  <2> QED BY <1>3, <1>6, <1>9, <1>10, <2>1
<1>13. ASSUME NEW call \in C3 PROVE IsCall(call)
  <2>1. PICK op \in {"findMany", "findById"}, with \in F!PlainWiths, own \in {Full, Titled} : call = F!Read(op, own, with)
    BY <1>13 DEF C3
  <2> QED BY <1>3, <1>6, <1>9, <1>10, <2>1
<1>14. ASSUME NEW call \in C4 PROVE IsCall(call)
  BY <1>3, <1>6, <1>9, <1>10, <1>14 DEF C4
<1>15. ASSUME NEW call \in C5 PROVE IsCall(call)
  BY <1>3, <1>6, <1>9, <1>10, <1>15 DEF C5
<1>16. ASSUME NEW call \in C6 PROVE IsCall(call)
  BY <1>3, <1>6, <1>9, <1>10, <1>16 DEF C6
<1> QED BY <1>1, <1>11, <1>12, <1>13, <1>14, <1>15, <1>16
---------------------------------------------------------------------------
(* Columns. *)

LEMMA TargetColumnsRight ==
  ASSUME NEW rel \in F!Relations, NEW spec, IsSpec(rel, spec)
  PROVE  F!columnsForSelect(rel, spec.pick) = F!Wanted(rel, spec.pick)
<1> DEFINE pick == spec.pick
<1>1. IsPick(pick) /\ F!Wanted(rel, pick) # {}
  BY DEF IsSpec
<1>2. F!columnsForOutput(rel, {}, pick.hidden) = {c \in F!ColumnsOf(rel) : c \in F!Hidden => pick.hidden}
  BY <1>1 DEF F!columnsForOutput, IsPick
<1>3. CASE pick.kind = "select"
  <2>1. pick.keys # {} /\ F!Wanted(rel, pick) = pick.keys
    BY <1>1, <1>3 DEF F!Wanted
  <2> QED BY <1>3, <2>1 DEF F!columnsForSelect, F!resolveRelationSelectKeys, F!columnsForOutput
<1>4. CASE pick.kind = "omit" /\ pick.keys # {}
  <2>1. F!resolveRelationSelectKeys(rel, pick) = F!columnsForOutput(rel, {}, pick.hidden) \ pick.keys
    BY <1>4 DEF F!resolveRelationSelectKeys
  <2>2. F!Wanted(rel, pick) = {c \in F!ColumnsOf(rel) : c \notin pick.keys /\ (c \in F!Hidden => pick.hidden)}
    BY <1>4 DEF F!Wanted
  <2>3. F!resolveRelationSelectKeys(rel, pick) = F!Wanted(rel, pick)
    BY <1>2, <2>1, <2>2
  <2> QED BY <1>1, <2>3 DEF F!columnsForSelect, F!columnsForOutput
<1>5. CASE pick.kind # "select" /\ pick.keys = {}
  <2>1. F!resolveRelationSelectKeys(rel, pick) = {}
    BY <1>5 DEF F!resolveRelationSelectKeys
  <2>2. F!Wanted(rel, pick) = {c \in F!ColumnsOf(rel) : c \in F!Hidden => pick.hidden}
    BY <1>1, <1>5 DEF F!Wanted, IsPick
  <2> QED BY <1>2, <2>1, <2>2 DEF F!columnsForSelect
<1>6. pick.kind # "select" => (pick.kind = "all" /\ pick.keys = {}) \/ pick.kind = "omit"
  BY <1>1 DEF IsPick
<1> QED BY <1>3, <1>4, <1>5, <1>6

\* What the SQL selects of the read's own row, and what is kept of it.
LEMMA OwnColumnsRight ==
  ASSUME NEW call, IsCall(call), ~F!resolveParentProjection(call).refused
  PROVE  LET projection == F!resolveParentProjection(call)
             own == F!columnsForOutput("books", projection.sqlColumns, call.own.hidden)
         IN /\ IF projection.has THEN projection.requested = F!Wanted("books", call.own) /\ projection.requested \subseteq own
                                 ELSE own = F!Wanted("books", call.own)
            /\ DOMAIN call.with = {} /\ projection.has => own = projection.requested
            /\ DOMAIN call.with # {} => "id" \in own
            /\ "writer" \in DOMAIN call.with => "writerId" \in own
<1> DEFINE projection == F!resolveParentProjection(call)
           own == F!columnsForOutput("books", projection.sqlColumns, call.own.hidden)
           extras == F!internalSelectColumns(call.with)
           has == call.own.kind = "select" \/ (call.own.kind = "omit" /\ call.own.keys # {})
           every == {c \in F!OwnColumns : c \in F!Hidden => call.own.hidden}
           requested == IF call.own.kind = "select" THEN call.own.keys ELSE every \ call.own.keys
<1>1. IsPick(call.own) /\ F!ColumnsOf("books") = F!OwnColumns
  BY DEF IsCall, F!ColumnsOf
<1>2. F!columnsForOutput("books", {}, call.own.hidden) = every
  BY <1>1 DEF F!columnsForOutput, IsPick
<1>3. /\ projection.has <=> has
      /\ has => projection.requested = requested /\ projection.sqlColumns = requested \cup extras
      /\ ~has => projection.sqlColumns = {}
      /\ ~(has /\ requested = {} /\ (call.own.kind = "select" \/ DOMAIN call.with = {}))
  BY <1>2 DEF F!resolveParentProjection
<1>4. /\ DOMAIN call.with = {} => extras = {}
      /\ DOMAIN call.with # {} => "id" \in extras
      /\ "writer" \in DOMAIN call.with => "writerId" \in extras
  BY DEF F!internalSelectColumns
<1>5. CASE has
  <2>1. requested = F!Wanted("books", call.own)
    BY <1>1, <1>5 DEF F!Wanted
  <2>2. projection.sqlColumns = requested \cup extras /\ requested \cup extras # {}
    BY <1>3, <1>4, <1>5
  <2>3. own = requested \cup extras
    BY <2>2 DEF F!columnsForOutput
  <2> QED BY <1>3, <1>4, <1>5, <2>1, <2>3
<1>6. CASE ~has
  <2>1. own = every
    BY <1>2, <1>3, <1>6
  <2>2. every = F!Wanted("books", call.own)
    BY <1>1, <1>6 DEF F!Wanted, IsPick
  <2>3. "id" \in every /\ "writerId" \in every
    BY DEF F!OwnColumns, F!Hidden
  <2> QED BY <1>3, <1>6, <2>1, <2>2, <2>3
<1> QED BY <1>5, <1>6
---------------------------------------------------------------------------
(* Rows. *)

LEMMA Mapped ==
  ASSUME NEW table, NEW columns, NEW along
  PROVE  LET row == F!mapRowToTs(F!Record(table, columns, along))
         IN /\ IsRow(row) /\ row.along = {} /\ row.rels = F!NoWith /\ DOMAIN row.columns = columns
            /\ table = "books" => \A c \in columns : row.columns[c] = "value"
<1> DEFINE record == F!Record(table, columns, along)
           row == F!mapRowToTs(record)
           stored == F!StoredAs(table, columns)
<1>1. record = [columns |-> stored, along |-> along, rels |-> F!NoWith, strip |-> FALSE]
  BY DEF F!Record
<1>2. DOMAIN stored = columns
  BY DEF F!StoredAs
<1>3. table = "books" => \A c \in columns : stored[c] = IF c \in F!Parsed THEN "text" ELSE "value"
  BY DEF F!StoredAs
<1> DEFINE Fine == /\ IsRow(row) /\ row.along = {} /\ row.rels = F!NoWith /\ DOMAIN row.columns = columns
                   /\ table = "books" => \A c \in columns : row.columns[c] = "value"
<1>4. ASSUME F!canReuseDriverRow(record) PROVE Fine
  <2>1. along = {} /\ columns \cap F!Parsed = {}
    BY <1>1, <1>2, <1>4 DEF F!canReuseDriverRow
  <2>2. row = record
    BY <1>4 DEF F!mapRowToTs
  <2> HIDE DEF record, row, stored
  <2>3. Fine
    BY <1>1, <1>2, <1>3, <2>1, <2>2 DEF IsRow
  <2> QED BY <2>3
<1>5. ASSUME ~F!canReuseDriverRow(record) PROVE Fine
  <2> DEFINE values == [c \in columns |-> IF stored[c] = "text" THEN "value" ELSE stored[c]]
  <2>1. row = [columns |-> values, along |-> {}, rels |-> F!NoWith, strip |-> TRUE]
    BY <1>1, <1>2, <1>5 DEF F!mapRowToTs
  <2>2. DOMAIN values = columns /\ (table = "books" => \A c \in columns : values[c] = "value")
    BY <1>3
  <2> HIDE DEF record, row, stored, values
  <2>3. Fine
    BY <2>1, <2>2 DEF IsRow
  <2> QED BY <2>3
<1>6. Fine
  BY <1>4, <1>5
<1> QED BY <1>6

LEMMA TargetIs ==
  ASSUME NEW rel, NEW columns
  PROVE  IsRow(F!Target(rel, columns)) /\ DOMAIN F!Target(rel, columns).columns = columns
BY Mapped DEF F!Target

LEMMA AlongRight ==
  ASSUME NEW call, IsCall(call), ~Lost(call), NEW rel \in DOMAIN call.with, rel \notin F!Batched(call), NEW book
  PROVE  LET rows == F!Along(rel, call.with[rel], F!columnsForSelect(rel, call.with[rel].pick), book)
         IN /\ rows # {} <=> F!Matches(call.with[rel], book)
            /\ \A r \in rows : IsRow(r) /\ DOMAIN r.columns = F!Wanted(rel, call.with[rel].pick)
<1> DEFINE spec == call.with[rel]
           columns == F!columnsForSelect(rel, spec.pick)
           rows == F!Along(rel, spec, columns, book)
<1>1. rel \in F!Relations /\ IsSpec(rel, spec)
  BY DEF IsCall
<1>2. columns = F!Wanted(rel, spec.pick) /\ columns # {}
  BY <1>1, TargetColumnsRight DEF IsSpec
<1>3. ~(rel = "writer" /\ \A c \in columns : F!StoredAs(rel, columns)[c] = "null")
  <2> SUFFICES ASSUME rel = "writer", \A c \in columns : F!StoredAs(rel, columns)[c] = "null" PROVE FALSE
    OBVIOUS
  <2>1. \A c \in columns : c = "name" /\ blank
    BY DEF F!StoredAs
  <2>2. blank /\ columns = {"name"}
    BY <1>2, <2>1
  <2> QED BY <2>2 DEF Lost
<1>4. rows = IF F!Matches(spec, book) THEN {F!Target(rel, columns)} ELSE {}
  BY <1>3 DEF F!Along
<1> QED BY <1>2, <1>4, TargetIs

\* The rows of the main query, by the text of the call's own arguments.
LEMMA QueryRight ==
  ASSUME NEW call, IsCall(call), ~Lost(call)
  PROVE  LET query == QueryFor(call)
         IN /\ query.own = F!columnsForOutput("books", F!resolveParentProjection(call).sqlColumns, call.own.hidden)
            /\ query.along = F!ExtraColumns(call) /\ query.where = F!Where(call) /\ query.one = F!One(call)
<1>1. (call.own.hidden /\ ~F!Inline(call)) <=> call.own.hidden
  BY DEF Lost
<1>2. \A columns : F!columnsForOutput("books", columns, call.own.hidden /\ ~F!Inline(call)) = F!columnsForOutput("books", columns, call.own.hidden)
  BY <1>1 DEF F!columnsForOutput
<1> QED BY <1>2 DEF QueryFor, F!BuildQuery

LEMMA HydratedRight ==
  ASSUME NEW call, IsCall(call), ~Lost(call), NEW book
  PROVE  LET row == F!hydrateRowsWithPlan(call, QueryFor(call), book)
         IN /\ IsRow(row) /\ row.along = {} /\ DOMAIN row.columns = QueryFor(call).own
            /\ \A c \in DOMAIN row.columns : row.columns[c] = "value"
            /\ DOMAIN row.rels = DOMAIN call.with \ F!Batched(call)
            /\ \A rel \in DOMAIN row.rels :
                 /\ row.rels[rel] # {} <=> F!Matches(call.with[rel], book)
                 /\ \A r \in row.rels[rel] : IsRow(r) /\ DOMAIN r.columns = F!Wanted(rel, call.with[rel].pick)
<1> DEFINE query == QueryFor(call)
           along == F!ExtraColumns(call)
           mapped == F!mapRowToTs(F!Record("books", query.own, DOMAIN along))
           rels == [rel \in DOMAIN call.with \ F!Batched(call) |-> F!Along(rel, call.with[rel], F!columnsForSelect(rel, call.with[rel].pick), book)]
           row == F!hydrateRowsWithPlan(call, query, book)
<1>1. DOMAIN along = DOMAIN call.with \ F!Batched(call)
  BY DEF F!ExtraColumns
<1>2. \A rel \in DOMAIN along : along[rel] = F!columnsForSelect(rel, call.with[rel].pick)
  BY DEF F!ExtraColumns
<1>3. query.along = along
  BY QueryRight
<1>4. [rel \in DOMAIN along |-> F!Along(rel, call.with[rel], along[rel], book)] = rels
  BY <1>1, <1>2
<1>5. IsRow(mapped) /\ mapped.along = {} /\ DOMAIN mapped.columns = query.own /\ \A c \in query.own : mapped.columns[c] = "value"
  BY Mapped
<1>6. row = [mapped EXCEPT !.rels = [rel \in DOMAIN along |-> F!Along(rel, call.with[rel], along[rel], book)], !.strip = FALSE]
  BY <1>3 DEF F!hydrateRowsWithPlan
<1>7. \A rel \in DOMAIN rels :
        /\ rels[rel] # {} <=> F!Matches(call.with[rel], book)
        /\ \A r \in rels[rel] : IsRow(r) /\ DOMAIN r.columns = F!Wanted(rel, call.with[rel].pick)
  BY AlongRight
<1> HIDE DEF query, along, mapped, rels, row
<1>8. row = [columns |-> mapped.columns, along |-> mapped.along, rels |-> rels, strip |-> FALSE]
  BY <1>4, <1>5, <1>6 DEF IsRow
<1>9. DOMAIN rels = DOMAIN call.with \ F!Batched(call)
  BY DEF rels
<1>10. IsRow(row) /\ row.columns = mapped.columns /\ row.along = mapped.along /\ row.rels = rels
  BY <1>8 DEF IsRow
<1>11. /\ IsRow(row) /\ row.along = {} /\ DOMAIN row.columns = query.own
       /\ \A c \in DOMAIN row.columns : row.columns[c] = "value"
       /\ DOMAIN row.rels = DOMAIN call.with \ F!Batched(call)
       /\ \A rel \in DOMAIN row.rels :
                 /\ row.rels[rel] # {} <=> F!Matches(call.with[rel], book)
                 /\ \A r \in row.rels[rel] : IsRow(r) /\ DOMAIN r.columns = F!Wanted(rel, call.with[rel].pick)
  BY <1>5, <1>7, <1>9, <1>10
<1> QED BY <1>11 DEF row, query

\* What is left of a row whose SQL selected at least what was asked.
LEMMA Projected ==
  ASSUME NEW call, IsCall(call), ~F!resolveParentProjection(call).refused, NEW row, IsRow(row), row.along = {},
         DOMAIN row.columns = F!columnsForOutput("books", F!resolveParentProjection(call).sqlColumns, call.own.hidden),
         \A c \in DOMAIN row.columns : row.columns[c] = "value",
         DOMAIN row.rels \subseteq DOMAIN call.with
  PROVE  LET kept == F!projectFindRows(row, call)
         IN /\ IsRow(kept) /\ OwnRight(call, kept, {})
            /\ DOMAIN kept.rels = DOMAIN row.rels /\ \A rel \in DOMAIN row.rels : kept.rels[rel] = row.rels[rel]
<1> DEFINE projection == F!resolveParentProjection(call)
           own == F!columnsForOutput("books", projection.sqlColumns, call.own.hidden)
           kept == F!projectFindRows(row, call)
           Fine == /\ IsRow(kept) /\ OwnRight(call, kept, {})
                   /\ DOMAIN kept.rels = DOMAIN row.rels /\ \A rel \in DOMAIN row.rels : kept.rels[rel] = row.rels[rel]
<1>1. IF projection.has THEN projection.requested = F!Wanted("books", call.own) /\ projection.requested \subseteq own
                        ELSE own = F!Wanted("books", call.own)
  BY OwnColumnsRight
<1>2. ASSUME ~projection.has PROVE Fine
  <2>1. kept = row
    BY <1>2 DEF F!projectFindRows
  <2> HIDE DEF kept
  <2> QED BY <1>1, <1>2, <2>1 DEF OwnRight
<1>3. ASSUME projection.has PROVE Fine
  <2> DEFINE columns == [c \in DOMAIN row.columns \cap projection.requested |-> row.columns[c]]
             rels == [rel \in DOMAIN row.rels \cap DOMAIN call.with |-> row.rels[rel]]
  <2>1. kept = [row EXCEPT !.columns = columns, !.rels = rels, !.strip = FALSE]
    BY <1>3 DEF F!projectFindRows, F!applyParentProjection
  <2>2. /\ DOMAIN columns = F!Wanted("books", call.own) /\ \A c \in DOMAIN columns : columns[c] = "value"
        /\ DOMAIN rels = DOMAIN row.rels /\ \A rel \in DOMAIN row.rels : rels[rel] = row.rels[rel]
    BY <1>1, <1>3
  <2> HIDE DEF kept, columns, rels
  <2>3. kept = [columns |-> columns, along |-> row.along, rels |-> rels, strip |-> FALSE]
    BY <2>1 DEF IsRow
  <2> QED BY <2>2, <2>3 DEF IsRow, OwnRight
<1>4. Fine
  BY <1>2, <1>3
<1> QED BY <1>4

LEMMA FetchedRight ==
  ASSUME NEW call, IsCall(call), ~Lost(call), NEW rows, NEW book \in DOMAIN rows,
         \A b \in DOMAIN rows : /\ "id" \in DOMAIN rows[b].columns
                                /\ "writer" \in DOMAIN call.with => "writerId" \in DOMAIN rows[b].columns
  PROVE  LET also == F!Fetched(call, rows, book)
         IN /\ DOMAIN also \subseteq F!Batched(call)
            /\ \A rel \in F!Batched(call) :
                 /\ rel \in DOMAIN also /\ also[rel] # {} <=> F!Matches(call.with[rel], book)
                 /\ rel \in DOMAIN also =>
                      \A r \in also[rel] : IsRow(r) /\ DOMAIN r.columns = F!Wanted(rel, call.with[rel].pick)
<1> DEFINE also == F!Fetched(call, rows, book)
           columns(rel) == F!columnsForSelect(rel, call.with[rel].pick)
           looksUp(rel) == rel # "writer" \/ \E b \in DOMAIN rows : b = 1 /\ "writerId" \in DOMAIN rows[b].columns
           value(rel) == IF ~F!Matches(call.with[rel], book) \/ (rel = "writer" /\ "id" \notin columns(rel)) \/ "id" \notin DOMAIN rows[book].columns
                         THEN {} ELSE {F!Target(rel, columns(rel))}
<1>1. also = [rel \in {r \in F!Batched(call) : looksUp(r)} |-> value(rel)]
  BY DEF F!Fetched
<1>2. F!Batched(call) \subseteq DOMAIN call.with
  BY DEF F!Batched
<1>3. \A rel \in DOMAIN also : rel \in F!Batched(call) /\ also[rel] = value(rel)
  BY <1>1
<1>4. ASSUME NEW rel \in F!Batched(call)
      PROVE  /\ value(rel) = IF F!Matches(call.with[rel], book) THEN {F!Target(rel, columns(rel))} ELSE {}
             /\ columns(rel) = F!Wanted(rel, call.with[rel].pick)
             /\ F!Matches(call.with[rel], book) => rel \in DOMAIN also
  <2>1. rel \in F!Relations /\ IsSpec(rel, call.with[rel])
    BY <1>2 DEF IsCall
  <2>2. columns(rel) = F!Wanted(rel, call.with[rel].pick)
    BY <2>1, TargetColumnsRight
  <2>3. ~(rel = "writer" /\ "id" \notin columns(rel))
    BY <1>2 DEF Lost
  <2>4. F!Matches(call.with[rel], book) => looksUp(rel)
    BY <1>2 DEF F!Matches
  <2> QED BY <1>1, <2>2, <2>3, <2>4
<1>5. ASSUME NEW rel \in F!Batched(call)
      PROVE  /\ rel \in DOMAIN also /\ also[rel] # {} <=> F!Matches(call.with[rel], book)
             /\ rel \in DOMAIN also =>
                  \A r \in also[rel] : IsRow(r) /\ DOMAIN r.columns = F!Wanted(rel, call.with[rel].pick)
  <2>1. IsRow(F!Target(rel, columns(rel))) /\ DOMAIN F!Target(rel, columns(rel)).columns = columns(rel)
    BY TargetIs
  <2> HIDE DEF also, value, columns, looksUp
  <2>2. /\ rel \in DOMAIN also => also[rel] = IF F!Matches(call.with[rel], book) THEN {F!Target(rel, columns(rel))} ELSE {}
        /\ columns(rel) = F!Wanted(rel, call.with[rel].pick)
        /\ F!Matches(call.with[rel], book) => rel \in DOMAIN also
    BY <1>3, <1>4
  <2> QED BY <2>1, <2>2
<1> QED BY <1>3, <1>5

\* Every row of a read is the one that was asked for.
LEMMA RowsRight ==
  ASSUME NEW call, IsCall(call), ~Lost(call), ~F!resolveParentProjection(call).refused, NEW found
  PROVE  LET rows == F!RowsOf(call, QueryFor(call), found)
         IN DOMAIN rows = found /\ \A book \in found : RightRow(call, rows[book], book, {})
<1> DEFINE query == QueryFor(call)
           rows == F!RowsOf(call, query, found)
           own == F!columnsForOutput("books", F!resolveParentProjection(call).sqlColumns, call.own.hidden)
<1>1. query.own = own
  BY QueryRight
<1>2. ASSUME DOMAIN call.with = {} PROVE DOMAIN rows = found /\ \A book \in found : RightRow(call, rows[book], book, {})
  <2> DEFINE row == F!mapRowToTs(F!Record("books", query.own, {}))
  <2>1. rows = [book \in found |-> F!projectFindRows(row, call)]
    BY <1>2 DEF F!RowsOf
  <2>2. IsRow(row) /\ row.along = {} /\ DOMAIN row.columns = own /\ (\A c \in own : row.columns[c] = "value") /\ row.rels = F!NoWith
    BY <1>1, Mapped
  <2>3. DOMAIN row.rels = {}
    BY <2>2 DEF F!NoWith
  <2> HIDE DEF row
  <2>4. /\ IsRow(F!projectFindRows(row, call)) /\ OwnRight(call, F!projectFindRows(row, call), {})
        /\ DOMAIN F!projectFindRows(row, call).rels = {}
    BY <2>2, <2>3, Projected
  <2>5. ASSUME NEW book \in found PROVE RightRow(call, F!projectFindRows(row, call), book, {})
    BY <1>2, <2>4 DEF RightRow, RelationsRight
  <2> QED BY <2>1, <2>5
<1>3. ASSUME DOMAIN call.with # {} PROVE DOMAIN rows = found /\ \A book \in found : RightRow(call, rows[book], book, {})
  <2> DEFINE main == [book \in found |-> F!hydrateRowsWithPlan(call, query, book)]
             full(book) == [main[book] EXCEPT !.rels = F!Merge(@, F!Fetched(call, main, book))]
  <2>1. rows = [book \in found |-> F!projectFindRows(full(book), call)]
    BY <1>3 DEF F!RowsOf
  <2>2. "id" \in own /\ ("writer" \in DOMAIN call.with => "writerId" \in own)
    BY <1>3, OwnColumnsRight
  <2>3. ASSUME NEW book \in found PROVE RightRow(call, F!projectFindRows(full(book), call), book, {})
    <3> DEFINE row == main[book]
               also == F!Fetched(call, main, book)
    <3>1. \A b \in found : DOMAIN main[b].columns = own
      BY <1>1, HydratedRight
    <3>2. /\ DOMAIN also \subseteq F!Batched(call)
          /\ \A rel \in F!Batched(call) :
                 /\ rel \in DOMAIN also /\ also[rel] # {} <=> F!Matches(call.with[rel], book)
                 /\ rel \in DOMAIN also =>
                      \A r \in also[rel] : IsRow(r) /\ DOMAIN r.columns = F!Wanted(rel, call.with[rel].pick)
      <4>1. DOMAIN main = found
        OBVIOUS
      <4> HIDE DEF main
      <4> QED BY <2>2, <3>1, <4>1, FetchedRight
    <3>3. /\ IsRow(row) /\ row.along = {} /\ DOMAIN row.columns = own
          /\ \A c \in DOMAIN row.columns : row.columns[c] = "value"
          /\ DOMAIN row.rels = DOMAIN call.with \ F!Batched(call)
          /\ \A rel \in DOMAIN row.rels :
                 /\ row.rels[rel] # {} <=> F!Matches(call.with[rel], book)
                 /\ \A r \in row.rels[rel] : IsRow(r) /\ DOMAIN r.columns = F!Wanted(rel, call.with[rel].pick)
      <4>1. row = F!hydrateRowsWithPlan(call, query, book)
        OBVIOUS
      <4> HIDE DEF row
      <4> QED BY <1>1, <4>1, HydratedRight
    <3> DEFINE merged == F!Merge(row.rels, also)
    <3>4. full(book) = [row EXCEPT !.rels = merged]
      OBVIOUS
    <3>5. /\ DOMAIN merged = DOMAIN row.rels \cup DOMAIN also
          /\ \A rel \in DOMAIN merged : merged[rel] = IF rel \in DOMAIN row.rels THEN row.rels[rel] ELSE also[rel]
      BY DEF F!Merge
    <3>6. F!Batched(call) \subseteq DOMAIN call.with
      BY DEF F!Batched
    <3> HIDE DEF main, row, also, merged, full
    <3>7. full(book) = [columns |-> row.columns, along |-> row.along, rels |-> merged, strip |-> row.strip]
      BY <3>3, <3>4 DEF IsRow
    <3> DEFINE whole == full(book)
               kept == F!projectFindRows(whole, call)
    <3>8. /\ IsRow(whole) /\ whole.along = {} /\ DOMAIN whole.columns = own /\ whole.rels = merged
          /\ \A c \in DOMAIN whole.columns : whole.columns[c] = "value"
      BY <3>3, <3>7 DEF IsRow
    <3>9. DOMAIN merged \subseteq DOMAIN call.with
      BY <3>2, <3>3, <3>5, <3>6
    <3> HIDE DEF whole
    <3>10. /\ IsRow(kept) /\ OwnRight(call, kept, {})
           /\ DOMAIN kept.rels = DOMAIN merged /\ \A rel \in DOMAIN merged : kept.rels[rel] = merged[rel]
      BY <3>8, <3>9, Projected
    <3> HIDE DEF kept
    <3>11. ASSUME NEW rel \in DOMAIN call.with
           PROVE  rel \in DOMAIN kept.rels /\ kept.rels[rel] # {} <=> F!Matches(call.with[rel], book)
      <4>1. CASE rel \in F!Batched(call)
        BY <3>2, <3>3, <3>5, <3>10, <4>1
      <4>2. CASE rel \notin F!Batched(call)
        BY <3>2, <3>3, <3>5, <3>10, <4>2
      <4> QED BY <4>1, <4>2
    <3>12. ASSUME NEW rel \in DOMAIN kept.rels, NEW r \in kept.rels[rel]
           PROVE  IsRow(r) /\ DOMAIN r.columns = F!Wanted(rel, call.with[rel].pick)
      BY <3>2, <3>3, <3>5, <3>10
    <3>13. RightRow(call, kept, book, {})
      BY <3>9, <3>10, <3>11, <3>12 DEF RightRow, RelationsRight
    <3> QED BY <3>13 DEF kept, whole
  <2> QED BY <2>1, <2>3
<1> QED BY <1>2, <1>3
---------------------------------------------------------------------------
(* What is kept under a signature. *)

\* Calls with the same signature have the same text.
LEMMA SameQuery ==
  ASSUME NEW a, NEW b, F!Signature(a) = F!Signature(b)
  PROVE  QueryFor(a) = QueryFor(b)
<1> DEFINE columns(call) == F!resolveParentProjection(call).sqlColumns
           hidden(call) == call.own.hidden /\ ~F!Inline(call)
           path(call) == IF call.op = "findById" THEN (IF DOMAIN call.with = {} THEN "byId" ELSE IF F!Inline(call) THEN "byIdWith" ELSE "where") ELSE "where"
<1>1. \A call : F!Signature(call) = [path |-> path(call), where |-> F!Where(call), one |-> F!One(call), with |-> call.with,
                                   aggregated |-> F!Aggregated(call), columns |-> F!projectionSignature(columns(call), hidden(call))]
  BY DEF F!Signature
<1>2. \A call : QueryFor(call) = [own |-> F!columnsForOutput("books", columns(call), hidden(call)), along |-> F!ExtraColumns(call),
                                  where |-> F!Where(call), one |-> F!One(call)]
  BY DEF QueryFor, F!BuildQuery
<1> HIDE DEF columns, hidden, path
<1>3. /\ F!Where(a) = F!Where(b) /\ F!One(a) = F!One(b) /\ a.with = b.with
      /\ F!projectionSignature(columns(a), hidden(a)) = F!projectionSignature(columns(b), hidden(b))
  BY <1>1
<1>4. columns(a) = columns(b) /\ (columns(a) = {} => (hidden(a) <=> hidden(b)))
  BY <1>3 DEF F!projectionSignature
<1>5. F!columnsForOutput("books", columns(a), hidden(a)) = F!columnsForOutput("books", columns(b), hidden(b))
  BY <1>4 DEF F!columnsForOutput
<1>6. F!Batched(a) = F!Batched(b)
  BY <1>3 DEF F!Batched
<1>7. F!ExtraColumns(a) = F!ExtraColumns(b)
  BY <1>3, <1>6 DEF F!ExtraColumns
<1> QED BY <1>2, <1>3, <1>5, <1>7

\* The text under a signature is that of a call with it.
CacheRight == \A key \in DOMAIN cache : \E call \in F!Calls : F!Signature(call) = key /\ cache[key] = QueryFor(call)

LEMMA CachedIsBuilt == ASSUME CacheRight, NEW call \in F!Calls PROVE F!QueryOf(call) = QueryFor(call)
<1>1. CASE F!Kept(call) /\ F!Signature(call) \in DOMAIN cache
  <2>1. PICK other \in F!Calls : F!Signature(other) = F!Signature(call) /\ cache[F!Signature(call)] = QueryFor(other)
    BY <1>1 DEF CacheRight
  <2>2. QueryFor(other) = QueryFor(call)
    BY <2>1, SameQuery
  <2> QED BY <1>1, <2>1, <2>2 DEF F!QueryOf
<1>2. CASE ~(F!Kept(call) /\ F!Signature(call) \in DOMAIN cache)
  BY <1>2 DEF F!QueryOf, QueryFor
<1> QED BY <1>1, <1>2
---------------------------------------------------------------------------
(* The invariant. *)

AnswerRight ==
  answer # None =>
    /\ IsCall(asked)
    /\ ~Lost(asked) =>
         /\ asked.op = "findMany" => DOMAIN answer = F!Books
         /\ asked.op \in {"findById", "findUnique"} => DOMAIN answer = {1}
         /\ \A book \in DOMAIN answer : RightRow(asked, answer[book], book, F!Taken)
ReadIsRight == CacheRight /\ AnswerRight

LEMMA ReadStarts == F!Init => ReadIsRight
BY DEF F!Init, ReadIsRight, CacheRight, AnswerRight

LEMMA ReadIsAnswered == ReadIsRight => F!AnswersWhatWasAsked
<1> SUFFICES ASSUME ReadIsRight, answer # None, ~F!HiddenIsLost, ~F!RowIsLost, ~F!PredicateIsLost PROVE F!AnswersWhatWasAsked
  BY DEF F!AnswersWhatWasAsked
<1>1. ~Lost(asked)
  BY DEF F!HiddenIsLost, F!RowIsLost, F!PredicateIsLost, Lost
<1>2. /\ asked.op = "findMany" => DOMAIN answer = F!Books
      /\ asked.op \in {"findById", "findUnique"} => DOMAIN answer = {1}
      /\ \A book \in DOMAIN answer : RightRow(asked, answer[book], book, F!Taken)
  BY <1>1 DEF ReadIsRight, AnswerRight
<1>3. ASSUME NEW book \in DOMAIN answer
      PROVE  OwnRight(asked, answer[book], F!Taken) /\ RelationsRight(asked, answer[book], book, F!Taken)
  BY <1>2 DEF RightRow
<1> QED BY <1>2, <1>3 DEF F!AnswersWhatWasAsked, OwnRight, RelationsRight

\* The rows of the books found are as many as asked for.
LEMMA FoundRight ==
  ASSUME NEW call, ~Lost(call), NEW found,
         IF F!One(call) THEN \E book \in F!Selected(F!Where(call)) : found = {book} ELSE found = F!Selected(F!Where(call))
  PROVE  /\ call.op = "findMany" => found = F!Books
         /\ call.op \in {"findById", "findUnique"} => found = {1}
<1>1. CASE call.op = "findMany"
  BY <1>1 DEF F!One, F!Where, F!Selected
<1>2. CASE call.op \in {"findById", "findUnique"}
  <2>1. F!Selected(F!Where(call)) = {1}
    BY <1>2 DEF Lost, F!Where, F!Selected
  <2>2. \E book \in {1} : found = {book}
    BY <1>2, <2>1 DEF F!One
  <2> QED BY <1>2, <2>2
<1> QED BY <1>1, <1>2

\* Neither the dialect nor the rows of the database change.
SameData == dialect' = dialect /\ blank' = blank

LEMMA BatchedSame == ASSUME SameData, NEW call PROVE F!Batched(call)' = F!Batched(call)
BY DEF SameData, F!Batched

LEMMA CallsSame ==
  ASSUME SameData, NEW call
  PROVE  /\ F!Signature(call)' = F!Signature(call) /\ QueryFor(call)' = QueryFor(call)
         /\ Lost(call)' <=> Lost(call)
<1>1. F!Batched(call)' = F!Batched(call) /\ (F!Aggregated(call)' <=> F!Aggregated(call))
  BY BatchedSame DEF F!Aggregated, SameData
<1>2. (F!needsQualifiedRefs(call)' <=> F!needsQualifiedRefs(call)) /\ (F!Inline(call)' <=> F!Inline(call))
  BY <1>1 DEF F!needsQualifiedRefs, F!Inline
<1>3. F!Where(call)' = F!Where(call) /\ F!ExtraColumns(call)' = F!ExtraColumns(call)
  BY <1>1, <1>2 DEF F!Where, F!ExtraColumns
<1>4. F!Signature(call)' = F!Signature(call)
  <2> DEFINE columns == F!projectionSignature(F!resolveParentProjection(call).sqlColumns, call.own.hidden /\ ~F!Inline(call))
             path == IF call.op = "findById" THEN (IF DOMAIN call.with = {} THEN "byId" ELSE IF F!Inline(call) THEN "byIdWith" ELSE "where") ELSE "where"
             aggregated == F!Aggregated(call)
             signature == [path |-> path, where |-> F!Where(call), one |-> F!One(call), with |-> call.with, aggregated |-> aggregated, columns |-> columns]
  <2>1. columns' = columns /\ path' = path
    BY <1>2 DEF F!projectionSignature
  <2>2. aggregated' = aggregated
    BY DEF SameData, F!Aggregated
  <2>3. F!Signature(call) = signature /\ F!Signature(call)' = signature'
    BY DEF F!Signature
  <2> HIDE DEF columns, path, aggregated
  <2>4. signature' = signature
    BY <1>3, <2>1, <2>2
  <2> QED BY <2>3, <2>4
<1>5. QueryFor(call)' = QueryFor(call)
  BY <1>1, <1>2, <1>3 DEF QueryFor, F!BuildQuery
<1>6. Lost(call)' <=> Lost(call)
  BY <1>1, <1>2 DEF Lost, SameData
<1> QED BY <1>4, <1>5, <1>6

\* The call that is answered next, and the rows it is answered with.
LEMMA LostLater == ASSUME SameData, NEW call, asked' = call PROVE Lost(asked)' <=> Lost(call)
<1>1. F!Batched(asked)' = F!Batched(call) /\ (F!Aggregated(asked)' <=> F!Aggregated(call))
  BY DEF F!Batched, F!Aggregated, SameData
<1>2. (F!needsQualifiedRefs(asked)' <=> F!needsQualifiedRefs(call)) /\ (F!Inline(asked)' <=> F!Inline(call))
  BY <1>1 DEF F!needsQualifiedRefs, F!Inline
<1> QED BY <1>1, <1>2 DEF Lost, SameData

LEMMA RightLater ==
  ASSUME SameData, NEW call, NEW row, NEW book, NEW taken, asked' = call, answer'[book] = row, F!Taken' = taken,
         RightRow(call, row, book, taken)
  PROVE  RightRow(asked, answer[book], book, F!Taken)'
BY DEF RightRow, OwnRight, RelationsRight, F!Matches, SameData

LEMMA CacheLater ==
  ASSUME CacheRight, SameData, NEW call \in F!Calls,
         \/ UNCHANGED cache
         \/ cache' = [key \in DOMAIN cache \cup {F!Signature(call)} |-> IF key \in DOMAIN cache THEN cache[key] ELSE QueryFor(call)]
  PROVE  CacheRight'
<1> SUFFICES ASSUME NEW key \in DOMAIN cache'
             PROVE  \E other \in F!Calls : F!Signature(other)' = key /\ cache'[key] = QueryFor(other)'
  BY DEF CacheRight
<1>1. \E other \in F!Calls : F!Signature(other) = key /\ cache'[key] = QueryFor(other)
  <2>1. CASE key \in DOMAIN cache
    BY <2>1 DEF CacheRight
  <2>2. CASE key \notin DOMAIN cache
    BY <2>2
  <2> QED BY <2>1, <2>2
<1> QED BY <1>1, CallsSame

LEMMA FindRight == ASSUME ReadIsRight, NEW call \in F!Calls, F!Find(call) PROVE ReadIsRight'
<1>1. SameData /\ asked' = call /\ F!Taken' = {} /\ IsCall(call) /\ CacheRight
  BY CallsFit DEF F!Find, SameData, F!Taken, ReadIsRight
<1>2. CASE F!resolveParentProjection(call).refused
  <2>1. answer' = None /\ UNCHANGED cache
    BY <1>2 DEF F!Find
  <2> QED BY <1>1, <2>1, CacheLater DEF ReadIsRight, AnswerRight
<1>3. CASE ~F!resolveParentProjection(call).refused
  <2> DEFINE query == QueryFor(call)
  <2>1. F!QueryOf(call) = query
    BY <1>1, CachedIsBuilt
  <2>2. /\ cache' = IF F!Kept(call) THEN [key \in DOMAIN cache \cup {F!Signature(call)} |->
                                         IF key \in DOMAIN cache THEN cache[key] ELSE query]
                    ELSE cache
        /\ \E found \in IF query.one THEN {{book} : book \in F!Selected(query.where)} ELSE {F!Selected(query.where)} :
             answer' = F!RowsOf(call, query, found)
    BY <1>3, <2>1 DEF F!Find
  <2>3. query.where = F!Where(call) /\ query.one = F!One(call)
    BY DEF QueryFor, F!BuildQuery
  <2> HIDE DEF query
  <2>4. CacheRight'
    BY <1>1, <2>2, CacheLater DEF query
  <2>5. PICK found :
           /\ IF F!One(call) THEN \E book \in F!Selected(F!Where(call)) : found = {book} ELSE found = F!Selected(F!Where(call))
           /\ answer' = F!RowsOf(call, query, found)
    BY <2>2, <2>3
  <2>6. SUFFICES ASSUME ~Lost(call)
                 PROVE  /\ call.op = "findMany" => DOMAIN answer' = F!Books
                        /\ call.op \in {"findById", "findUnique"} => DOMAIN answer' = {1}
                        /\ \A book \in DOMAIN answer' : RightRow(asked, answer[book], book, F!Taken)'
    BY <1>1, <2>4, LostLater DEF ReadIsRight, AnswerRight
  <2>7. DOMAIN answer' = found /\ \A book \in found : RightRow(call, answer'[book], book, {})
    BY <1>1, <1>3, <2>5, <2>6, RowsRight DEF query
  <2>8. ASSUME NEW book \in found PROVE RightRow(asked, answer[book], book, F!Taken)'
    BY <1>1, <2>7, RightLater
  <2> QED BY <2>5, <2>6, <2>7, <2>8, FoundRight
<1> QED BY <1>2, <1>3

LEMMA LessRight ==
  ASSUME NEW r, IsRow(r), NEW k
  PROVE  LET less == [r EXCEPT !.columns = [c \in DOMAIN r.columns \ k |-> r.columns[c]], !.strip = FALSE]
         IN /\ IsRow(less) /\ less.along = r.along /\ less.rels = r.rels /\ DOMAIN less.columns = DOMAIN r.columns \ k
            /\ \A c \in DOMAIN less.columns : less.columns[c] = r.columns[c]
<1> DEFINE columns == [c \in DOMAIN r.columns \ k |-> r.columns[c]]
           less == [r EXCEPT !.columns = columns, !.strip = FALSE]
           Fine == /\ IsRow(less) /\ less.along = r.along /\ less.rels = r.rels /\ DOMAIN less.columns = DOMAIN r.columns \ k
                   /\ \A c \in DOMAIN less.columns : less.columns[c] = r.columns[c]
<1>1. DOMAIN columns = DOMAIN r.columns \ k /\ \A c \in DOMAIN columns : columns[c] = r.columns[c]
  OBVIOUS
<1>2. less = [r EXCEPT !.columns = columns, !.strip = FALSE]
  OBVIOUS
<1> HIDE DEF columns, less
<1>3. less = [columns |-> columns, along |-> r.along, rels |-> r.rels, strip |-> FALSE]
  BY <1>2 DEF IsRow
<1>4. Fine
  BY <1>1, <1>3 DEF IsRow
<1> QED BY <1>4 DEF less, columns

\* A row without the columns stripped.
LEMMA StrippedRight ==
  ASSUME NEW call, NEW row, NEW book, RightRow(call, row, book, {}), NEW keys
  PROVE  RightRow(call, F!stripRow(row, keys), book, keys \cup F!Hidden)
<1> DEFINE less(r, k) == [r EXCEPT !.columns = [c \in DOMAIN r.columns \ k |-> r.columns[c]], !.strip = FALSE]
           own == less(row, F!Hidden \cup keys)
           rels == [rel \in DOMAIN row.rels |-> {less(r, F!Hidden) : r \in row.rels[rel]}]
           stripped == F!stripRow(row, keys)
<1>1. stripped = [own EXCEPT !.rels = rels]
  BY DEF F!stripRow
<1>2. IsRow(row) /\ OwnRight(call, row, {}) /\ RelationsRight(call, row, book, {})
  BY DEF RightRow
<1>3. \A r, k : IsRow(r) => /\ IsRow(less(r, k)) /\ less(r, k).along = r.along /\ less(r, k).rels = r.rels
                            /\ DOMAIN less(r, k).columns = DOMAIN r.columns \ k
                            /\ \A c \in DOMAIN less(r, k).columns : less(r, k).columns[c] = r.columns[c]
  BY LessRight
<1> HIDE DEF less
<1>4. /\ IsRow(own) /\ own.along = {} /\ DOMAIN own.columns = F!Wanted("books", call.own) \ (keys \cup F!Hidden)
      /\ \A c \in DOMAIN own.columns : own.columns[c] = "value"
  BY <1>2, <1>3 DEF OwnRight
<1>5. DOMAIN rels = DOMAIN row.rels /\ \A rel \in DOMAIN rels : rels[rel] # {} <=> row.rels[rel] # {}
  OBVIOUS
<1>6. ASSUME NEW rel \in DOMAIN rels, NEW r \in rels[rel]
      PROVE  IsRow(r) /\ DOMAIN r.columns = F!Wanted(rel, call.with[rel].pick) \ ((keys \cup F!Hidden) \cap F!Hidden)
  <2>1. PICK s \in row.rels[rel] : r = less(s, F!Hidden)
    BY <1>6
  <2>2. IsRow(s) /\ DOMAIN s.columns = F!Wanted(rel, call.with[rel].pick)
    BY <1>2, <1>5, <2>1 DEF RelationsRight
  <2> QED BY <1>3, <2>1, <2>2
<1> HIDE DEF own, rels, stripped
<1>7. stripped = [columns |-> own.columns, along |-> own.along, rels |-> rels, strip |-> own.strip]
  BY <1>1, <1>4 DEF IsRow
<1>8. /\ IsRow(stripped) /\ stripped.along = {} /\ stripped.columns = own.columns /\ stripped.rels = rels
  BY <1>4, <1>7 DEF IsRow
<1>9. OwnRight(call, stripped, keys \cup F!Hidden)
  BY <1>4, <1>8 DEF OwnRight
<1>10. RelationsRight(call, stripped, book, keys \cup F!Hidden)
  BY <1>2, <1>5, <1>6, <1>8 DEF RelationsRight
<1>11. RightRow(call, stripped, book, keys \cup F!Hidden)
  BY <1>8, <1>9, <1>10 DEF RightRow
<1> QED BY <1>11 DEF stripped

LEMMA StripRight == ASSUME F!WellFormed, ReadIsRight, NEW keys \in F!StripKeys, F!Strip(keys) PROVE ReadIsRight'

<1>1. SameData /\ UNCHANGED <<cache, asked>> /\ answer # None /\ without = None /\ without' = keys
  BY DEF F!Strip, SameData
<1>2. F!Taken = {} /\ F!Taken' = keys \cup F!Hidden
  BY <1>1 DEF F!Taken, F!WellFormed
<1>3. answer' = [book \in DOMAIN answer |-> F!stripRow(answer[book], keys)]
  BY DEF F!Strip
<1>4. CacheRight'
  BY <1>1, CallsSame DEF ReadIsRight, CacheRight
<1>5. IsCall(asked)
  BY <1>1 DEF ReadIsRight, AnswerRight
<1>6. Lost(asked)' <=> Lost(asked)
  BY <1>1, LostLater
<1>7. ASSUME ~Lost(asked)
      PROVE  /\ asked.op = "findMany" => DOMAIN answer' = F!Books
             /\ asked.op \in {"findById", "findUnique"} => DOMAIN answer' = {1}
             /\ \A book \in DOMAIN answer' : RightRow(asked, answer[book], book, F!Taken)'
  <2>1. /\ asked.op = "findMany" => DOMAIN answer = F!Books
        /\ asked.op \in {"findById", "findUnique"} => DOMAIN answer = {1}
        /\ \A book \in DOMAIN answer : RightRow(asked, answer[book], book, {})
    BY <1>1, <1>2, <1>7 DEF ReadIsRight, AnswerRight
  <2>2. ASSUME NEW book \in DOMAIN answer PROVE RightRow(asked, answer[book], book, F!Taken)'
    <3>1. RightRow(asked, answer'[book], book, keys \cup F!Hidden)
      BY <1>3, <2>1, StrippedRight
    <3> QED BY <1>1, <1>2, <3>1, RightLater
  <2> QED BY <1>3, <2>1, <2>2
<1> QED BY <1>1, <1>4, <1>5, <1>6, <1>7 DEF ReadIsRight, AnswerRight

LEMMA ReadStaysRight == ASSUME F!WellFormed PROVE ReadIsRight /\ [F!Next]_(F!vars) => ReadIsRight'
<1> SUFFICES ASSUME ReadIsRight, [F!Next]_(F!vars) PROVE ReadIsRight'
  OBVIOUS
<1>1. ASSUME NEW call \in F!Calls, F!Find(call) PROVE ReadIsRight'
  BY <1>1, FindRight
<1>2. ASSUME NEW keys \in F!StripKeys, F!Strip(keys) PROVE ReadIsRight'
  BY <1>2, StripRight
<1>3. CASE UNCHANGED F!vars
  <2>1. SameData /\ UNCHANGED <<cache, asked, answer, without>> /\ F!Taken' = F!Taken
    BY <1>3 DEF F!vars, SameData, F!Taken
  <2>2. CacheRight'
    BY <2>1, CallsSame DEF ReadIsRight, CacheRight
  <2>3. Lost(asked)' <=> Lost(asked)
    BY <2>1, LostLater
  <2>4. \A book : RightRow(asked, answer[book], book, F!Taken) => RightRow(asked, answer[book], book, F!Taken)'
    BY <2>1, RightLater
  <2> QED BY <2>1, <2>2, <2>3, <2>4 DEF ReadIsRight, AnswerRight
<1> QED BY <1>1, <1>2, <1>3 DEF F!Next, F!Finished

ReadsInv == part = "reads" => ReadIsRight

LEMMA ReadsFromTheStart == Init => ReadsInv
<1> SUFFICES ASSUME Init, part = "reads" PROVE ReadIsRight
  BY DEF ReadsInv
<1>1. F!Init
  BY DEF Init
<1> QED BY <1>1, ReadStarts

LEMMA ReadsGoOn == ReadsInv /\ [Next]_<<part, v1, v2, v3, v4, v5, v6, v7, v8, v9, v10, v11, v12, v13, v14>> => ReadsInv'
<1> SUFFICES ASSUME ReadsInv, [Next]_<<part, v1, v2, v3, v4, v5, v6, v7, v8, v9, v10, v11, v12, v13, v14>>,
                    part' = "reads"
             PROVE  ReadIsRight'
  BY DEF ReadsInv
<1>1. part = "reads"
  BY DEF Next, WritesNext, RelationWritesNext, PaginateNext, RelationLoadNext, ManyWritesNext, StudioGridNext,
     AggregatesNext, ReadsNext, Kept
<1>2. ReadIsRight
  BY <1>1 DEF ReadsInv
<1>3. [F!Next]_<<v1, v2, v3, v4, v5, v6, v7>>
  BY <1>1 DEF Next, WritesNext, RelationWritesNext, PaginateNext, RelationLoadNext, ManyWritesNext, StudioGridNext,
     AggregatesNext, ReadsNext
<1>4. [F!Next]_(F!vars)
  BY <1>3 DEF F!vars
<1> QED BY <1>2, <1>4, ReadConstants, ReadStaysRight
---------------------------------------------------------------------------
---------------------------------------------------------------------------
(* Loading: the lemmas are about that part, whose variables these are; what
   is asked for is sought. *)
author == v2
on == v3
label == v4
tagged == v5
plans == v6
sought == v7
plan == v8
read == v9
found == v10
todo == v11
finds == v12
writes == v13
moments == v14
USE DEF author, on, label, tagged, plans, sought, plan, read, found, todo, finds, writes, moments

\* A with object: a shape for each of the relations it names.
IsWith(with) == DOMAIN with \subseteq L!Relations /\ \A rel \in DOMAIN with : with[rel] \in L!Specs

\* What a find is made of: a plan of the same shape, the database of each moment
\* since it began, and of each relation either nothing yet or its rows at one of them.
RelationAnswered(rel) == \E d \in moments : \A p \in Posts : L!Rows(rel, p) = L!Related(rel, plan[rel], p, d)
PlanFits ==
  /\ IsWith(sought) /\ IsWith(plan)
  /\ L!withShapeSignature(plan) = L!withShapeSignature(sought)
MomentsSeen == L!db \in moments /\ \E d \in moments : d[1] = read
RelationsLoaded ==
  /\ todo \subseteq DOMAIN plan
  /\ \A rel \in DOMAIN plan :
       IF rel \in todo THEN \A p \in Posts : found[rel][p] = Unset ELSE RelationAnswered(rel)

LoadIsRight ==
  /\ DOMAIN plans = L!PlanKeys
  /\ \A k \in L!PlanKeys : plans[k] # None => IsWith(plans[k]) /\ L!withShapeSignature(plans[k]) = k
  /\ author \in [Posts -> Labels \cup {None}] /\ read \in [Posts -> Labels \cup {None}]
  /\ DOMAIN found = L!Relations /\ \A rel \in L!Relations : DOMAIN found[rel] = Posts
  /\ IF sought = None THEN todo = {} ELSE PlanFits /\ MomentsSeen /\ RelationsLoaded
---------------------------------------------------------------------------
(* Rows and shapes. *)

LEMMA LeastNumber ==
  ASSUME NEW S \in SUBSET Nat, S # {}
  PROVE  L!Min(S) \in S
<1>1. IsWellFoundedOn({p \in Nat \X Nat : p[1] < p[2]}, Nat)
  BY NatLessThanWellFounded DEF OpToRel
<1>2. PICK n \in S : \A m \in S : <<m, n>> \notin {p \in Nat \X Nat : p[1] < p[2]}
  BY <1>1, WFMin
<1>3. \A m \in S : ~(m < n)
  BY <1>2
<1>4. \A m \in S : n <= m
  BY <1>3
<1> QED BY <1>4 DEF L!Min

\* Related rows are a set of rows, so a relation that was loaded is set.
LEMMA RelatedIsSet ==
  ASSUME L!WellFormed, NEW rel \in L!Relations, NEW spec, NEW p \in Posts, NEW d,
         rel = "author" => d[1][p] \in Labels \cup {None}
  PROVE  L!Related(rel, spec, p, d) # Unset
<1>1. ASSUME NEW rows \in SUBSET Nat, NEW labels PROVE L!Matching(rows, spec, labels) \in SUBSET rows
  <2> DEFINE some == {r \in rows : spec.where \in {Anything, labels[r]}}
  <2>1. some \in SUBSET Nat
    OBVIOUS
  <2>2. L!First(some, spec.take) \in SUBSET some
    BY <2>1, LeastNumber DEF L!First
  <2> QED BY <2>2 DEF L!Matching
<1>2. {c \in Comments : d[2][c] = p} \in SUBSET Nat /\ {t \in Tags : <<p, t>> \in d[4]} \in SUBSET Nat
  BY DEF L!WellFormed
<1>3. L!Matching({c \in Comments : d[2][c] = p}, spec, d[3]) \in SUBSET Comments
  BY <1>1, <1>2
<1>4. L!Matching({t \in Tags : <<p, t>> \in d[4]}, spec, d[3]) \in SUBSET Tags
  BY <1>1, <1>2
<1>5. rel = "author" => L!Related(rel, spec, p, d) \in SUBSET Labels
  BY DEF L!Related
<1> QED BY <1>3, <1>4, <1>5 DEF L!Related, L!Relations, L!WellFormed

LEMMA PlannedWiths == \A with \in L!Withs : IsWith(with) /\ L!withShapeSignature(with) \in L!PlanKeys
<1>1. L!Plain \in L!Specs
  BY DEF L!Plain, L!Specs
<1>2. \A rel \in L!Relations : L!SpecsOf(rel) \subseteq L!Specs
  BY DEF L!SpecsOf
<1>3. \A with \in L!Withs : \/ with = [r \in L!Relations |-> L!Plain]
                         \/ \E rel \in L!Relations : \E spec \in L!SpecsOf(rel) : with = [r \in {rel} |-> spec]
  BY DEF L!Withs
<1>4. ASSUME NEW with \in L!Withs PROVE IsWith(with)
  <2>1. CASE with = [r \in L!Relations |-> L!Plain]
    BY <1>1, <2>1 DEF IsWith
  <2>2. ASSUME NEW rel \in L!Relations, NEW spec \in L!SpecsOf(rel), with = [r \in {rel} |-> spec]
        PROVE  IsWith(with)
    <3>1. spec \in L!Specs
      BY <1>2
    <3> QED BY <2>2, <3>1 DEF IsWith
  <2> QED BY <1>3, <2>1, <2>2
<1> QED BY <1>4 DEF L!PlanKeys

\* Two with objects of one shape, with the same values, are the same to a relation.
LEMMA SameShape ==
  ASSUME NEW one, NEW two, IsWith(one), IsWith(two), L!withShapeSignature(one) = L!withShapeSignature(two)
  PROVE  /\ DOMAIN one = DOMAIN two
         /\ \A rel \in DOMAIN one : one[rel].where = two[rel].where => one[rel] = two[rel]
<1>1. DOMAIN one = DOMAIN L!withShapeSignature(one) /\ DOMAIN two = DOMAIN L!withShapeSignature(two)
  BY DEF L!withShapeSignature
<1>2. ASSUME NEW rel \in DOMAIN one, one[rel].where = two[rel].where PROVE one[rel] = two[rel]
  <2>1. rel \in DOMAIN two /\ one[rel] \in L!Specs /\ two[rel] \in L!Specs
    BY <1>1 DEF IsWith
  <2>2. [one[rel] EXCEPT !.where = @ # Anything] = [two[rel] EXCEPT !.where = @ # Anything]
    <3>1. L!withShapeSignature(one)[rel] = L!withShapeSignature(two)[rel]
      OBVIOUS
    <3> QED BY <2>1, <3>1 DEF L!withShapeSignature
  <2>3. one[rel].take = two[rel].take /\ one[rel].nested = two[rel].nested
    BY <2>1, <2>2 DEF L!Specs
  <2> QED BY <1>2, <2>1, <2>3 DEF L!Specs
<1> QED BY <1>1, <1>2
---------------------------------------------------------------------------
(* The invariant. *)

LEMMA InitiallyLoaded == ASSUME L!WellFormed PROVE L!Init => LoadIsRight
<1> SUFFICES ASSUME L!Init PROVE LoadIsRight
  OBVIOUS
<1>1. \A k \in L!PlanKeys : plans[k] = None
  BY DEF L!Init
<1>2. author \in [Posts -> Labels \cup {None}] /\ read \in [Posts -> Labels \cup {None}]
  BY DEF L!Init
<1> QED BY <1>1, <1>2 DEF L!Init, LoadIsRight

\* The main query brings along what its plan does not leave to others.
LEMMA FindLoads ==
  ASSUME L!WellFormed, LoadIsRight, NEW with \in L!Withs, L!Find(with)
  PROVE  LoadIsRight'
<1> DEFINE key == L!RelationPlanKey(with)
           use == IF plans[key] # None THEN plans[key] ELSE with
<1>1. /\ sought' = with /\ plan' = use /\ plans' = [plans EXCEPT ![key] = use]
      /\ todo' = L!Batched(use) /\ read' = author /\ moments' = {L!db}
      /\ found' = [rel \in L!Relations |-> [p \in Posts |->
             IF rel \in DOMAIN use \ L!Batched(use) THEN L!Related(rel, use[rel], p, L!db) ELSE Unset]]
      /\ UNCHANGED <<author, on, label, tagged>>
  BY DEF L!Find, L!db
<1>2. IsWith(with) /\ key = L!withShapeSignature(with) /\ key \in L!PlanKeys
  BY PlannedWiths DEF L!RelationPlanKey
<1>3. IsWith(use) /\ L!withShapeSignature(use) = key
  BY <1>2 DEF LoadIsRight
<1>4. /\ DOMAIN plans' = L!PlanKeys
      /\ \A k \in L!PlanKeys : plans'[k] # None => IsWith(plans'[k]) /\ L!withShapeSignature(plans'[k]) = k
  <2>1. \A k \in L!PlanKeys : plans'[k] = IF k = key THEN use ELSE plans[k]
    BY <1>1 DEF LoadIsRight
  <2> QED BY <1>1, <1>3, <2>1 DEF LoadIsRight
<1>5. L!db' = L!db /\ moments' = {L!db} /\ L!db[1] = author
  BY <1>1 DEF L!db
<1>6. PlanFits' /\ sought' # None
  BY <1>1, <1>2, <1>3 DEF PlanFits, L!WellFormed
<1>7. MomentsSeen'
  BY <1>1, <1>5 DEF MomentsSeen
<1>8. L!Batched(use) \subseteq DOMAIN use
  BY DEF L!Batched
<1>9. ASSUME NEW rel \in DOMAIN use, rel \notin L!Batched(use), NEW p \in Posts
      PROVE  L!Rows(rel, p)' = L!Related(rel, use[rel], p, L!db)
  <2>1. rel \in L!Relations
    BY <1>3 DEF IsWith
  <2>2. found'[rel][p] = L!Related(rel, use[rel], p, L!db)
    BY <1>1, <1>9, <2>1
  <2>3. L!db[1][p] \in Labels \cup {None}
    BY <1>5 DEF LoadIsRight
  <2>4. L!Related(rel, use[rel], p, L!db) # Unset
    BY <2>1, <2>3, RelatedIsSet
  <2> QED BY <2>2, <2>4 DEF L!Rows
<1>10. ASSUME NEW rel \in DOMAIN use, rel \notin L!Batched(use) PROVE RelationAnswered(rel)'
  BY <1>1, <1>5, <1>9, <1>10 DEF RelationAnswered
<1>11. ASSUME NEW rel \in DOMAIN use, rel \in L!Batched(use), NEW p \in Posts PROVE found'[rel][p] = Unset
  BY <1>1, <1>3, <1>11 DEF IsWith
<1>12. RelationsLoaded'
  BY <1>1, <1>8, <1>10, <1>11 DEF RelationsLoaded
<1>13. DOMAIN found' = L!Relations /\ \A rel \in L!Relations : DOMAIN found'[rel] = Posts
  BY <1>1
<1>14. author' \in [Posts -> Labels \cup {None}] /\ read' \in [Posts -> Labels \cup {None}]
  BY <1>1 DEF LoadIsRight
<1> QED BY <1>1, <1>4, <1>6, <1>7, <1>12, <1>13, <1>14 DEF LoadIsRight

\* What a query of one relation leaves: the others as they were, its own answered.
LEMMA LoadOne ==
  ASSUME LoadIsRight, sought # None, NEW rel \in todo, todo' = todo \ {rel},
         UNCHANGED <<dialect, author, on, label, tagged, plans, sought, plan, read, moments>>,
         DOMAIN found' = L!Relations, \A r \in L!Relations : DOMAIN found'[r] = Posts,
         \A r \in L!Relations \ {rel} : found'[r] = found[r],
         NEW d \in moments, \A p \in Posts : L!Rows(rel, p)' = L!Related(rel, plan[rel], p, d)
  PROVE  LoadIsRight'
<1>1. PlanFits /\ MomentsSeen /\ RelationsLoaded
  BY DEF LoadIsRight
<1>2. PlanFits'
  BY <1>1 DEF PlanFits
<1>3. MomentsSeen'
  BY <1>1 DEF MomentsSeen, L!db
<1>4. DOMAIN plan \subseteq L!Relations
  BY <1>1 DEF PlanFits, IsWith
<1>5. RelationAnswered(rel)'
  BY DEF RelationAnswered
<1>6. ASSUME NEW r \in DOMAIN plan, r \notin todo PROVE RelationAnswered(r)'
  <2>1. RelationAnswered(r) /\ r \in L!Relations /\ r # rel
    BY <1>1, <1>4, <1>6 DEF RelationsLoaded
  <2>2. \A p \in Posts : L!Rows(r, p)' = L!Rows(r, p)
    BY <2>1 DEF L!Rows
  <2> QED BY <2>1, <2>2 DEF RelationAnswered
<1>7. ASSUME NEW r \in DOMAIN plan, r \in todo, r # rel PROVE \A p \in Posts : found'[r][p] = Unset
  <2>1. r \in L!Relations /\ \A p \in Posts : found[r][p] = Unset
    BY <1>1, <1>4, <1>7 DEF RelationsLoaded
  <2> QED BY <1>7, <2>1
<1>8. RelationsLoaded'
  BY <1>1, <1>5, <1>6, <1>7 DEF RelationsLoaded
<1> QED BY <1>2, <1>3, <1>8 DEF LoadIsRight

\* By the key as it was read: related as at the moment of the main query.
LEMMA LoadOwnedLoads == ASSUME L!WellFormed, LoadIsRight, L!LoadOwned PROVE LoadIsRight'
<1>1. /\ "author" \in todo /\ todo' = todo \ {"author"}
      /\ UNCHANGED <<dialect, author, on, label, tagged, plans, sought, plan, read, moments>>
  BY DEF L!LoadOwned, L!db
<1>2. sought # None
  BY <1>1 DEF LoadIsRight
<1>3. MomentsSeen /\ RelationsLoaded /\ "author" \in DOMAIN plan
  BY <1>1, <1>2 DEF LoadIsRight, RelationsLoaded
<1>4. PICK d \in moments : d[1] = read
  BY <1>3 DEF MomentsSeen
<1> DEFINE then == <<read, on, label, tagged>>
<1>5. \A p \in Posts : L!Related("author", plan["author"], p, then) = L!Related("author", plan["author"], p, d)
  BY <1>4 DEF L!Related
<1>6. CASE \A p \in Posts : read[p] = None
  <2>1. found' = found
    BY <1>6 DEF L!LoadOwned
  <2>2. \A p \in Posts : L!Related("author", plan["author"], p, d) = {}
    BY <1>4, <1>6 DEF L!Related
  <2>3. \A p \in Posts : found[ "author"][p] = Unset
    BY <1>1, <1>3 DEF RelationsLoaded
  <2>4. \A p \in Posts : L!Rows("author", p)' = L!Related("author", plan["author"], p, d)
    BY <2>1, <2>2, <2>3 DEF L!Rows
  <2>5. DOMAIN found' = L!Relations /\ \A r \in L!Relations : DOMAIN found'[r] = Posts /\ found'[r] = found[r]
    BY <2>1 DEF LoadIsRight
  <2> QED BY <1>1, <1>2, <2>4, <2>5, LoadOne
<1>7. CASE ~\A p \in Posts : read[p] = None
  <2>1. found' = [found EXCEPT !["author"] = [p \in Posts |-> L!Related("author", plan["author"], p, then)]]
    BY <1>7 DEF L!LoadOwned
  <2>2. DOMAIN found' = L!Relations /\ \A r \in L!Relations : DOMAIN found'[r] = Posts
    BY <2>1 DEF LoadIsRight
  <2>3. \A r \in L!Relations \ {"author"} : found'[r] = found[r]
    BY <2>1 DEF LoadIsRight
  <2>4. ASSUME NEW p \in Posts PROVE L!Rows("author", p)' = L!Related("author", plan["author"], p, d)
    <3>1. found'["author"][p] = L!Related("author", plan["author"], p, then)
      BY <2>1 DEF LoadIsRight, L!Relations
    <3>2. then[1][p] \in Labels \cup {None}
      BY DEF LoadIsRight
    <3>3. L!Related("author", plan["author"], p, then) # Unset
      BY <3>2, RelatedIsSet DEF L!Relations
    <3> QED BY <1>5, <3>1, <3>3 DEF L!Rows
  <2> QED BY <1>1, <1>2, <2>2, <2>3, <2>4, LoadOne
<1> QED BY <1>6, <1>7

\* One query for all posts: related as at its own moment.
LEMMA LoadManyLoads == ASSUME L!WellFormed, LoadIsRight, NEW rel \in L!Relations, L!LoadMany(rel) PROVE LoadIsRight'
<1>1. /\ rel \in todo /\ rel # "author" /\ todo' = todo \ {rel}
      /\ found' = [found EXCEPT ![rel] = [p \in Posts |-> L!Related(rel, plan[rel], p, L!db)]]
      /\ UNCHANGED <<dialect, author, on, label, tagged, plans, sought, plan, read, moments>>
  BY DEF L!LoadMany, L!db
<1>2. sought # None
  BY <1>1 DEF LoadIsRight
<1>3. L!db \in moments
  BY <1>2 DEF LoadIsRight, MomentsSeen
<1>4. DOMAIN found' = L!Relations /\ \A r \in L!Relations : DOMAIN found'[r] = Posts
  BY <1>1 DEF LoadIsRight
<1>5. \A r \in L!Relations \ {rel} : found'[r] = found[r]
  BY <1>1 DEF LoadIsRight
<1>6. ASSUME NEW p \in Posts PROVE L!Rows(rel, p)' = L!Related(rel, plan[rel], p, L!db)
  <2>1. found'[rel][p] = L!Related(rel, plan[rel], p, L!db)
    BY <1>1 DEF LoadIsRight
  <2>2. L!Related(rel, plan[rel], p, L!db) # Unset
    BY <1>1, RelatedIsSet
  <2> QED BY <2>1, <2>2 DEF L!Rows
<1> QED BY <1>1, <1>2, <1>3, <1>4, <1>5, <1>6, LoadOne

\* What others change is one more moment.
LEMMA DisturbLeaves == ASSUME LoadIsRight, L!Disturb PROVE LoadIsRight'
<1>1. /\ todo # {} /\ label' = label
      /\ moments' = moments \cup {<<author', on', label, tagged'>>}
      /\ UNCHANGED <<plans, sought, plan, read, found, todo>>
  BY DEF L!Disturb
<1>2. author' \in [Posts -> Labels \cup {None}]
  BY DEF L!Disturb, LoadIsRight
<1>3. sought # None
  BY <1>1 DEF LoadIsRight
<1>4. PlanFits /\ MomentsSeen /\ RelationsLoaded
  BY <1>3 DEF LoadIsRight
<1>5. PlanFits'
  BY <1>1, <1>4 DEF PlanFits
<1>6. MomentsSeen'
  BY <1>1, <1>4 DEF MomentsSeen, L!db
<1>7. ASSUME NEW rel \in DOMAIN plan, RelationAnswered(rel) PROVE RelationAnswered(rel)'
  <2>1. \A p \in Posts : L!Rows(rel, p)' = L!Rows(rel, p)
    BY <1>1 DEF L!Rows
  <2> QED BY <1>1, <1>7, <2>1 DEF RelationAnswered
<1>8. RelationsLoaded'
  BY <1>1, <1>4, <1>7 DEF RelationsLoaded
<1> QED BY <1>1, <1>2, <1>3, <1>5, <1>6, <1>8 DEF LoadIsRight

LEMMA AnswerEnds == ASSUME LoadIsRight, L!Answer PROVE LoadIsRight'
<1>1. /\ sought' = None /\ todo' = {} /\ UNCHANGED <<author, plans>>
      /\ read' = [p \in Posts |-> None] /\ found' = [rel \in L!Relations |-> [p \in Posts |-> Unset]]
  BY DEF L!Answer, L!db
<1> QED BY <1>1 DEF LoadIsRight

LEMMA StaysLoaded == ASSUME L!WellFormed PROVE LoadIsRight /\ [L!Next]_(L!vars) => LoadIsRight'
<1> SUFFICES ASSUME LoadIsRight, [L!Next]_(L!vars) PROVE LoadIsRight'
  OBVIOUS
<1>1. CASE \E with \in L!Withs : L!Find(with)
  BY <1>1, FindLoads
<1>2. CASE L!LoadOwned
  BY <1>2, LoadOwnedLoads
<1>3. CASE \E rel \in L!Relations : L!LoadMany(rel)
  BY <1>3, LoadManyLoads
<1>4. CASE L!Disturb
  BY <1>4, DisturbLeaves
<1>5. CASE L!Answer
  BY <1>5, AnswerEnds
<1>6. CASE UNCHANGED L!vars
  BY <1>6 DEF L!vars, L!db, LoadIsRight, PlanFits, MomentsSeen, RelationsLoaded, RelationAnswered, L!Rows
<1> QED BY <1>1, <1>2, <1>3, <1>4, <1>5, <1>6 DEF L!Next, L!Finished

LEMMA LoadedRight == LoadIsRight => L!LoadedAsAsked
<1> SUFFICES ASSUME LoadIsRight, L!Done, L!OwnValues, NEW rel \in DOMAIN sought
             PROVE  \E d \in moments : \A p \in Posts : L!Rows(rel, p) = L!Related(rel, sought[rel], p, d)
  BY DEF L!LoadedAsAsked
<1>1. PlanFits /\ RelationsLoaded
  BY DEF LoadIsRight, L!Done
<1>2. rel \in DOMAIN plan /\ plan[rel] = sought[rel]
  BY <1>1, SameShape DEF PlanFits, L!OwnValues
<1>3. RelationAnswered(rel)
  BY <1>1, <1>2 DEF RelationsLoaded, L!Done
<1> QED BY <1>2, <1>3 DEF RelationAnswered

LoadsInv == part = "loading" => LoadIsRight

LEMMA LoadsFromTheStart == Init => LoadsInv
<1> SUFFICES ASSUME Init, part = "loading" PROVE LoadIsRight
  BY DEF LoadsInv
<1>1. L!Init
  BY DEF Init
<1> QED BY <1>1, LoadConstants, InitiallyLoaded

LEMMA LoadsGoOn == LoadsInv /\ [Next]_<<part, v1, v2, v3, v4, v5, v6, v7, v8, v9, v10, v11, v12, v13, v14>> => LoadsInv'
<1> SUFFICES ASSUME LoadsInv, [Next]_<<part, v1, v2, v3, v4, v5, v6, v7, v8, v9, v10, v11, v12, v13, v14>>,
                    part' = "loading"
             PROVE  LoadIsRight'
  BY DEF LoadsInv
<1>1. part = "loading"
  BY DEF Next, WritesNext, RelationWritesNext, PaginateNext, RelationLoadNext, ManyWritesNext, StudioGridNext,
     AggregatesNext, ReadsNext, Kept
<1>2. LoadIsRight
  BY <1>1 DEF LoadsInv
<1>3. L!Next \/ UNCHANGED <<v1, v2, v3, v4, v5, v6, v7, v8, v9, v10, v11, v12, v13, v14>>
  BY <1>1 DEF Next, WritesNext, RelationWritesNext, PaginateNext, RelationLoadNext, ManyWritesNext, StudioGridNext,
     AggregatesNext, ReadsNext
<1>4. [L!Next]_(L!vars)
  BY <1>3 DEF L!vars, L!db
<1> QED BY <1>2, <1>4, LoadConstants, StaysLoaded

\* LoadedAsAsked, for any rows and writes of others while relations are loaded,
\* and any sequence of reads over the texts and plans that were kept before.
THEOREM LoadsAreAlwaysAsAsked == Spec => []LoadedAsAsked
<1>1. LoadsInv /\ ReadsInv => LoadedAsAsked
  BY LoadedRight, ReadIsAnswered DEF LoadsInv, ReadsInv, LoadedAsAsked
<1> QED BY <1>1, LoadsFromTheStart, LoadsGoOn, ReadsFromTheStart, ReadsGoOn, PTL DEF Spec
---------------------------------------------------------------------------
(* Writes of many rows: the lemmas are about that part, whose variables these
   are; its texts are the cached ones, and its answer is reply. *)
primaryKey == v2
rows == v3
children == v4
texts == v5
call == v6
phase == v7
first == v8
mapped == v9
reply == v10
meant == v11
disturbed == v12
USE DEF primaryKey, rows, children, texts, call, phase, first, mapped, reply, meant, disturbed

LEMMA SameCount == (\A S : M!Cardinality(S) = Cardinality(S)) /\ (\A S : M!IsFiniteSet(S) <=> IsFiniteSet(S))
BY DEF M!Cardinality, Cardinality, M!IsFiniteSet, IsFiniteSet

(* The text of an UPDATE and its parameters. *)

LEMMA JoinedSeqs ==
  ASSUME NEW S, NEW s \in Seq(S), NEW t \in Seq(S)
  PROVE  /\ s \o t \in Seq(S) /\ Len(s \o t) = Len(s) + Len(t)
         /\ \A i \in 1 .. Len(s) : (s \o t)[i] = s[i]
         /\ \A i \in 1 .. Len(t) : (s \o t)[Len(s) + i] = t[i]
OBVIOUS

\* Assignments in the order of their columns are those that were given.
LEMMA SortedIs ==
  ASSUME NEW data \in Seq(M!Assignment), \A i, j \in DOMAIN data : data[i].key = data[j].key => i = j
  PROVE  /\ Len(data) \in Nat /\ DOMAIN data = 1 .. Len(data) /\ DOMAIN M!Sorted(data) = DOMAIN data
         /\ \A i \in DOMAIN data : \E k \in DOMAIN data : M!Sorted(data)[i] = data[k]
         /\ \A k \in DOMAIN data : \E i \in DOMAIN data : M!Sorted(data)[i] = data[k]
         /\ \A i, k \in DOMAIN data : M!Sorted(data)[i].key = M!Sorted(data)[k].key => i = k
<1>1. Len(data) \in Nat /\ DOMAIN data = 1 .. Len(data)
  OBVIOUS
<1>2. CASE M!Sorted(data) = data
  BY <1>1, <1>2
<1>3. CASE Len(data) = 2 /\ M!Sorted(data) = <<data[2], data[1]>>
  <2>1. DOMAIN data = {1, 2} /\ DOMAIN M!Sorted(data) = {1, 2}
    BY <1>1, <1>3
  <2>2. M!Sorted(data)[1] = data[2] /\ M!Sorted(data)[2] = data[1]
    BY <1>3
  <2> QED BY <1>1, <2>1, <2>2
<1> QED BY <1>2, <1>3 DEF M!Sorted

LEMMA UpdateIs ==
  ASSUME M!WellFormed, NEW c \in M!UpdateCalls
  PROVE  /\ c.data \in Seq(M!Assignment) /\ \A i, j \in DOMAIN c.data : c.data[i].key = c.data[j].key => i = j
         /\ c.rest \in {None, 1} /\ c.join \in {None, 2} /\ c.verb = "update"
         /\ c.back \in BOOLEAN /\ c.nested \in BOOLEAN
         /\ c.data = <<>> => c.nested
<1>1. /\ c.data \in UpdateData \cup {<<>>} /\ c.rest \in {None, 1} /\ c.join \in {None, 2} /\ c.verb = "update"
      /\ c.back \in BOOLEAN /\ c.nested \in BOOLEAN /\ (c.data = <<>> => c.nested)
  BY DEF M!UpdateCalls
<1>2. c.data \in Seq(M!Assignment) /\ \A i, j \in DOMAIN c.data : c.data[i].key = c.data[j].key => i = j
  <2>1. CASE c.data = <<>>
    <3>1. DOMAIN c.data = {} /\ c.data \in Seq(M!Assignment)
      BY <2>1
    <3> QED BY <3>1
  <2>2. CASE c.data \in UpdateData
    BY <2>2 DEF M!WellFormed
  <2> QED BY <1>1, <2>1, <2>2
<1> QED BY <1>1, <1>2

\* What a text binds its placeholders to, when it was built for the call itself.
LEMMA ParamsAre ==
  ASSUME M!WellFormed, NEW c \in M!UpdateCalls
  PROVE  LET text == M!BuildUpdate(c)
             params == M!Assignments(c) \o M!WhereParams(c)
         IN /\ \A i \in DOMAIN c.data : params[i] = M!Sorted(c.data)[i].value
            /\ (text.rest = 0) <=> (c.rest = None)
            /\ c.rest # None => params[text.rest] = c.rest
            /\ (text.join = 0) <=> (c.join = None)
            /\ c.join # None => params[text.join] = c.join
<1> DEFINE k == Len(c.data)
           sets == M!Assignments(c)
           wheres == M!WhereParams(c)
           params == sets \o wheres
           text == M!BuildUpdate(c)
<1>1. /\ c.data \in Seq(M!Assignment) /\ \A i, j \in DOMAIN c.data : c.data[i].key = c.data[j].key => i = j
      /\ c.rest \in {None, 1} /\ c.join \in {None, 2} /\ None \notin Nat
  BY UpdateIs DEF M!WellFormed
<1>2. /\ k \in Nat /\ DOMAIN c.data = 1 .. k
      /\ \A i \in DOMAIN c.data : M!Sorted(c.data)[i].value \in Nat
  <2>1. /\ k \in Nat /\ DOMAIN c.data = 1 .. k
        /\ \A i \in DOMAIN c.data : \E n \in DOMAIN c.data : M!Sorted(c.data)[i] = c.data[n]
    BY <1>1, SortedIs
  <2>2. ASSUME NEW n \in DOMAIN c.data PROVE c.data[n].value \in Nat
    <3>1. c.data[n] \in M!Assignment
      BY <1>1
    <3> QED BY <3>1 DEF M!Assignment
  <2> QED BY <2>1, <2>2
<1>3. sets \in Seq(Nat) /\ Len(sets) = k /\ \A i \in 1 .. k : sets[i] = M!Sorted(c.data)[i].value
  <2>1. sets = [i \in 1 .. k |-> M!Sorted(c.data)[i].value]
    BY <1>2 DEF M!Assignments
  <2> QED BY <1>2, <2>1
<1> DEFINE swapped == M!Joins(c) /\ M!MySqlFamily
<1>4. /\ wheres = IF swapped THEN M!Given(c.join) \o M!Given(c.rest) ELSE M!Given(c.rest) \o M!Given(c.join)
      /\ text.rest = (IF c.rest = None THEN 0 ELSE 1) * (IF swapped THEN k + (IF c.join = None THEN 0 ELSE 1) + 1 ELSE k + 1)
      /\ text.join = (IF c.join = None THEN 0 ELSE 1) * (IF swapped THEN k + 1 ELSE k + (IF c.rest = None THEN 0 ELSE 1) + 1)
      /\ params = sets \o wheres
  BY DEF M!WhereParams, M!BuildUpdate
<1> SUFFICES /\ \A i \in 1 .. k : params[i] = sets[i]
             /\ (text.rest = 0) <=> (c.rest = None)
             /\ c.rest # None => params[text.rest] = c.rest
             /\ (text.join = 0) <=> (c.join = None)
             /\ c.join # None => params[text.join] = c.join
  BY <1>2, <1>3
<1> HIDE DEF sets, wheres, params, text, swapped, k
<1>5. ASSUME wheres \in Seq(Nat)
      PROVE  /\ \A i \in 1 .. k : params[i] = sets[i]
             /\ \A i \in 1 .. Len(wheres) : params[k + i] = wheres[i]
  <2>1. sets \in Seq(Nat) /\ wheres \in Seq(Nat) /\ Len(sets) = k /\ params = sets \o wheres
    BY <1>3, <1>4, <1>5
  <2>2. ASSUME NEW s \in Seq(Nat), NEW t \in Seq(Nat)
        PROVE  /\ \A i \in 1 .. Len(s) : (s \o t)[i] = s[i]
               /\ \A i \in 1 .. Len(t) : (s \o t)[Len(s) + i] = t[i]
    BY JoinedSeqs
  <2>3. /\ \A i \in 1 .. Len(sets) : (sets \o wheres)[i] = sets[i]
        /\ \A i \in 1 .. Len(wheres) : (sets \o wheres)[Len(sets) + i] = wheres[i]
    BY <2>1, <2>2
  <2> QED BY <2>1, <2>3
<1>6. 1 \in 1 .. 1 /\ 1 \in 1 .. 2 /\ 2 \in 1 .. 2
  OBVIOUS
<1>7. CASE c.rest = None /\ c.join = None
  <2>1. M!Given(c.rest) = <<>> /\ M!Given(c.join) = <<>>
    BY <1>7 DEF M!Given
  <2>2. wheres = <<>> \o <<>>
    BY <1>4, <2>1
  <2>3. wheres \in Seq(Nat)
    BY <2>2
  <2>4. text.rest = 0 /\ text.join = 0
    BY <1>2, <1>4, <1>7
  <2> QED BY <1>2, <1>3, <1>5, <1>7, <2>3, <2>4
<1>8. CASE c.rest = 1 /\ c.join = None
  <2>1. M!Given(c.rest) = <<1>> /\ M!Given(c.join) = <<>>
    BY <1>1, <1>8 DEF M!Given
  <2>2. wheres = <<>> \o <<1>> \/ wheres = <<1>> \o <<>>
    BY <1>4, <2>1
  <2>3. wheres \in Seq(Nat) /\ Len(wheres) = 1 /\ wheres[1] = 1
    <3>1. <<>> \o <<1>> = <<1>> /\ <<1>> \o <<>> = <<1>> /\ <<1>> \in Seq(Nat) /\ Len(<<1>>) = 1 /\ <<1>>[1] = 1
      OBVIOUS
    <3> QED BY <2>2, <3>1
  <2>4. text.rest = k + 1 /\ text.join = 0 /\ k + 1 # 0
    BY <1>1, <1>2, <1>4, <1>8
  <2>5. params[k + 1] = 1
    BY <1>5, <1>6, <2>3
  <2> QED BY <1>1, <1>2, <1>3, <1>5, <1>8, <2>3, <2>4, <2>5
<1>9. CASE c.rest = None /\ c.join = 2
  <2>1. M!Given(c.rest) = <<>> /\ M!Given(c.join) = <<2>>
    BY <1>1, <1>9 DEF M!Given
  <2>2. wheres = <<>> \o <<2>> \/ wheres = <<2>> \o <<>>
    BY <1>4, <2>1
  <2>3. wheres \in Seq(Nat) /\ Len(wheres) = 1 /\ wheres[1] = 2
    <3>1. <<>> \o <<2>> = <<2>> /\ <<2>> \o <<>> = <<2>> /\ <<2>> \in Seq(Nat) /\ Len(<<2>>) = 1 /\ <<2>>[1] = 2
      OBVIOUS
    <3> QED BY <2>2, <3>1
  <2>4. text.join = k + 1 /\ text.rest = 0 /\ k + 1 # 0
    BY <1>1, <1>2, <1>4, <1>9
  <2>5. params[k + 1] = 2
    BY <1>5, <1>6, <2>3
  <2> QED BY <1>1, <1>2, <1>3, <1>5, <1>9, <2>3, <2>4, <2>5
<1>10. CASE c.rest = 1 /\ c.join = 2
  <2>1. M!Given(c.rest) = <<1>> /\ M!Given(c.join) = <<2>>
    BY <1>1, <1>10 DEF M!Given
  <2>2. CASE swapped
    <3>1. wheres = <<2>> \o <<1>>
      BY <1>4, <2>1, <2>2
    <3>2. wheres \in Seq(Nat) /\ Len(wheres) = 2 /\ wheres[1] = 2 /\ wheres[2] = 1
      BY <3>1
    <3>3. text.rest = k + 2 /\ text.join = k + 1 /\ k + 1 # 0 /\ k + 2 # 0
      BY <1>1, <1>2, <1>4, <1>10, <2>2
    <3>4. params[k + 1] = 2 /\ params[k + 2] = 1
      BY <1>5, <1>6, <3>2
    <3> QED BY <1>1, <1>2, <1>3, <1>5, <1>10, <3>2, <3>3, <3>4
  <2>3. CASE ~swapped
    <3>1. wheres = <<1>> \o <<2>>
      BY <1>4, <2>1, <2>3
    <3>2. wheres \in Seq(Nat) /\ Len(wheres) = 2 /\ wheres[1] = 1 /\ wheres[2] = 2
      BY <3>1
    <3>3. text.rest = k + 1 /\ text.join = k + 2 /\ k + 1 # 0 /\ k + 2 # 0
      BY <1>1, <1>2, <1>4, <1>10, <2>3
    <3>4. params[k + 1] = 1 /\ params[k + 2] = 2
      BY <1>5, <1>6, <3>2
    <3> QED BY <1>1, <1>2, <1>3, <1>5, <1>10, <3>2, <3>3, <3>4
  <2> QED BY <2>2, <2>3
<1> QED BY <1>1, <1>7, <1>8, <1>9, <1>10

\* Calls of one key have one text.
LEMMA SameText ==
  ASSUME M!WellFormed, NEW c \in M!UpdateCalls, NEW d \in M!UpdateCalls, M!UpdateKey(c) = M!UpdateKey(d)
  PROVE  M!BuildUpdate(c) = M!BuildUpdate(d)
<1> DEFINE sets(u) == [i \in DOMAIN u.data |-> [key |-> M!Sorted(u.data)[i].key, op |-> M!Sorted(u.data)[i].op]]
<1>1. sets(c) = sets(d) /\ (c.rest = None <=> d.rest = None) /\ (c.join = None <=> d.join = None) /\ (M!Joins(c) <=> M!Joins(d))
  BY DEF M!UpdateKey
<1>2. DOMAIN c.data = DOMAIN d.data
  BY <1>1
<1>3. c.data \in Seq(M!Assignment) /\ d.data \in Seq(M!Assignment)
  BY UpdateIs
<1>4. Len(c.data) = Len(d.data)
  BY <1>2, <1>3
<1> HIDE DEF sets
<1> QED BY <1>1, <1>4 DEF M!BuildUpdate, sets

TextsRight == \A key \in DOMAIN texts : \E c \in M!UpdateCalls : M!UpdateKey(c) = key /\ texts[key] = M!BuildUpdate(c)

LEMMA TextIs == ASSUME M!WellFormed, TextsRight, NEW c \in M!UpdateCalls PROVE M!UpdateText(c) = M!BuildUpdate(c)
<1>1. CASE M!UpdateKey(c) \in DOMAIN texts
  <2>1. PICK d \in M!UpdateCalls : M!UpdateKey(d) = M!UpdateKey(c) /\ texts[M!UpdateKey(c)] = M!BuildUpdate(d)
    BY <1>1 DEF TextsRight
  <2> QED BY <1>1, <2>1, SameText DEF M!UpdateText
<1>2. CASE M!UpdateKey(c) \notin DOMAIN texts
  BY <1>2 DEF M!UpdateText
<1> QED BY <1>1, <1>2

LEMMA SameOnDialect ==
  ASSUME dialect' = dialect, NEW c
  PROVE  M!UpdateKey(c)' = M!UpdateKey(c) /\ M!BuildUpdate(c)' = M!BuildUpdate(c)
<1>1. M!Joins(c)' = M!Joins(c) /\ M!MySqlFamily' = M!MySqlFamily
  BY DEF M!Joins, M!shouldUseJoinUpdate, M!MySqlFamily
<1> QED BY <1>1 DEF M!UpdateKey, M!BuildUpdate

LEMMA TextsKept ==
  ASSUME M!WellFormed, TextsRight, dialect' = dialect, NEW c \in M!UpdateCalls,
         texts' = [key \in DOMAIN texts \cup {M!UpdateKey(c)} |-> IF key = M!UpdateKey(c) THEN M!UpdateText(c) ELSE texts[key]]
  PROVE  TextsRight'
<1> SUFFICES ASSUME NEW key \in DOMAIN texts' PROVE \E d \in M!UpdateCalls : M!UpdateKey(d)' = key /\ texts'[key] = M!BuildUpdate(d)'
  BY DEF TextsRight
<1>1. CASE key = M!UpdateKey(c)
  <2>1. texts'[key] = M!BuildUpdate(c)
    BY <1>1, TextIs
  <2>2. M!UpdateKey(c)' = key /\ texts'[key] = M!BuildUpdate(c)'
    BY <1>1, <2>1, SameOnDialect
  <2> QED BY <2>2
<1>2. CASE key # M!UpdateKey(c)
  <2>1. PICK d \in M!UpdateCalls : M!UpdateKey(d) = key /\ texts[key] = M!BuildUpdate(d)
    BY <1>2 DEF TextsRight
  <2>2. M!UpdateKey(d)' = key /\ texts'[key] = M!BuildUpdate(d)'
    BY <1>2, <2>1, SameOnDialect
  <2> QED BY <2>2
<1> QED BY <1>1, <1>2

\* A text selects and assigns what the arguments of its call say.
LEMMA SelectedIs ==
  ASSUME M!WellFormed, NEW c \in M!UpdateCalls
  PROVE  M!Selected(M!BuildUpdate(c), M!Assignments(c) \o M!WhereParams(c)) = M!Matching(c, rows)
<1> DEFINE text == M!BuildUpdate(c)
           params == M!Assignments(c) \o M!WhereParams(c)
<1>1. /\ (text.rest = 0) <=> (c.rest = None)
      /\ c.rest # None => params[text.rest] = c.rest
      /\ (text.join = 0) <=> (c.join = None)
      /\ c.join # None => params[text.join] = c.join
  BY ParamsAre
<1> HIDE DEF text, params
<1>2. M!Selected(text, params) = M!Matching(c, rows)
  BY <1>1 DEF M!Selected, M!Matching, M!Matches
<1> QED BY <1>2 DEF text, params

LEMMA AssignedIs ==
  ASSUME M!WellFormed, NEW c \in M!UpdateCalls, NEW row
  PROVE  M!Assigned(row, M!BuildUpdate(c), M!Assignments(c) \o M!WhereParams(c)) = M!After(c, row)
<1> DEFINE text == M!BuildUpdate(c)
           params == M!Assignments(c) \o M!WhereParams(c)
           sorted == M!Sorted(c.data)
<1>1. c.data \in Seq(M!Assignment) /\ \A i, j \in DOMAIN c.data : c.data[i].key = c.data[j].key => i = j
  BY UpdateIs
<1>2. /\ DOMAIN sorted = DOMAIN c.data
      /\ \A i \in DOMAIN c.data : \E k \in DOMAIN c.data : sorted[i] = c.data[k]
      /\ \A k \in DOMAIN c.data : \E i \in DOMAIN c.data : sorted[i] = c.data[k]
  BY <1>1, SortedIs
<1>3. \A i \in DOMAIN c.data : params[i] = sorted[i].value
  BY ParamsAre
<1>4. DOMAIN text.sets = DOMAIN c.data /\ \A i \in DOMAIN c.data : text.sets[i].key = sorted[i].key /\ text.sets[i].op = sorted[i].op
  BY DEF M!BuildUpdate
<1> HIDE DEF text, params, sorted
<1>5. ASSUME NEW col \in M!Columns
      PROVE  M!Assigned(row, text, params)[col] = M!After(c, row)[col]
  <2> DEFINE at == {j \in DOMAIN text.sets : text.sets[j].key = col}
             given == {j \in DOMAIN c.data : c.data[j].key = col}
  <2>1. CASE at = {}
    <3>1. given = {}
      <4>1. ASSUME NEW k \in given PROVE FALSE
        <5>1. PICK i \in DOMAIN c.data : sorted[i] = c.data[k]
          BY <1>2
        <5>2. text.sets[i].key = col /\ i \in DOMAIN text.sets
          BY <1>4, <4>1, <5>1
        <5> QED BY <2>1, <5>2
      <4> QED BY <4>1
    <3> QED BY <2>1, <3>1 DEF M!Assigned, M!After
  <2>2. CASE at # {}
    <3> DEFINE j == CHOOSE x \in at : TRUE
               i == CHOOSE x \in given : TRUE
    <3>1. j \in at
      BY <2>2
    <3>2. given # {}
      <4>1. j \in DOMAIN c.data /\ sorted[j].key = col
        BY <1>4, <3>1
      <4>2. PICK k \in DOMAIN c.data : sorted[j] = c.data[k]
        BY <1>2, <4>1
      <4>3. k \in given
        BY <4>1, <4>2
      <4> QED BY <4>3
    <3>3. i \in given
      BY <3>2
    <3>4. sorted[j] = c.data[i]
      <4>1. PICK k \in DOMAIN c.data : sorted[j] = c.data[k]
        BY <1>2, <1>4, <3>1
      <4>2. c.data[k].key = col /\ c.data[i].key = col
        BY <1>4, <3>1, <3>3, <4>1
      <4> QED BY <1>1, <3>3, <4>1, <4>2
    <3>5. params[j] = c.data[i].value /\ text.sets[j].op = c.data[i].op
      BY <1>3, <1>4, <3>1, <3>4
    <3>6. M!Assigned(row, text, params)[col] = IF text.sets[j].op = "set" THEN params[j] ELSE row[col] + params[j]
      BY <2>2 DEF M!Assigned
    <3>7. M!After(c, row)[col] = IF c.data[i].op = "set" THEN c.data[i].value ELSE row[col] + c.data[i].value
      BY <3>2 DEF M!After
    <3> HIDE DEF j, i
    <3> QED BY <3>5, <3>6, <3>7
  <2> QED BY <2>1, <2>2
<1>6. M!Assigned(row, text, params) = [col \in M!Columns |-> M!Assigned(row, text, params)[col]]
  BY DEF M!Assigned
<1>7. M!After(c, row) = [col \in M!Columns |-> M!After(c, row)[col]]
  BY DEF M!After
<1>8. M!Assigned(row, text, params) = M!After(c, row)
  BY <1>5, <1>6, <1>7
<1> QED BY <1>8 DEF text, params

LEMMA ElementIs == ASSUME NEW S, NEW s \in Seq(S), NEW i \in DOMAIN s PROVE s[i] \in S
OBVIOUS

LEMMA AfterIs == ASSUME M!WellFormed, NEW c \in M!UpdateCalls, NEW row \in M!Row PROVE M!After(c, row) \in M!Row
<1>1. c.data \in Seq(M!Assignment)
  BY UpdateIs
<1>2. ASSUME NEW col \in M!Columns PROVE M!After(c, row)[col] \in Nat
  <2> DEFINE given == {j \in DOMAIN c.data : c.data[j].key = col}
  <2>1. row[col] \in Nat
    BY DEF M!Row
  <2>2. CASE given = {}
    BY <2>1, <2>2 DEF M!After
  <2>3. CASE given # {}
    <3> DEFINE i == CHOOSE x \in given : TRUE
    <3>1. i \in DOMAIN c.data
      BY <2>3
    <3>2. c.data[i] \in M!Assignment
      <4> HIDE DEF i
      <4> QED BY <1>1, <3>1, ElementIs
    <3>3. M!After(c, row)[col] = IF c.data[i].op = "set" THEN c.data[i].value ELSE row[col] + c.data[i].value
      BY <2>3 DEF M!After
    <3> HIDE DEF i
    <3>4. c.data[i].value \in Nat
      BY <3>2 DEF M!Assignment
    <3> QED BY <2>1, <3>3, <3>4
  <2> QED BY <2>2, <2>3
<1>3. M!After(c, row) = [col \in M!Columns |-> M!After(c, row)[col]]
  BY DEF M!After
<1> QED BY <1>2, <1>3 DEF M!Row

(* Pairs of ids and rows. *)

LEMMA PairsNamed == ASSUME NEW ids, NEW t PROVE M!Named(M!Pairs(ids, t)) = ids
<1>1. \A i \in ids : <<i, t[i]>> \in M!Pairs(ids, t) /\ <<i, t[i]>>[1] = i
  BY DEF M!Pairs
<1>2. \A p \in M!Pairs(ids, t) : p[1] \in ids
  BY DEF M!Pairs
<1> QED BY <1>1, <1>2 DEF M!Named

LEMMA PairsSame == ASSUME NEW ids, NEW t, NEW u, \A i \in ids : t[i] = u[i] PROVE M!Pairs(ids, t) = M!Pairs(ids, u)
BY DEF M!Pairs

LEMMA PairsCount == ASSUME NEW ids, M!IsFiniteSet(ids), NEW t PROVE M!Cardinality(M!Pairs(ids, t)) = M!Cardinality(ids)
<1> DEFINE f == [i \in ids |-> <<i, t[i]>>]
<1>1. f \in [ids -> M!Pairs(ids, t)] /\ \A i, j \in ids : f[i] = f[j] => i = j
  BY DEF M!Pairs
<1>2. \A p \in M!Pairs(ids, t) : \E i \in ids : f[i] = p
  BY DEF M!Pairs
<1>3. f \in Injection(ids, M!Pairs(ids, t)) /\ f \in Surjection(ids, M!Pairs(ids, t))
  <2> HIDE DEF f
  <2>1. IsInjective(f)
    BY <1>1 DEF IsInjective
  <2> QED BY <1>1, <1>2, <2>1 DEF Injection, Surjection
<1>5. f \in Bijection(ids, M!Pairs(ids, t))
  BY <1>3 DEF Bijection
<1>4. ExistsBijection(ids, M!Pairs(ids, t))
  BY <1>5 DEF ExistsBijection
<1> QED BY <1>4, FS_Bijection, SameCount

(* The rows of createMany. *)

Datas == {<<r>> : r \in NewPosts} \cup {<<r, s>> : r, s \in NewPosts}

LEMMA DatasAre ==
  ASSUME NEW data \in Datas
  PROVE  /\ Len(data) \in {1, 2} /\ DOMAIN data = 1 .. Len(data)
         /\ \A i \in DOMAIN data : data[i] \in NewPosts
<1>1. CASE \E r \in NewPosts : data = <<r>>
  BY <1>1
<1>2. CASE \E r, s \in NewPosts : data = <<r, s>>
  <2>1. PICK r \in NewPosts, s \in NewPosts : data = <<r, s>>
    BY <1>2
  <2>2. Len(data) = 2 /\ DOMAIN data = 1 .. 2 /\ data[1] \in NewPosts /\ data[2] \in NewPosts
    BY <2>1
  <2>3. \A i \in 1 .. 2 : i = 1 \/ i = 2
    OBVIOUS
  <2> QED BY <2>2, <2>3
<1> QED BY <1>1, <1>2 DEF Datas

LEMMA UndefinedCount ==
  ASSUME NEW data, NEW n \in {1, 2}
  PROVE  /\ M!Cardinality(M!Undefined(data, n)) \in Nat
         /\ data[n].id = None => M!Cardinality(M!Undefined(data, n)) \in {1, 2}
         /\ (\A i \in 1 .. n : data[i].id = None) => M!Cardinality(M!Undefined(data, n)) = n
<1>1. M!IsFiniteSet(1 .. n) /\ M!Cardinality(1 .. n) = n
  <2>1. 1 \in Int /\ n \in Int /\ (IF 1 > n THEN 0 ELSE n - 1 + 1) = n
    OBVIOUS
  <2> QED BY <2>1, FS_Interval, SameCount
<1>2. M!Undefined(data, n) \in SUBSET (1 .. n)
  BY DEF M!Undefined
<1>3. M!IsFiniteSet(M!Undefined(data, n)) /\ M!Cardinality(M!Undefined(data, n)) <= n
  BY <1>1, <1>2, FS_Subset, SameCount
<1>4. M!Cardinality(M!Undefined(data, n)) \in Nat
  BY <1>3, FS_CardinalityType, SameCount
<1>5. ASSUME data[n].id = None PROVE M!Cardinality(M!Undefined(data, n)) # 0
  <2>1. n \in M!Undefined(data, n)
    BY <1>5 DEF M!Undefined
  <2> QED BY <1>3, <2>1, FS_EmptySet, SameCount
<1>6. ASSUME \A i \in 1 .. n : data[i].id = None PROVE M!Undefined(data, n) = 1 .. n
  BY <1>6 DEF M!Undefined
<1> QED BY <1>1, <1>3, <1>4, <1>5, <1>6

(* The invariant of a write of many rows. *)

PostTables == [RowIds -> M!Row \cup {Absent}]

\* What the call may be.
CallRight ==
  \/ phase = "idle"
  \/ call \in M!UpdateCalls /\ (call.nested => primaryKey # "none")
  \/ call \in M!DeleteCalls
  \/ call \in M!CreateCalls /\ primaryKey # "none"

\* The table before the call has written.
Untouched == rows = meant.before /\ rows = meant.after /\ meant.ids = {}

\* The table after it: what the call is about is in it, and nothing else has changed.
Written ==
  /\ rows = meant.after
  /\ meant.ids \subseteq M!Present(meant.after)
  /\ \A i \in RowIds \ meant.ids : meant.after[i] = meant.before[i]

ManyIdle == phase = "idle" => children = {} /\ ~disturbed /\ Untouched
ManySelecting == phase = "select" => children = {} /\ ~disturbed /\ Untouched /\ M!SelectsFirst(call) /\ call \notin M!CreateCalls
ManyWriting ==
  phase = "write" =>
    /\ children = {}
    /\ ~disturbed => Untouched /\ (M!SelectsFirst(call) => mapped = M!Pairs(M!Matching(call, rows), rows))
ManyReloading ==
  phase = "reload" =>
    /\ children = {} /\ call.back /\ call \notin M!DeleteCalls
    /\ ~disturbed => Written /\ (~M!Unknowable => M!Named(mapped) = meant.ids)
ManyNesting ==
  phase = "nested" =>
    /\ children = {} /\ call \in M!UpdateCalls /\ call.nested
    /\ ~disturbed =>
         /\ Written
         /\ \E t \in PostTables : mapped = M!Pairs(meant.ids, t)
         /\ call.back => mapped = M!Pairs(meant.ids, meant.after)

ManyIsRight ==
  /\ rows \in PostTables /\ meant.before \in PostTables /\ TextsRight /\ CallRight
  /\ ManyIdle /\ ManySelecting /\ ManyWriting /\ ManyReloading /\ ManyNesting
  /\ M!AnsweredAreAffected

(* The rows of a createMany and their keys. *)

\* What the rows a createMany writes may be.
DataRight(data) ==
  /\ Len(data) \in {1, 2} /\ DOMAIN data = 1 .. Len(data)
  /\ \A i \in DOMAIN data : data[i] \in [id : RowIds \cup {None}, n : Nat \cup {None}]

LEMMA CreateIs ==
  ASSUME M!WellFormed, NEW c \in M!CreateCalls
  PROVE  /\ DataRight(c.data) /\ c.data \in Datas
         /\ c.verb = "create" /\ c.nested = FALSE /\ c.back \in BOOLEAN /\ c.skip \in BOOLEAN
<1>1. c.data \in Datas /\ c.verb = "create" /\ c.nested = FALSE /\ c.back \in BOOLEAN /\ c.skip \in BOOLEAN
  <2>1. M!CreateCalls =
          [verb : {"create"}, data : Datas, skip : BOOLEAN, back : BOOLEAN, rest : {None}, join : {None}, nested : {FALSE}]
    BY DEF M!CreateCalls, Datas
  <2> QED BY <2>1
<1>2. Len(c.data) \in {1, 2} /\ DOMAIN c.data = 1 .. Len(c.data) /\ \A i \in DOMAIN c.data : c.data[i] \in NewPosts
  BY <1>1, DatasAre
<1>3. NewPosts \subseteq [id : RowIds \cup {None}, n : Nat \cup {None}]
  BY DEF M!WellFormed
<1>4. \A i \in DOMAIN c.data : c.data[i] \in [id : RowIds \cup {None}, n : Nat \cup {None}]
  BY <1>2, <1>3
<1> QED BY <1>1, <1>2, <1>4 DEF DataRight

\* The ids are ids of the table; those the database makes follow each other.
LEMMA IdIs ==
  ASSUME M!WellFormed, NEW data, DataRight(data)
  PROVE  /\ \A i \in DOMAIN data : M!IdOf(data, i) \in RowIds
         /\ \A i \in DOMAIN data : data[i].id # None => M!IdOf(data, i) = data[i].id
         /\ (\A i \in DOMAIN data : data[i].id = None) => \A i \in DOMAIN data : M!IdOf(data, i) = M!FirstId + i - 1
<1>1. M!FirstId \in Nat /\ M!FirstId \in RowIds /\ M!FirstId + 1 \in RowIds
  BY DEF M!WellFormed
<1>2. ASSUME NEW i \in DOMAIN data
      PROVE  /\ i \in {1, 2} /\ 1 .. i \subseteq DOMAIN data /\ data[i].id \in RowIds \cup {None}
             /\ M!Cardinality(M!Undefined(data, i)) \in Nat
             /\ data[i].id = None => M!Cardinality(M!Undefined(data, i)) \in {1, 2}
             /\ (\A k \in 1 .. i : data[k].id = None) => M!Cardinality(M!Undefined(data, i)) = i
  <2>1. i \in {1, 2} /\ 1 .. i \subseteq DOMAIN data /\ data[i].id \in RowIds \cup {None}
    BY DEF DataRight
  <2> QED BY <2>1, UndefinedCount
<1>3. ASSUME NEW i \in DOMAIN data, data[i].id # None
      PROVE  M!IdOf(data, i) = data[i].id /\ M!IdOf(data, i) \in RowIds
  BY <1>2, <1>3 DEF M!IdOf
<1>4. ASSUME NEW i \in DOMAIN data, data[i].id = None
      PROVE  M!IdOf(data, i) \in RowIds
  <2>1. M!IdOf(data, i) = M!FirstId + (M!Cardinality(M!Undefined(data, i)) - 1)
    BY <1>4 DEF M!IdOf, M!NewId
  <2>2. M!Cardinality(M!Undefined(data, i)) = 1 \/ M!Cardinality(M!Undefined(data, i)) = 2
    BY <1>2, <1>4
  <2> QED BY <1>1, <2>1, <2>2
<1>5. ASSUME \A k \in DOMAIN data : data[k].id = None, NEW i \in DOMAIN data
      PROVE  M!IdOf(data, i) = M!FirstId + i - 1
  <2>1. M!IdOf(data, i) = M!FirstId + (M!Cardinality(M!Undefined(data, i)) - 1)
    BY <1>5 DEF M!IdOf, M!NewId
  <2>2. M!Cardinality(M!Undefined(data, i)) = i
    BY <1>2, <1>5
  <2> QED BY <1>1, <1>2, <2>1, <2>2
<1> QED BY <1>3, <1>4, <1>5

LEMMA FilledIs ==
  ASSUME M!WellFormed, NEW data, DataRight(data)
  PROVE  /\ DataRight(M!Filled(data)) /\ Len(M!Filled(data)) = Len(data)
         /\ primaryKey = "serial" => M!Filled(data) = data
         /\ primaryKey # "serial" => \A i \in DOMAIN M!Filled(data) : M!Filled(data)[i].id \in RowIds
<1>1. CASE primaryKey = "serial"
  BY <1>1 DEF M!Filled
<1>2. CASE primaryKey # "serial"
  <2> DEFINE f == [i \in DOMAIN data |-> [data[i] EXCEPT !.id = M!IdOf(data, i)]]
             Made == [id : RowIds, n : Nat \cup {None}]
  <2>1. M!Filled(data) = f
    BY <1>2 DEF M!Filled
  <2>2. ASSUME NEW i \in DOMAIN data
        PROVE  f[i] \in Made
    <3>1. data[i] \in [id : RowIds \cup {None}, n : Nat \cup {None}] /\ M!IdOf(data, i) \in RowIds
      BY IdIs DEF DataRight
    <3> QED BY <3>1
  <2>3. Len(f) = Len(data) /\ DOMAIN f = DOMAIN data
    <3>1. DOMAIN f = 1 .. Len(data) /\ Len(data) \in Nat
      BY DEF DataRight
    <3> QED BY <3>1 DEF DataRight
  <2> HIDE DEF f
  <2>4. \A i \in DOMAIN data : f[i] \in [id : RowIds \cup {None}, n : Nat \cup {None}] /\ f[i].id \in RowIds
    BY <2>2
  <2> QED BY <1>2, <2>1, <2>3, <2>4 DEF DataRight
<1> QED BY <1>1, <1>2

LEMMA RowIs == ASSUME M!WellFormed, NEW data, DataRight(data), NEW i \in DOMAIN data PROVE M!RowOf(data, i) \in M!Row
<1>1. (CHOOSE a \in Authors : TRUE) \in Nat
  BY DEF M!WellFormed
<1>2. (IF data[i].n = None THEN 0 ELSE data[i].n) \in Nat
  BY DEF DataRight
<1> QED BY <1>1, <1>2 DEF M!RowOf, M!Row

LEMMA InsertedIs ==
  ASSUME M!WellFormed, NEW data, DataRight(data), rows \in PostTables
  PROVE  LET ids == {M!IdOf(data, i) : i \in M!Fresh(data)}
         IN /\ M!Inserted(data) \in PostTables /\ ids \subseteq M!Present(M!Inserted(data))
            /\ \A i \in RowIds \ ids : M!Inserted(data)[i] = rows[i]
<1> DEFINE ids == {M!IdOf(data, i) : i \in M!Fresh(data)}
<1>1. \A i \in M!Fresh(data) : i \in DOMAIN data
  BY DEF M!Fresh
<1>2. ids \subseteq RowIds
  BY <1>1, IdIs
<1>3. Absent \notin M!Row
  BY DEF M!WellFormed
<1>4. ASSUME NEW id \in ids PROVE M!Inserted(data)[id] \in M!Row
  <2> DEFINE at == CHOOSE i \in M!Fresh(data) : M!IdOf(data, i) = id
  <2>1. at \in M!Fresh(data)
    BY <1>4
  <2>2. M!Inserted(data)[id] = M!RowOf(data, at)
    BY <1>2, <1>4 DEF M!Inserted
  <2> HIDE DEF at
  <2> QED BY <1>1, <2>1, <2>2, RowIs
<1>5. ASSUME NEW id \in RowIds \ ids PROVE M!Inserted(data)[id] = rows[id]
  BY DEF M!Inserted
<1>6. M!Inserted(data) = [id \in RowIds |-> M!Inserted(data)[id]]
  BY DEF M!Inserted
<1>7. \A id \in RowIds : M!Inserted(data)[id] \in M!Row \cup {Absent}
  BY <1>4, <1>5 DEF PostTables
<1>8. M!Inserted(data) \in PostTables
  BY <1>6, <1>7 DEF PostTables
<1>9. ids \subseteq M!Present(M!Inserted(data))
  BY <1>2, <1>3, <1>4 DEF M!Present
<1> QED BY <1>5, <1>8, <1>9

LEMMA NamesOf ==
  ASSUME NEW data
  PROVE  M!Named({<<M!IdOf(data, i), data[i]>> : i \in DOMAIN data}) = {M!IdOf(data, i) : i \in DOMAIN data}
<1> DEFINE ps == {<<M!IdOf(data, i), data[i]>> : i \in DOMAIN data}
<1>1. \A i \in DOMAIN data : <<M!IdOf(data, i), data[i]>> \in ps /\ <<M!IdOf(data, i), data[i]>>[1] = M!IdOf(data, i)
  OBVIOUS
<1>2. \A p \in ps : \E i \in DOMAIN data : p[1] = M!IdOf(data, i)
  OBVIOUS
<1> HIDE DEF ps
<1>3. M!Named(ps) = {M!IdOf(data, i) : i \in DOMAIN data}
  BY <1>1, <1>2 DEF M!Named
<1> QED BY <1>3 DEF ps

\* The keys a createMany is read again by are those of the rows it wrote, if they can be known.
LEMMA ReloadIs ==
  ASSUME M!WellFormed, NEW data, DataRight(data), M!Fresh(data) = DOMAIN data,
         (\A i \in DOMAIN data : data[i].id = None) \/ (\A i \in DOMAIN data : data[i].id # None),
         (\A i \in DOMAIN data : data[i].id = None) => primaryKey = "serial" /\ ~call.skip,
         (\A i \in DOMAIN data : data[i].id # None) => ~(primaryKey = "serial" /\ ~call.skip)
  PROVE  M!Named(M!ToReload(data)) = {M!IdOf(data, i) : i \in M!Fresh(data)}
<1>1. CASE \A i \in DOMAIN data : data[i].id = None
  <2>1. 1 \in DOMAIN data /\ Len(data) \in DOMAIN data /\ DOMAIN data = 1 .. Len(data)
    BY DEF DataRight
  <2>2. M!Undefined(data, Len(data)) = 1 .. Len(data)
    BY <1>1, <2>1 DEF M!Undefined
  <2>3. M!InsertId(data) = M!IdOf(data, CHOOSE i \in 1 .. Len(data) : \A j \in 1 .. Len(data) : i <= j)
    BY <2>1, <2>2 DEF M!InsertId
  <2>4. (CHOOSE i \in 1 .. Len(data) : \A j \in 1 .. Len(data) : i <= j) = 1
    BY <2>1
  <2>5. \A i \in DOMAIN data : M!IdOf(data, i) = M!FirstId + i - 1
    BY <1>1, IdIs
  <2>6. M!FirstId \in Nat /\ \A i \in DOMAIN data : i \in Nat
    <3>1. M!FirstId \in Nat
      BY DEF M!WellFormed
    <3> QED BY <2>1, <3>1
  <2>7. M!InsertId(data) = M!FirstId
    <3>1. M!InsertId(data) = M!IdOf(data, 1)
      BY <2>3, <2>4
    <3>2. M!IdOf(data, 1) = M!FirstId + 1 - 1
      BY <2>1, <2>5
    <3> QED BY <2>6, <3>1, <3>2
  <2>8. \A i \in DOMAIN data : M!InsertId(data) + i - 1 = M!IdOf(data, i)
    BY <2>5, <2>7
  <2>9. M!ToReload(data) = {<<M!IdOf(data, i), data[i]>> : i \in DOMAIN data}
    <3>1. M!ToReload(data) = M!Synthesized(data)
      BY <1>1 DEF M!ToReload
    <3> QED BY <2>8, <3>1 DEF M!Synthesized
  <2> QED BY <2>9, NamesOf
<1>2. CASE (\A i \in DOMAIN data : data[i].id # None) /\ ~(primaryKey = "serial" /\ ~call.skip)
  <2>1. M!ToReload(data) = {<<data[i].id, data[i]>> : i \in DOMAIN data}
    BY <1>2 DEF M!ToReload
  <2>2. \A i \in DOMAIN data : data[i].id = M!IdOf(data, i)
    BY <1>2, IdIs
  <2>3. M!ToReload(data) = {<<M!IdOf(data, i), data[i]>> : i \in DOMAIN data}
    BY <2>1, <2>2
  <2> QED BY <2>3, NamesOf
<1> QED BY <1>1, <1>2

(* Every step keeps it. *)

LEMMA ManyStarts == ASSUME M!WellFormed, M!Init PROVE ManyIsRight
<1>1. rows \in PostTables /\ meant.before = rows
  BY DEF M!Init, M!WellFormed, PostTables
<1>2. TextsRight
  <2>1. CASE texts = <<>>
    BY <2>1 DEF TextsRight
  <2>2. CASE \E c \in M!UpdateCalls : texts = [key \in {M!UpdateKey(c)} |-> M!BuildUpdate(c)]
    <3>1. PICK c \in M!UpdateCalls : texts = [key \in {M!UpdateKey(c)} |-> M!BuildUpdate(c)]
      BY <2>2
    <3>2. \A key \in DOMAIN texts : key = M!UpdateKey(c) /\ texts[key] = M!BuildUpdate(c)
      BY <3>1
    <3> QED BY <3>2 DEF TextsRight
  <2> QED BY <2>1, <2>2 DEF M!Init
<1>3. phase = "idle" /\ children = {} /\ ~disturbed /\ Untouched
  BY DEF M!Init, Untouched
<1> QED BY <1>1, <1>2, <1>3
    DEF ManyIsRight, CallRight, ManyIdle, ManySelecting, ManyWriting, ManyReloading, ManyNesting, M!AnsweredAreAffected

\* What a step that keeps the call keeps besides.
LEMMA CallKept ==
  ASSUME ManyIsRight, M!Steady, phase # "idle"
  PROVE  /\ CallRight' /\ (M!Unknowable' <=> M!Unknowable) /\ (M!SelectsFirst(call)' <=> M!SelectsFirst(call))
         /\ texts' = texts => TextsRight'
<1>1. dialect' = dialect /\ primaryKey' = primaryKey /\ call' = call
  BY DEF M!Steady
<1>2. CallRight'
  BY <1>1 DEF ManyIsRight, CallRight
<1>3. M!Unknowable' <=> M!Unknowable
  BY <1>1 DEF M!Unknowable, M!supportsReturning
<1>4. M!SelectsFirst(call)' <=> M!SelectsFirst(call)
  BY <1>1 DEF M!SelectsFirst, M!supportsReturning, M!supportsUpdateReturning, M!MySqlFamily
<1>5. ASSUME texts' = texts PROVE TextsRight'
  <2>1. ASSUME NEW key \in DOMAIN texts PROVE \E d \in M!UpdateCalls : M!UpdateKey(d)' = key /\ texts[key] = M!BuildUpdate(d)'
    <3>1. PICK d \in M!UpdateCalls : M!UpdateKey(d) = key /\ texts[key] = M!BuildUpdate(d)
      BY DEF ManyIsRight, TextsRight
    <3> QED BY <1>1, <3>1, SameOnDialect
  <2> QED BY <1>5, <2>1 DEF TextsRight
<1> QED BY <1>2, <1>3, <1>4, <1>5

\* An answer with the rows ps.
LEMMA AnsweredWell ==
  ASSUME M!WellFormed, ManyIsRight, M!Steady, phase # "idle", NEW ps, M!Answered(ps), texts' = texts \/ TextsRight',
         rows' \in PostTables, meant'.before \in PostTables,
         call.nested => children' = M!Named(mapped'),
         ~disturbed =>
           /\ rows' = meant'.after /\ meant'.ids \subseteq RowIds
           /\ call.nested => children' = meant'.ids
           /\ (~call.back \/ ~M!Unknowable) =>
                /\ \E t : ps = M!Pairs(meant'.ids, t)
                /\ call.back => ps = M!Pairs(meant'.ids, IF call.verb = "delete" THEN meant'.before ELSE meant'.after)
  PROVE  ManyIsRight'
<1>1. /\ CallRight' /\ (M!Unknowable' <=> M!Unknowable) /\ TextsRight'
      /\ phase' = "answered" /\ reply' = [kind |-> "rows", rows |-> IF call.back THEN ps ELSE {}, count |-> M!Cardinality(ps)]
      /\ call' = call /\ disturbed' = disturbed
  BY CallKept DEF M!Answered, M!Answer, M!Steady
<1>2. ASSUME ~disturbed, ~call.back \/ ~M!Unknowable PROVE M!Cardinality(ps) = M!Cardinality(meant'.ids)
  <2>1. PICK t : ps = M!Pairs(meant'.ids, t)
    BY <1>2
  <2>2. M!IsFiniteSet(meant'.ids)
    BY <1>2, FS_Subset, SameCount DEF M!WellFormed
  <2> QED BY <2>1, <2>2, PairsCount
<1>3. M!AnsweredAreAffected'
  BY <1>1, <1>2 DEF M!AnsweredAreAffected
<1> QED BY <1>1, <1>3 DEF ManyIsRight, ManyIdle, ManySelecting, ManyWriting, ManyReloading, ManyNesting

\* An error.
LEMMA FailedWell ==
  ASSUME M!WellFormed, ManyIsRight, M!Answer("error", {}, 0), CallRight', TextsRight', rows' \in PostTables, meant'.before \in PostTables,
         ~disturbed' => rows' = meant'.before /\ children' = {}
  PROVE  ManyIsRight'
<1>1. phase' = "answered" /\ reply'.kind = "error"
  BY DEF M!Answer
<1>2. M!AnsweredAreAffected'
  BY <1>1 DEF M!AnsweredAreAffected
<1> QED BY <1>1, <1>2 DEF ManyIsRight, ManyIdle, ManySelecting, ManyWriting, ManyReloading, ManyNesting

LEMMA KindsApart ==
  /\ \A c \in M!UpdateCalls : c.verb = "update" /\ c.back \in BOOLEAN /\ c.nested \in BOOLEAN /\ (c.data = <<>> => c.nested)
  /\ \A c \in M!DeleteCalls : c.verb = "delete" /\ c.back \in BOOLEAN /\ ~c.nested
  /\ \A c \in M!CreateCalls : c.verb = "create" /\ c.back \in BOOLEAN /\ ~c.nested
<1>1. \A c \in M!UpdateCalls : c.verb = "update" /\ c.back \in BOOLEAN /\ c.nested \in BOOLEAN /\ (c.data = <<>> => c.nested)
  BY DEF M!UpdateCalls
<1>2. \A c \in M!DeleteCalls : c.verb = "delete" /\ c.back \in BOOLEAN /\ ~c.nested
  BY DEF M!DeleteCalls
<1>3. \A c \in M!CreateCalls : c.verb = "create" /\ c.back \in BOOLEAN /\ ~c.nested
  <2>1. M!CreateCalls =
          [verb : {"create"}, data : Datas, skip : BOOLEAN, back : BOOLEAN, rest : {None}, join : {None}, nested : {FALSE}]
    BY DEF M!CreateCalls, Datas
  <2> QED BY <2>1
<1> QED BY <1>1, <1>2, <1>3

\* The call begins.
LEMMA StartKeeps == ASSUME M!WellFormed, ManyIsRight, M!Start PROVE ManyIsRight'
<1>1. /\ phase = "idle" /\ children = {} /\ ~disturbed /\ Untouched /\ rows \in PostTables /\ meant.before \in PostTables
      /\ UNCHANGED <<dialect, primaryKey, rows, children, texts, first, mapped, meant, disturbed>>
  BY DEF M!Start, ManyIsRight, ManyIdle
<1>2. PICK c \in M!UpdateCalls \cup M!DeleteCalls \cup M!CreateCalls :
        /\ c.verb = "create" \/ c.nested => primaryKey # "none"
        /\ call' = c
        /\ IF c.verb = "update" /\ dialect = "sqlite" /\ c.useJoin = "yes" THEN M!Answer("error", {}, 0)
           ELSE M!Goto(IF M!SelectsFirst(c) THEN "select" ELSE "write")
  BY DEF M!Start
<1>3. CallRight'
  BY <1>1, <1>2, KindsApart DEF CallRight
<1>4. TextsRight'
  <2>1. ASSUME NEW key \in DOMAIN texts PROVE \E d \in M!UpdateCalls : M!UpdateKey(d)' = key /\ texts[key] = M!BuildUpdate(d)'
    <3>1. PICK d \in M!UpdateCalls : M!UpdateKey(d) = key /\ texts[key] = M!BuildUpdate(d)
      BY DEF ManyIsRight, TextsRight
    <3> QED BY <1>1, <3>1, SameOnDialect
  <2> QED BY <1>1, <2>1 DEF TextsRight
<1>5. Untouched'
  BY <1>1 DEF Untouched
<1>6. CASE M!Answer("error", {}, 0)
  BY <1>1, <1>3, <1>4, <1>5, <1>6, FailedWell DEF Untouched
<1>7. CASE M!Goto(IF M!SelectsFirst(c) THEN "select" ELSE "write")
  <2>1. M!SelectsFirst(call)' <=> M!SelectsFirst(c)
    BY <1>1, <1>2 DEF M!SelectsFirst, M!supportsReturning, M!supportsUpdateReturning, M!MySqlFamily
  <2>2. M!SelectsFirst(c) => c \notin M!CreateCalls
    BY KindsApart DEF M!SelectsFirst
  <2>3. phase' = "select" \/ phase' = "write"
    BY <1>7 DEF M!Goto
  <2>4. ManySelecting'
    BY <1>1, <1>2, <1>5, <1>7, <2>1, <2>2 DEF ManySelecting, M!Goto
  <2>5. ManyWriting'
    BY <1>1, <1>5, <1>7, <2>1 DEF ManyWriting, M!Goto
  <2> QED BY <1>1, <1>3, <1>4, <2>3, <2>4, <2>5
      DEF ManyIsRight, ManyIdle, ManyReloading, ManyNesting, M!AnsweredAreAffected
<1> QED BY <1>2, <1>6, <1>7

LEMMA MatchingIn == ASSUME NEW c, NEW t PROVE M!Matching(c, t) \subseteq M!Present(t) /\ M!Matching(c, t) \subseteq RowIds
BY DEF M!Matching, M!Present

LEMMA DataFirst == ASSUME NEW data, DataRight(data) PROVE 1 \in DOMAIN data
BY DEF DataRight

\* The SELECT before the write.
LEMMA SelectKeeps == ASSUME M!WellFormed, ManyIsRight, M!Select PROVE ManyIsRight'
<1> DEFINE hits == M!Pairs(M!Matching(call, rows), rows)
<1>1. /\ phase = "select" /\ children = {} /\ ~disturbed /\ Untouched /\ M!SelectsFirst(call) /\ call \notin M!CreateCalls
      /\ rows \in PostTables /\ meant.before \in PostTables /\ rows' = rows /\ children' = children /\ texts' = texts /\ M!Steady
      /\ first' = rows /\ mapped' = hits
  BY DEF M!Select, ManyIsRight, ManySelecting
<1>2. CallRight' /\ (M!SelectsFirst(call)' <=> M!SelectsFirst(call)) /\ TextsRight' /\ call' = call /\ disturbed' = disturbed
  <2>1. phase # "idle"
    BY <1>1
  <2> QED BY <1>1, <2>1, CallKept DEF M!Steady
<1>3. M!Named(hits) = M!Matching(call, rows)
  BY PairsNamed
<1>4. M!Matching(call, rows) \subseteq M!Present(rows) /\ M!Matching(call, rows) \subseteq RowIds
  BY MatchingIn
<1> HIDE DEF hits
<1>5. CASE call.verb = "update" /\ call.data = <<>>
  <2>1. phase' = "nested" /\ meant' = [ids |-> M!Named(hits), before |-> rows, after |-> rows]
    BY <1>5, <1>1 DEF M!Select, M!Goto, hits
  <2>2. call \in M!UpdateCalls /\ call.nested
    BY <1>1, <1>5, KindsApart DEF ManyIsRight, CallRight
  <2>3. Written'
    BY <1>1, <1>3, <1>4, <2>1 DEF Written, M!Present, PostTables
  <2>4. mapped' = M!Pairs(meant'.ids, rows)
    BY <1>1, <1>3, <2>1 DEF hits
  <2>5. ManyNesting'
    BY <1>1, <1>2, <2>1, <2>2, <2>3, <2>4 DEF ManyNesting, M!Pairs
  <2> QED BY <1>1, <1>2, <2>1, <2>5 DEF ManyIsRight, ManyIdle, ManySelecting, ManyWriting, ManyReloading, M!AnsweredAreAffected, PostTables
<1>6. CASE ~(call.verb = "update" /\ call.data = <<>>) /\ call.verb = "delete" /\ hits = {}
  <2>1. M!Answered({}) /\ meant' = meant
    BY <1>1, <1>6 DEF M!Select, hits
  <2>2. call \in M!DeleteCalls
    BY <1>1, <1>6, KindsApart DEF ManyIsRight, CallRight
  <2>3. ~call.nested
    BY <2>2, KindsApart
  <2>4. \A t : {} = M!Pairs({}, t)
    BY DEF M!Pairs
  <2>5. phase # "idle" /\ rows' = meant'.after /\ meant'.ids = {}
    BY <1>1, <2>1 DEF Untouched
  <2> QED BY <1>1, <1>2, <2>1, <2>3, <2>4, <2>5, AnsweredWell
<1>7. CASE ~(call.verb = "update" /\ call.data = <<>>) /\ ~(call.verb = "delete" /\ hits = {})
  <2>1. phase' = "write" /\ meant' = meant
    BY <1>1, <1>7 DEF M!Select, M!Goto, hits
  <2>2. M!Matching(call, rows)' = M!Matching(call, rows)
    BY <1>1, <1>2 DEF M!Matching, M!Present
  <2>3. mapped' = M!Pairs(M!Matching(call, rows), rows)'
    BY <1>1, <2>2 DEF hits, M!Pairs
  <2>4. Untouched'
    BY <1>1, <2>1 DEF Untouched
  <2>5. ManyWriting'
    BY <1>1, <2>3, <2>4 DEF ManyWriting
  <2> QED BY <1>1, <1>2, <2>1, <2>5 DEF ManyIsRight, ManyIdle, ManySelecting, ManyNesting, ManyReloading, M!AnsweredAreAffected, PostTables
<1> QED BY <1>5, <1>6, <1>7

\* The DELETE.
LEMMA DeleteKeeps == ASSUME M!WellFormed, ManyIsRight, M!DeleteMany PROVE ManyIsRight'
<1> DEFINE ids == M!Matching(call, rows)
           table == [i \in RowIds |-> IF i \in ids THEN Absent ELSE rows[i]]
           ps == IF M!SelectsFirst(call) THEN mapped ELSE M!Pairs(ids, rows)
<1>1. /\ phase = "write" /\ phase # "idle" /\ call.verb = "delete" /\ rows \in PostTables /\ meant.before \in PostTables /\ texts' = texts /\ M!Steady
      /\ rows' = table /\ meant' = [ids |-> ids, before |-> rows, after |-> table]
      /\ M!Answered(ps)
  BY DEF M!DeleteMany, ManyIsRight
<1>2. call \in M!DeleteCalls
  BY <1>1, KindsApart DEF ManyIsRight, CallRight
<1>3. ~call.nested
  BY <1>2, KindsApart
<1>4. ids \subseteq RowIds
  BY MatchingIn
<1>5. table \in PostTables
  BY <1>1 DEF PostTables
<1>6. ~disturbed => ps = M!Pairs(ids, rows)
  BY <1>1 DEF ManyIsRight, ManyWriting
<1> HIDE DEF ids, table, ps
<1>7. ~disturbed => /\ rows' = meant'.after /\ meant'.ids \subseteq RowIds
                    /\ ps = M!Pairs(meant'.ids, meant'.before)
  BY <1>1, <1>4, <1>6
<1>8. rows' \in PostTables
  BY <1>1, <1>5
<1> QED BY <1>1, <1>3, <1>7, <1>8, AnsweredWell

\* The INSERT.
LEMMA CreateKeeps == ASSUME M!WellFormed, ManyIsRight, M!CreateMany PROVE ManyIsRight'
<1> DEFINE data == M!Filled(call.data)
           ids == {M!IdOf(data, i) : i \in M!Fresh(data)}
           Refused == (M!Uneven(data) /\ dialect = "sqlite") \/ (M!Fresh(data) # DOMAIN data /\ ~call.skip)
<1>1. /\ phase = "write" /\ phase # "idle" /\ call.verb = "create" /\ rows \in PostTables /\ meant.before \in PostTables /\ texts' = texts /\ M!Steady
      /\ children' = children /\ children = {} /\ (~disturbed => Untouched)
  BY DEF M!CreateMany, ManyIsRight, ManyWriting
<1>2. call \in M!CreateCalls /\ primaryKey # "none"
  BY <1>1, KindsApart DEF ManyIsRight, CallRight
<1>3. /\ DataRight(call.data) /\ ~call.nested
  BY <1>2, CreateIs
<1>4. /\ DataRight(data) /\ Len(data) = Len(call.data)
      /\ primaryKey = "serial" => data = call.data
      /\ primaryKey # "serial" => \A i \in DOMAIN data : data[i].id \in RowIds
  BY <1>3, FilledIs
<1>5. M!Inserted(data) \in PostTables /\ ids \subseteq M!Present(M!Inserted(data)) /\ \A i \in RowIds \ ids : M!Inserted(data)[i] = rows[i]
  BY <1>1, <1>4, InsertedIs
<1>6. CallRight' /\ TextsRight' /\ disturbed' = disturbed /\ call' = call /\ primaryKey' = primaryKey /\ (M!Unknowable' <=> M!Unknowable)
  BY <1>1, CallKept DEF M!Steady
<1>7. IF Refused
      THEN M!Answer("error", {}, 0) /\ UNCHANGED <<rows, meant, mapped>>
      ELSE /\ rows' = M!Inserted(data)
           /\ meant' = [ids |-> ids, before |-> rows, after |-> M!Inserted(data)]
           /\ IF ~call.back \/ M!supportsReturning THEN M!Answered(M!Pairs(ids, rows')) /\ UNCHANGED mapped
              ELSE IF M!ToReload(data) # {} THEN M!Goto("reload") /\ mapped' = M!ToReload(data)
              ELSE M!Answered({<<data[i].id, data[i]>> : i \in DOMAIN data}) /\ UNCHANGED mapped
  BY DEF M!CreateMany
<1>8. ids \subseteq RowIds
  BY <1>5 DEF M!Present
<1>9. CASE Refused
  <2>1. M!Answer("error", {}, 0) /\ rows' = rows /\ meant' = meant
    BY <1>7, <1>9
  <2> QED BY <1>1, <1>6, <2>1, FailedWell DEF Untouched
<1>10. CASE ~Refused
  <2>1. rows' = M!Inserted(data) /\ meant' = [ids |-> ids, before |-> rows, after |-> M!Inserted(data)]
    BY <1>7, <1>10
  <2>2. call.skip \/ M!Fresh(data) = DOMAIN data
    BY <1>10
  <2>3. ASSUME ~M!supportsReturning, ~M!Unknowable
        PROVE  /\ ~call.skip
               /\ primaryKey = "serial" => \A i \in DOMAIN data : data[i].id = None
    BY <1>1, <1>4, <2>3 DEF M!Unknowable
  <2>4. ASSUME ~M!supportsReturning, ~M!Unknowable
        PROVE  M!Named(M!ToReload(data)) = ids
    <3>1. None \notin RowIds
      BY DEF M!WellFormed
    <3>2. (\A i \in DOMAIN data : data[i].id = None) \/ (\A i \in DOMAIN data : data[i].id # None)
      BY <1>4, <2>3, <2>4, <3>1
    <3>3. (\A i \in DOMAIN data : data[i].id = None) => primaryKey = "serial" /\ ~call.skip
      <4>1. 1 \in DOMAIN data
        BY <1>4, DataFirst
      <4> QED BY <1>4, <2>3, <2>4, <3>1, <4>1
    <3>4. (\A i \in DOMAIN data : data[i].id # None) => ~(primaryKey = "serial" /\ ~call.skip)
      <4>1. 1 \in DOMAIN data
        BY <1>4, DataFirst
      <4> QED BY <2>3, <2>4, <4>1
    <3> HIDE DEF data
    <3>5. M!Fresh(data) = DOMAIN data
      BY <2>2, <2>3, <2>4
    <3> QED BY <1>4, <3>2, <3>3, <3>4, <3>5, ReloadIs
  <2> HIDE DEF data, ids
  <2>5. rows' \in PostTables /\ meant'.before \in PostTables
    BY <1>1, <1>5, <2>1
  <2>6. CASE ~call.back \/ M!supportsReturning
    <3>1. M!Answered(M!Pairs(ids, rows'))
      BY <1>7, <1>10, <2>6
    <3>2. rows' = meant'.after /\ meant'.ids \subseteq RowIds /\ M!Pairs(ids, rows') = M!Pairs(meant'.ids, meant'.after)
      BY <1>8, <2>1
    <3> QED BY <1>1, <1>3, <2>5, <3>1, <3>2, AnsweredWell
  <2>7. CASE call.back /\ ~M!supportsReturning /\ M!ToReload(data) # {}
    <3>1. phase' = "reload" /\ mapped' = M!ToReload(data)
      BY <1>7, <1>10, <2>7 DEF M!Goto
    <3>2. Written'
      BY <1>1, <1>5, <2>1 DEF Written, PostTables, M!Present
    <3>3. ~M!Unknowable => M!Named(mapped') = meant'.ids
      BY <2>1, <2>4, <2>7, <3>1
    <3>4. call \notin M!DeleteCalls
      BY <1>1, KindsApart
    <3>5. ManyReloading'
      BY <1>1, <1>6, <2>7, <3>2, <3>3, <3>4 DEF ManyReloading, M!Named
    <3> QED BY <1>1, <1>6, <2>5, <3>1, <3>5 DEF ManyIsRight, ManyIdle, ManySelecting, ManyWriting, ManyNesting, M!AnsweredAreAffected, PostTables
  <2>8. CASE call.back /\ ~M!supportsReturning /\ M!ToReload(data) = {}
    <3>1. M!Answered({<<data[i].id, data[i]>> : i \in DOMAIN data})
      BY <1>7, <1>10, <2>8
    <3>2. M!Unknowable
      <4>1. 1 \in DOMAIN data
        BY <1>4, DataFirst
      <4>2. ASSUME ~M!Unknowable PROVE FALSE
        <5>1. M!Named(M!ToReload(data)) = {} /\ ids = {}
          BY <2>4, <2>8, <4>2 DEF M!Named
        <5>2. M!Fresh(data) = DOMAIN data
          BY <2>2, <2>3, <2>8, <4>2
        <5> QED BY <4>1, <5>1, <5>2 DEF ids
      <4> QED BY <4>2
    <3>3. rows' = meant'.after /\ meant'.ids \subseteq RowIds
      BY <1>8, <2>1
    <3> DEFINE ps == {<<data[i].id, data[i]>> : i \in DOMAIN data}
    <3> HIDE DEF ps
    <3>4. M!Answered(ps)
      BY <3>1 DEF ps
    <3> QED BY <1>1, <1>3, <2>5, <2>8, <3>2, <3>3, <3>4, AnsweredWell
  <2> QED BY <2>6, <2>7, <2>8
<1> QED BY <1>9, <1>10

\* The UPDATE.
LEMMA UpdateKeeps == ASSUME M!WellFormed, ManyIsRight, M!UpdateMany PROVE ManyIsRight'
<1> DEFINE text == M!UpdateText(call)
           params == M!Assignments(call) \o M!WhereParams(call)
           ids == M!Selected(text, params)
           about == M!Matching(call, rows)
           after == [i \in RowIds |-> IF i \in about THEN M!After(call, rows[i]) ELSE rows[i]]
<1>1. /\ phase = "write" /\ phase # "idle" /\ call.verb = "update" /\ rows \in PostTables /\ meant.before \in PostTables /\ M!Steady
      /\ children' = children /\ children = {} /\ TextsRight
      /\ ~disturbed => Untouched /\ (M!SelectsFirst(call) => mapped = M!Pairs(M!Matching(call, rows), rows))
  BY DEF M!UpdateMany, ManyIsRight, ManyWriting
<1>2. call \in M!UpdateCalls /\ (call.nested => primaryKey # "none") /\ call.nested \in BOOLEAN /\ call.back \in BOOLEAN
      /\ call \notin M!DeleteCalls
  BY <1>1, KindsApart DEF ManyIsRight, CallRight
<1>3. /\ rows' = [i \in RowIds |-> IF i \in ids THEN M!Assigned(rows[i], text, params) ELSE rows[i]]
      /\ texts' = [key \in DOMAIN texts \cup {M!UpdateKey(call)} |-> IF key = M!UpdateKey(call) THEN text ELSE texts[key]]
      /\ meant' = [ids |-> about, before |-> rows, after |-> after]
  BY DEF M!UpdateMany
<1>4. IF M!SelectsFirst(call)
      THEN /\ UNCHANGED mapped
           /\ IF call.back /\ mapped # {} THEN M!Goto("reload")
              ELSE IF call.nested THEN M!Goto("nested") ELSE M!Answered({})
      ELSE /\ mapped' = M!Pairs(ids, rows')
           /\ IF call.nested THEN M!Goto("nested") ELSE M!Answered(M!Pairs(ids, rows'))
  BY DEF M!UpdateMany
<1>5. text = M!BuildUpdate(call)
  BY <1>1, <1>2, TextIs
<1>6. ids = about
  BY <1>2, <1>5, SelectedIs
<1>7. \A i \in RowIds : M!Assigned(rows[i], text, params) = M!After(call, rows[i])
  BY <1>2, <1>5, AssignedIs
<1>8. rows' = after
  BY <1>3, <1>6, <1>7
<1>9. about \subseteq M!Present(rows) /\ about \subseteq RowIds
  BY MatchingIn
<1>10. \A i \in about : rows[i] \in M!Row /\ M!After(call, rows[i]) \in M!Row
  <2>1. \A i \in about : rows[i] \in M!Row
    BY <1>1, <1>9 DEF PostTables, M!Present
  <2> QED BY <1>2, <2>1, AfterIs
<1>11. after \in PostTables
  BY <1>1, <1>10 DEF PostTables
<1>12. TextsRight'
  <2>1. dialect' = dialect
    BY <1>1 DEF M!Steady
  <2> QED BY <1>1, <1>2, <1>3, <2>1, TextsKept
<1>13. CallRight' /\ disturbed' = disturbed /\ call' = call /\ (M!Unknowable' <=> M!Unknowable)
  BY <1>1, CallKept DEF M!Steady
<1> HIDE DEF text, params, ids
<1>14. Written'
  <2>1. Absent \notin M!Row
    BY DEF M!WellFormed
  <2>2. \A i \in about : after[i] \in M!Row
    BY <1>9, <1>10
  <2>3. about \subseteq M!Present(after)
    BY <1>9, <2>1, <2>2 DEF M!Present
  <2>4. \A i \in RowIds \ about : after[i] = rows[i]
    OBVIOUS
  <2>5. rows' = meant'.after /\ meant'.before = rows /\ meant'.ids = about /\ meant'.after = after
    BY <1>3, <1>8
  <2> HIDE DEF about, after
  <2> QED BY <1>1, <2>3, <2>4, <2>5 DEF Written, M!Present, PostTables
<1>15. meant'.ids = about /\ meant'.before = rows /\ meant'.after = after /\ rows' = after
  BY <1>3, <1>8
<1>16. (~disturbed /\ M!SelectsFirst(call)) => mapped = M!Pairs(about, rows)
  BY <1>1
<1>17. M!Named(M!Pairs(about, rows)) = about
  BY PairsNamed
<1>18. (~disturbed /\ M!SelectsFirst(call) /\ mapped = {}) => about = {}
  <2>1. mapped = {} => M!Named(mapped) = {}
    BY DEF M!Named
  <2> QED BY <1>16, <1>17, <2>1
<1> HIDE DEF about, after
<1>19. \A t : M!Pairs({}, t) = {}
  BY DEF M!Pairs
<1>20. rows' \in PostTables /\ meant'.before \in PostTables
  BY <1>1, <1>11, <1>15
<1>21. ASSUME M!Goto("nested"), call.nested,
              ~disturbed => \E t \in PostTables : mapped' = M!Pairs(about, t),
              ~disturbed => (call.back => mapped' = M!Pairs(about, after))
       PROVE  ManyIsRight'
  <2>1. phase' = "nested"
    BY <1>21 DEF M!Goto
  <2>2. ManyNesting'
    BY <1>1, <1>2, <1>13, <1>14, <1>15, <1>21 DEF ManyNesting, M!Pairs, PostTables
  <2> QED BY <1>12, <1>13, <1>20, <2>1, <2>2 DEF ManyIsRight, ManyIdle, ManySelecting, ManyWriting, ManyReloading, M!AnsweredAreAffected, PostTables
<1>22. ASSUME NEW ps, M!Answered(ps), ~call.nested, ~disturbed => ps = M!Pairs(about, after) \/ (ps = {} /\ about = {})
       PROVE  ManyIsRight'
  <2>1. ~disturbed => ps = M!Pairs(meant'.ids, meant'.after)
    BY <1>15, <1>19, <1>22
  <2>2. rows' = meant'.after /\ meant'.ids \subseteq RowIds
    BY <1>9, <1>15
  <2>3. call.verb # "delete"
    BY <1>1
  <2> QED BY <1>1, <1>12, <1>20, <1>22, <2>1, <2>2, <2>3, AnsweredWell
<1>23. CASE ~M!SelectsFirst(call)
  <2>1. mapped' = M!Pairs(about, after)
    BY <1>4, <1>6, <1>15, <1>23
  <2>2. CASE call.nested
    BY <1>4, <1>11, <1>21, <1>23, <2>1, <2>2
  <2>3. CASE ~call.nested
    <3>1. M!Answered(M!Pairs(about, after))
      BY <1>4, <1>6, <1>15, <1>23, <2>3
    <3> QED BY <1>22, <2>3, <3>1
  <2> QED BY <2>2, <2>3
<1>24. CASE M!SelectsFirst(call) /\ call.back /\ mapped # {}
  <2>1. phase' = "reload" /\ mapped' = mapped
    BY <1>4, <1>24 DEF M!Goto
  <2>2. ~disturbed => M!Named(mapped') = meant'.ids
    BY <1>15, <1>16, <1>17, <1>24, <2>1
  <2>3. ManyReloading'
    BY <1>1, <1>2, <1>13, <1>14, <1>24, <2>2 DEF ManyReloading, M!Named
  <2> QED BY <1>12, <1>13, <1>20, <2>1, <2>3 DEF ManyIsRight, ManyIdle, ManySelecting, ManyWriting, ManyNesting, M!AnsweredAreAffected, PostTables
<1>25. CASE M!SelectsFirst(call) /\ ~(call.back /\ mapped # {}) /\ call.nested
  <2>1. M!Goto("nested") /\ mapped' = mapped
    BY <1>4, <1>25
  <2>2. ~disturbed => mapped' = M!Pairs(about, rows)
    BY <1>16, <1>25, <2>1
  <2>3. ~disturbed /\ call.back => mapped' = M!Pairs(about, after)
    BY <1>18, <1>19, <1>25, <2>1
  <2> QED BY <1>1, <1>21, <1>25, <2>1, <2>2, <2>3
<1>26. CASE M!SelectsFirst(call) /\ ~(call.back /\ mapped # {}) /\ ~call.nested
  <2>1. M!Answered({})
    BY <1>4, <1>26
  <2>2. call.back
    BY <1>1, <1>2, <1>26, KindsApart DEF M!SelectsFirst
  <2> QED BY <1>18, <1>22, <1>26, <2>1, <2>2
<1> QED BY <1>23, <1>24, <1>25, <1>26

\* What is seen of the rows the call wrote is what it wrote.
LEMMA ReloadedIs ==
  ASSUME M!WellFormed, ManyIsRight, Written, M!Named(mapped) = meant.ids, primaryKey # "none"
  PROVE  M!Reloaded = M!Pairs(meant.ids, meant.after)
<1>1. meant.ids \subseteq RowIds /\ meant.ids \subseteq M!Present(meant.after) /\ rows = meant.after
  BY DEF Written, M!Present
<1>2. \A i \in meant.ids : M!Seen[i] = meant.after[i] /\ i \in M!Present(M!Seen)
  BY <1>1 DEF M!Seen, M!Present
<1>3. M!Named(mapped) \cap M!Present(M!Seen) = meant.ids
  BY <1>2
<1>4. M!Reloaded = M!Pairs(meant.ids, M!Seen)
  BY <1>3 DEF M!Reloaded
<1> QED BY <1>2, <1>4, PairsSame

\* The SELECT after the write.
LEMMA ReloadKeeps == ASSUME M!WellFormed, ManyIsRight, M!Reload PROVE ManyIsRight'
<1>1. /\ phase = "reload" /\ phase # "idle" /\ rows \in PostTables /\ meant.before \in PostTables /\ M!Steady /\ rows' = rows /\ children' = children
      /\ children = {} /\ texts' = texts /\ meant' = meant /\ call.back /\ call \notin M!DeleteCalls
      /\ ~disturbed => Written /\ (~M!Unknowable => M!Named(mapped) = meant.ids)
  BY DEF M!Reload, ManyIsRight, ManyReloading
<1>2. /\ mapped' = IF call.verb = "create" /\ primaryKey = "serial" /\ ~call.skip /\ M!Reloaded = {} THEN mapped ELSE M!Reloaded
      /\ IF call.nested THEN M!Goto("nested") ELSE M!Answered(mapped')
  BY DEF M!Reload
<1>3. CallRight' /\ TextsRight' /\ disturbed' = disturbed /\ call' = call /\ (M!Unknowable' <=> M!Unknowable)
  BY <1>1, CallKept DEF M!Steady
<1>4. \/ call \in M!UpdateCalls /\ call.verb = "update" /\ (call.nested => primaryKey # "none")
      \/ call \in M!CreateCalls /\ call.verb = "create" /\ primaryKey # "none" /\ ~call.nested
  BY <1>1, KindsApart DEF ManyIsRight, CallRight
<1>5. ASSUME ~disturbed, ~M!Unknowable PROVE mapped' = M!Pairs(meant.ids, meant.after)
  <2>1. primaryKey # "none"
    BY <1>4, <1>5 DEF M!Unknowable
  <2>2. M!Reloaded = M!Pairs(meant.ids, meant.after)
    BY <1>1, <1>5, <2>1, ReloadedIs
  <2>3. CASE mapped' = M!Reloaded
    BY <2>2, <2>3
  <2>4. CASE M!Reloaded = {} /\ mapped' = mapped
    <3>1. M!Named(M!Pairs(meant.ids, meant.after)) = meant.ids
      BY PairsNamed
    <3>2. M!Named({}) = {}
      BY DEF M!Named
    <3>3. M!Named(mapped) = {}
      BY <1>1, <1>5, <2>2, <2>4, <3>1, <3>2
    <3>4. mapped = {}
      BY <3>3 DEF M!Named
    <3> QED BY <2>2, <2>4, <3>4
  <2> QED BY <1>2, <2>3, <2>4
<1>6. meant.ids \subseteq RowIds \/ disturbed
  BY <1>1 DEF Written, M!Present
<1>7. CASE call.nested
  <2>1. phase' = "nested"
    BY <1>2, <1>7 DEF M!Goto
  <2>2. call \in M!UpdateCalls /\ primaryKey # "none" /\ ~M!Unknowable
    BY <1>4, <1>7 DEF M!Unknowable
  <2>3. ~disturbed => Written'
    BY <1>1 DEF Written, M!Present
  <2>4. ~disturbed => meant.after \in PostTables /\ mapped' = M!Pairs(meant.ids, meant.after)
    BY <1>1, <1>5, <2>2 DEF Written
  <2>5. ManyNesting'
    BY <1>1, <1>3, <1>7, <2>2, <2>3, <2>4 DEF ManyNesting, M!Pairs, PostTables
  <2> QED BY <1>1, <1>3, <2>1, <2>5 DEF ManyIsRight, ManyIdle, ManySelecting, ManyWriting, ManyReloading, M!AnsweredAreAffected, PostTables
<1>8. CASE ~call.nested
  <2> DEFINE ps == mapped'
  <2>1. M!Answered(ps)
    BY <1>2, <1>8
  <2>2. ~disturbed => rows' = meant'.after /\ meant'.ids \subseteq RowIds
    BY <1>1, <1>6 DEF Written
  <2>3. ~disturbed /\ ~M!Unknowable => ps = M!Pairs(meant'.ids, meant'.after)
    BY <1>1, <1>5
  <2>4. call.verb # "delete"
    BY <1>4
  <2> HIDE DEF ps
  <2> QED BY <1>1, <1>8, <2>1, <2>2, <2>3, <2>4, AnsweredWell
<1> QED BY <1>7, <1>8

\* The relation writes.
LEMMA NestedKeeps == ASSUME M!WellFormed, ManyIsRight, M!NestedWrites PROVE ManyIsRight'
<1>1. /\ phase = "nested" /\ phase # "idle" /\ rows \in PostTables /\ meant.before \in PostTables /\ M!Steady /\ texts' = texts /\ meant' = meant /\ mapped' = mapped
      /\ children = {} /\ call \in M!UpdateCalls /\ call.nested
      /\ ~disturbed =>
           /\ Written
           /\ \E t \in PostTables : mapped = M!Pairs(meant.ids, t)
           /\ call.back => mapped = M!Pairs(meant.ids, meant.after)
  BY DEF M!NestedWrites, ManyIsRight, ManyNesting
<1>2. CallRight' /\ TextsRight' /\ disturbed' = disturbed
  BY <1>1, CallKept DEF M!Steady
<1>3. CASE children' = M!Named(mapped) /\ M!Answered(mapped) /\ rows' = rows
  <2>1. ~disturbed => M!Named(mapped) = meant.ids
    BY <1>1, PairsNamed
  <2>2. ~disturbed => rows = meant.after /\ meant.ids \subseteq RowIds
    BY <1>1 DEF Written, M!Present
  <2>3. call.verb # "delete"
    BY <1>1, KindsApart
  <2>4. children' = M!Named(mapped')
    BY <1>1, <1>3 DEF M!Named
  <2>5. rows' \in PostTables
    BY <1>1, <1>3
  <2>6. ~disturbed =>
          /\ rows' = meant'.after /\ meant'.ids \subseteq RowIds /\ children' = meant'.ids
          /\ \E t : mapped = M!Pairs(meant'.ids, t)
          /\ call.back => mapped = M!Pairs(meant'.ids, meant'.after)
    BY <1>1, <1>3, <2>1, <2>2
  <2> QED BY <1>1, <1>3, <2>3, <2>4, <2>5, <2>6, AnsweredWell
<1>4. CASE /\ rows' = [i \in RowIds |-> IF i \in meant.ids THEN meant.before[i] ELSE rows[i]]
           /\ M!Answer("error", {}, 0) /\ children' = children
  <2>1. ~disturbed => rows' = meant.before
    <3>1. ASSUME Written PROVE rows' = meant.before
      <4>1. \A i \in RowIds : rows'[i] = meant.before[i]
        BY <1>4, <3>1 DEF Written
      <4> QED BY <1>1, <1>4, <3>1, <4>1 DEF Written, PostTables
    <3> QED BY <1>1, <3>1
  <2>2. rows' \in PostTables
    BY <1>1, <1>4 DEF PostTables
  <2> QED BY <1>1, <1>2, <1>4, <2>1, <2>2, FailedWell
<1> QED BY <1>3, <1>4 DEF M!NestedWrites

\* Another client.
LEMMA DisturbKeeps == ASSUME M!WellFormed, ManyIsRight, M!Disturb PROVE ManyIsRight'
<1>1. /\ phase \in {"reload", "nested", "write"} /\ rows \in PostTables /\ meant.before \in PostTables /\ disturbed'
      /\ UNCHANGED <<dialect, primaryKey, children, texts, call, phase, first, mapped, reply, meant>>
  BY DEF M!Disturb, ManyIsRight
<1>2. PICK i \in Stored, row \in StrayPosts : rows' = [rows EXCEPT ![i] = row]
  BY DEF M!Disturb
<1>3. rows' \in PostTables
  <2>1. row \in M!Row \cup {Absent}
    BY DEF M!WellFormed
  <2> QED BY <1>1, <1>2, <2>1 DEF PostTables
<1>4. CallRight'
  BY <1>1 DEF ManyIsRight, CallRight
<1>5. TextsRight'
  <2>1. ASSUME NEW key \in DOMAIN texts PROVE \E d \in M!UpdateCalls : M!UpdateKey(d)' = key /\ texts[key] = M!BuildUpdate(d)'
    <3>1. PICK d \in M!UpdateCalls : M!UpdateKey(d) = key /\ texts[key] = M!BuildUpdate(d)
      BY DEF ManyIsRight, TextsRight
    <3> QED BY <1>1, <3>1, SameOnDialect
  <2> QED BY <1>1, <2>1 DEF TextsRight
<1>6. ManyWriting' /\ ManyReloading' /\ ManyNesting'
  BY <1>1 DEF ManyIsRight, ManyWriting, ManyReloading, ManyNesting
<1>7. ManyIdle' /\ ManySelecting' /\ M!AnsweredAreAffected'
  BY <1>1 DEF ManyIdle, ManySelecting, M!AnsweredAreAffected
<1> QED BY <1>1, <1>3, <1>4, <1>5, <1>6, <1>7 DEF ManyIsRight, PostTables

LEMMA StutterKeeps == ASSUME ManyIsRight, UNCHANGED M!vars PROVE ManyIsRight'
<1>1. UNCHANGED <<dialect, primaryKey, rows, children, texts, call, phase, first, mapped, reply, meant, disturbed>>
  BY DEF M!vars
<1>2. M!Unknowable' <=> M!Unknowable
  BY <1>1 DEF M!Unknowable, M!supportsReturning
<1>3. M!SelectsFirst(call)' <=> M!SelectsFirst(call)
  BY <1>1 DEF M!SelectsFirst, M!supportsReturning, M!supportsUpdateReturning, M!MySqlFamily
<1>4. TextsRight'
  <2>1. ASSUME NEW key \in DOMAIN texts PROVE \E d \in M!UpdateCalls : M!UpdateKey(d)' = key /\ texts[key] = M!BuildUpdate(d)'
    <3>1. PICK d \in M!UpdateCalls : M!UpdateKey(d) = key /\ texts[key] = M!BuildUpdate(d)
      BY DEF ManyIsRight, TextsRight
    <3> QED BY <1>1, <3>1, SameOnDialect
  <2> QED BY <1>1, <2>1 DEF TextsRight
<1>5. M!Matching(call, rows)' = M!Matching(call, rows) /\ M!Present(meant.after)' = M!Present(meant.after)
  BY <1>1 DEF M!Matching, M!Present
<1>6. CallRight' /\ Untouched' = Untouched /\ Written' = Written
  BY <1>1 DEF ManyIsRight, CallRight, Untouched, Written, M!Present
<1>7. ManyIdle' /\ ManySelecting' /\ ManyWriting'
  BY <1>1, <1>3, <1>5, <1>6 DEF ManyIsRight, ManyIdle, ManySelecting, ManyWriting, M!Pairs
<1>8. ManyReloading' /\ ManyNesting'
  BY <1>1, <1>2, <1>6 DEF ManyIsRight, ManyReloading, ManyNesting, M!Named, M!Pairs, PostTables
<1>9. M!AnsweredAreAffected'
  BY <1>1, <1>2 DEF ManyIsRight, M!AnsweredAreAffected, M!Named, M!Pairs
<1> QED BY <1>1, <1>4, <1>6, <1>7, <1>8, <1>9 DEF ManyIsRight, PostTables

LEMMA ManyStays == ASSUME M!WellFormed, ManyIsRight, [M!Next]_(M!vars) PROVE ManyIsRight'
<1>1. CASE UNCHANGED M!vars
  BY <1>1, StutterKeeps
<1>2. CASE M!Next
  <2>1. CASE M!Finished
    BY <2>1, StutterKeeps DEF M!Finished
  <2> QED BY <1>2, <2>1, StartKeeps, SelectKeeps, UpdateKeeps, DeleteKeeps, CreateKeeps, ReloadKeeps, NestedKeeps, DisturbKeeps
      DEF M!Next
<1> QED BY <1>1, <1>2

ManyInv == part = "many" => ManyIsRight

LEMMA ManyFromTheStart == Init => ManyInv
<1> SUFFICES ASSUME Init, part = "many" PROVE ManyIsRight
  BY DEF ManyInv
<1>1. M!Init
  BY DEF Init
<1> QED BY <1>1, ManyConstants, ManyStarts

LEMMA ManyGoesOn == ManyInv /\ [Next]_<<part, v1, v2, v3, v4, v5, v6, v7, v8, v9, v10, v11, v12, v13, v14>> => ManyInv'
<1> SUFFICES ASSUME ManyInv, [Next]_<<part, v1, v2, v3, v4, v5, v6, v7, v8, v9, v10, v11, v12, v13, v14>>,
                    part' = "many"
             PROVE  ManyIsRight'
  BY DEF ManyInv
<1>1. part = "many"
  BY DEF Next, WritesNext, RelationWritesNext, PaginateNext, RelationLoadNext, ManyWritesNext, StudioGridNext,
     AggregatesNext, ReadsNext, Kept
<1>2. ManyIsRight
  BY <1>1 DEF ManyInv
<1>3. M!Next \/ UNCHANGED <<v1, v2, v3, v4, v5, v6, v7, v8, v9, v10, v11, v12>>
  BY <1>1 DEF Next, WritesNext, RelationWritesNext, PaginateNext, RelationLoadNext, ManyWritesNext, StudioGridNext,
     AggregatesNext, ReadsNext
<1>4. [M!Next]_(M!vars)
  BY <1>3 DEF M!vars
<1> QED BY <1>2, <1>4, ManyConstants, ManyStays

\* AnsweredAreAffected, for any ids, stored rows and authors, any cached text,
\* dialect and primary key, and whatever another client writes between the
\* statements; of the data of the calls only ManyConstants is used.
THEOREM AnsweredAreAlwaysAffected == Spec => []AnsweredAreAffected
<1>1. ManyInv => AnsweredAreAffected
  BY DEF ManyInv, ManyIsRight, AnsweredAreAffected
<1> QED BY <1>1, ManyFromTheStart, ManyGoesOn, PTL DEF Spec
---------------------------------------------------------------------------
(* Walks over pages: a walk visits every row nobody wrote exactly once, for any
   table, page size and direction and any number of writes by others, when
   cursors hold the values of the order column exactly.  The lemmas are about
   that part, whose variables these are. *)
rank == v1
descending == v2
take == v3
request == v4
pc == v5
page == v6
start == v7
visited == v8
steady == v9
quiet == v10
writings == v11
USE DEF rank, descending, take, request, pc, page, start, visited, steady, quiet, writings

ExactCursors == Grain = 1

\* A row as it is answered, and as a cursor names it.
RowType == [rank : Nat, id : Ids]
Cursors == RowType \cup {None}
PageType == [items : Seq(RowType), hasMore : BOOLEAN, hasPrevious : BOOLEAN]

PageTypeOK ==
  /\ rank \in [Ids -> Ranks \cup {NoRow}] /\ descending \in BOOLEAN /\ take \in Nat \ {0}
  /\ request \in [after : Cursors, before : Cursors] /\ start \in Cursors
  /\ pc \in {"ask", "probe", "page"} /\ page \in PageType
  /\ visited \in Seq(RowType) /\ steady \subseteq Ids /\ quiet \in BOOLEAN

\* The cursor a query begins at, and what the walk is to visit.
From == IF P!Backward THEN request.before ELSE request.after
InWalk(row) == (start = None \/ P!Sooner(start, row)) /\ (P!Far = None \/ P!Sooner(row, P!Far))
\* The row lies where the walk has been.
Behind(row) ==
  IF pc = "ask" THEN From # None /\ (row = From \/ P!Sooner(row, From))
  ELSE P!Reached # None => row = P!Reached \/ P!Sooner(row, P!Reached)

\* A page with a neighbour has rows, and only a page before a cursor is probed.
PageHasRows ==
  /\ pc = "probe" => P!Backward
  /\ pc = "probe" \/ page.hasMore \/ page.hasPrevious => page.items # <<>>
\* The walk has not gone back behind its start.
Onward ==
  /\ start # None => From # None
  /\ pc = "ask" => start = None \/ start = From \/ P!Sooner(start, From)
  /\ pc # "ask" /\ P!Reached # None => start = None \/ P!Sooner(start, P!Reached)
InOrder == \A i, j \in DOMAIN visited : i < j => P!Precedes(visited[i], visited[j])
VisitedBehind == \A i \in DOMAIN visited : Behind(visited[i])
VisitedThere ==
  \A i \in DOMAIN visited :
    visited[i].id \in steady => visited[i] = P!Row(visited[i].id) /\ visited[i] \in P!Rows /\ InWalk(visited[i])
NoneLeftOut ==
  \A id \in steady :
    rank[id] # NoRow /\ InWalk(P!Row(id)) /\ Behind(P!Row(id)) => \E i \in DOMAIN visited : visited[i] = P!Row(id)

\* What the flags of the last page say while nobody writes.
Flags ==
  pc # "ask" /\ page.items # <<>> =>
    /\ ~P!Backward => (page.hasPrevious <=> request.after # None)
    /\ ~P!Backward /\ quiet => (page.hasMore <=> P!Within(P!Last(page.items), request.before) # {})
    /\ P!Backward /\ quiet => (page.hasPrevious <=> P!Within(None, Head(page.items)) # {})
    /\ P!Backward /\ quiet /\ pc = "page" => (page.hasMore <=> P!Within(P!Last(page.items), None) # {})

Walk == Onward /\ InOrder /\ VisitedBehind /\ VisitedThere /\ NoneLeftOut
PagesAreRight == PageTypeOK /\ PageHasRows /\ Walk /\ Flags
---------------------------------------------------------------------------
(* The order of rows. *)

LEMMA PrecedesIsOrder ==
  ASSUME P!WellFormed
  PROVE  /\ \A a \in RowType : ~P!Precedes(a, a)
         /\ \A a, b, c \in RowType : P!Precedes(a, b) /\ P!Precedes(b, c) => P!Precedes(a, c)
         /\ \A a, b \in RowType : a = b \/ P!Precedes(a, b) \/ P!Precedes(b, a)
<1>1. \A a \in RowType : a.rank \in Nat /\ a.id \in Nat
  BY DEF RowType, P!WellFormed
<1>2. \A a, b \in RowType : a.rank = b.rank /\ a.id = b.id => a = b
  BY DEF RowType
<1>3. \A a \in RowType : ~P!Precedes(a, a)
  BY <1>1 DEF P!Precedes, P!Less
<1>4. \A a, b, c \in RowType : P!Precedes(a, b) /\ P!Precedes(b, c) => P!Precedes(a, c)
  BY <1>1 DEF P!Precedes, P!Less
<1>5. \A a, b \in RowType : a = b \/ P!Precedes(a, b) \/ P!Precedes(b, a)
  BY <1>1, <1>2 DEF P!Precedes, P!Less
<1> QED BY <1>3, <1>4, <1>5

LEMMA SoonerIsOrder ==
  ASSUME P!WellFormed
  PROVE  /\ \A a \in RowType : ~P!Sooner(a, a)
         /\ \A a, b, c \in RowType : P!Sooner(a, b) /\ P!Sooner(b, c) => P!Sooner(a, c)
         /\ \A a, b \in RowType : a = b \/ P!Sooner(a, b) \/ P!Sooner(b, a)
BY PrecedesIsOrder DEF P!Sooner

\* An exact cursor is the row it was made of.
LEMMA CursorIsRow == ASSUME P!WellFormed, ExactCursors, NEW row \in RowType PROVE P!Cursor(row) = row
<1>1. row.rank \in Nat /\ row.rank % 1 = 0
  BY DEF RowType
<1> QED BY <1>1 DEF P!Cursor, ExactCursors, RowType

\* The rows of the table.
LEMMA TableRows ==
  ASSUME P!WellFormed, PageTypeOK
  PROVE  /\ P!Rows \subseteq RowType
         /\ \A id \in Ids : P!Row(id).id = id /\ P!Row(id).rank = rank[id] /\ (rank[id] # NoRow => P!Row(id) \in P!Rows)
         /\ \A row \in P!Rows : row.id \in Ids /\ rank[row.id] # NoRow /\ row = P!Row(row.id)
<1>1. \A id \in Ids : P!Row(id).id = id /\ P!Row(id).rank = rank[id]
  BY DEF P!Row
<1>2. \A id \in Ids : rank[id] # NoRow => P!Row(id) \in RowType
  BY DEF P!Row, RowType, PageTypeOK, P!WellFormed
<1> QED BY <1>1, <1>2 DEF P!Rows

LEMMA FoundRows ==
  ASSUME P!WellFormed, PageTypeOK
  PROVE  /\ P!Found \subseteq RowType
         /\ \A row \in P!Rows :
              row \in P!Found <=> (From = None \/ P!Sooner(From, row)) /\ (P!Far = None \/ P!Sooner(row, P!Far))
<1>1. P!Rows \subseteq RowType
  BY TableRows
<1> QED BY <1>1 DEF P!Found, P!Within, From, P!Far, P!Sooner, P!Backward
---------------------------------------------------------------------------
(* What one query answers. *)

\* Reversing a sequence.
LEMMA ReverseProperties ==
  ASSUME NEW S, NEW s \in Seq(S)
  PROVE  P!Reverse(s) \in Seq(S) /\ Len(P!Reverse(s)) = Len(s) /\ \A i \in 1 .. Len(s) : P!Reverse(s)[i] = s[Len(s) + 1 - i]
<1>1. Len(s) \in Nat /\ \A i \in 1 .. Len(s) : s[i] \in S /\ (Len(s) - i) + 1 \in 1 .. Len(s)
  BY LenProperties
<1>2. P!Reverse(s) = [i \in 1 .. Len(s) |-> s[(Len(s) - i) + 1]]
  BY DEF P!Reverse
<1>3. P!Reverse(s) \in [1 .. Len(s) -> S]
  BY <1>1, <1>2
<1>4. P!Reverse(s) \in Seq(S)
  BY <1>1, <1>3, SeqDef
<1>5. Len(P!Reverse(s)) = Len(s)
  BY <1>1, <1>3, <1>4, LenProperties
<1> QED BY <1>1, <1>2, <1>4, <1>5

\* The rows a query answers, in its own order.
LEMMA FetchedRows ==
  ASSUME P!WellFormed, PageTypeOK, NEW chosen \in P!Fetched
  PROVE  /\ chosen \in Seq(RowType) /\ Len(chosen) \in 0 .. take + 1 /\ DOMAIN chosen = 1 .. Len(chosen)
         /\ \A i \in 1 .. Len(chosen) : chosen[i] \in P!Found
         /\ \A i, j \in 1 .. Len(chosen) : i < j => P!Sooner(chosen[i], chosen[j])
         /\ \A row \in P!Found : \/ \E i \in 1 .. Len(chosen) : chosen[i] = row
                                 \/ Len(chosen) = take + 1 /\ \A i \in 1 .. Len(chosen) : P!Sooner(chosen[i], row)
<1>1. PICK n \in 0 .. take + 1 : chosen \in [1 .. n -> P!Found]
  BY DEF P!Fetched
<1>2. n \in Nat /\ P!Found \subseteq RowType
  BY FoundRows DEF PageTypeOK
<1>3. chosen \in [1 .. n -> RowType]
  BY <1>1, <1>2
<1>4. chosen \in Seq(RowType)
  BY <1>2, <1>3, SeqDef
<1>5. Len(chosen) = n /\ DOMAIN chosen = 1 .. Len(chosen)
  BY <1>2, <1>3, <1>4, LenProperties
<1> QED BY <1>1, <1>4, <1>5 DEF P!Fetched

\* The page made of them: the rows of a page in the caller's order.
Taken(chosen) == IF Len(chosen) > take THEN take ELSE Len(chosen)
Edge(chosen) == chosen[Taken(chosen)]

LEMMA PageItems ==
  ASSUME P!WellFormed, PageTypeOK, NEW chosen \in P!Fetched
  PROVE  /\ P!Page(chosen) \in PageType /\ Len(P!Page(chosen).items) = Taken(chosen)
         /\ \A i \in 1 .. Taken(chosen) : P!Page(chosen).items[i] = IF P!Backward THEN chosen[Taken(chosen) + 1 - i] ELSE chosen[i]
         /\ chosen = <<>> => P!Page(chosen) = P!Empty
         /\ chosen # <<>> => /\ P!Page(chosen).items # <<>>
                             /\ IF P!Backward THEN P!Page(chosen).hasPrevious = (Len(chosen) > take)
                                ELSE P!Page(chosen).hasMore = (Len(chosen) > take) /\ P!Page(chosen).hasPrevious = (request.after # None)
<1> DEFINE k == Taken(chosen)
           got == SubSeq(chosen, 1, k)
<1>1. /\ chosen \in Seq(RowType) /\ Len(chosen) \in Nat /\ take \in Nat \ {0}
      /\ k \in Nat /\ k <= Len(chosen) /\ (k = 0 <=> Len(chosen) = 0)
      /\ \A i \in 1 .. Len(chosen) : chosen[i] \in RowType
  BY FetchedRows, LenProperties DEF PageTypeOK, Taken
<1>2. got \in Seq(RowType) /\ Len(got) = k /\ \A i \in 1 .. k : got[i] = chosen[i]
  <2>1. \A i \in 1 .. k : chosen[i] \in RowType
    BY <1>1
  <2> HIDE DEF k
  <2>2. got \in Seq(RowType) /\ Len(got) = (IF 1 <= k THEN k - 1 + 1 ELSE 0) /\ \A i \in 1 .. k - 1 + 1 : got[i] = chosen[1 + i - 1]
    BY <1>1, <2>1, SubSeqProperties
  <2> QED BY <1>1, <2>2
<1>3. P!Reverse(got) \in Seq(RowType) /\ Len(P!Reverse(got)) = k /\ \A i \in 1 .. k : P!Reverse(got)[i] = chosen[k + 1 - i]
  <2> HIDE DEF k, got
  <2>1. P!Reverse(got) \in Seq(RowType) /\ Len(P!Reverse(got)) = k /\ \A i \in 1 .. k : P!Reverse(got)[i] = got[k + 1 - i]
    BY <1>2, ReverseProperties
  <2>2. \A i \in 1 .. k : k + 1 - i \in 1 .. k
    BY <1>1
  <2> QED BY <1>2, <2>1, <2>2
<1>4. P!Page(chosen) = IF got = <<>> THEN P!Empty
                       ELSE [items |-> IF P!Backward THEN P!Reverse(got) ELSE got, hasMore |-> Len(chosen) > take,
                             hasPrevious |-> IF P!Backward THEN Len(chosen) > take ELSE request.after # None]
  BY DEF P!Page, Taken
<1>5. (got = <<>> <=> k = 0) /\ (chosen = <<>> <=> k = 0) /\ (P!Reverse(got) = <<>> <=> k = 0)
  BY <1>1, <1>2, <1>3
<1>6. P!Empty \in PageType /\ P!Empty.items = <<>> /\ Len(<<>>) = 0
  BY DEF P!Empty, PageType
<1> HIDE DEF k, got
<1>7. CASE k = 0
  BY <1>1, <1>4, <1>5, <1>6, <1>7 DEF P!Empty, k
<1>8. CASE k # 0
  <2>1. P!Page(chosen) = [items |-> IF P!Backward THEN P!Reverse(got) ELSE got, hasMore |-> Len(chosen) > take,
                          hasPrevious |-> IF P!Backward THEN Len(chosen) > take ELSE request.after # None]
    BY <1>4, <1>5, <1>8
  <2>2. P!Page(chosen) \in PageType
    <3> DEFINE more == Len(chosen) > take
               previous == IF P!Backward THEN Len(chosen) > take ELSE request.after # None
               items == IF P!Backward THEN P!Reverse(got) ELSE got
    <3>1. more \in BOOLEAN /\ previous \in BOOLEAN
      <4>1. more \in BOOLEAN
        BY <1>1, SMT
      <4>2. (request.after # None) \in BOOLEAN
        BY Zenon
      <4>3. previous = more \/ previous = (request.after # None)
        BY Zenon
      <4> HIDE DEF more, previous
      <4> QED BY <4>1, <4>2, <4>3
    <3>2. items \in Seq(RowType)
      BY <1>2, <1>3
    <3>3. P!Page(chosen) = [items |-> items, hasMore |-> more, hasPrevious |-> previous]
      BY <2>1
    <3> HIDE DEF more, previous, items
    <3> QED BY <3>1, <3>2, <3>3 DEF PageType
  <2> QED BY <1>2, <1>3, <1>5, <1>8, <2>1, <2>2 DEF k
<1> QED BY <1>7, <1>8

\* The last row read in the walk's direction.
LEMMA PageFacts ==
  ASSUME P!WellFormed, PageTypeOK, NEW chosen \in P!Fetched
  PROVE  /\ \A i \in 1 .. Taken(chosen) : /\ P!Page(chosen).items[i] \in P!Found
                                          /\ P!Page(chosen).items[i] = Edge(chosen) \/ P!Sooner(P!Page(chosen).items[i], Edge(chosen))
         /\ \A i, j \in 1 .. Taken(chosen) : i < j => P!Precedes(P!Page(chosen).items[i], P!Page(chosen).items[j])
         /\ \A row \in P!Found : \/ \E i \in 1 .. Taken(chosen) : P!Page(chosen).items[i] = row
                                 \/ Len(chosen) > take /\ P!Sooner(Edge(chosen), row)
         /\ Len(chosen) > take => \E row \in P!Found : P!Sooner(Edge(chosen), row)
         /\ chosen # <<>> => /\ Edge(chosen) \in P!Found /\ Taken(chosen) \in Nat \ {0}
                             /\ Edge(chosen) = IF P!Backward THEN Head(P!Page(chosen).items) ELSE P!Last(P!Page(chosen).items)
<1> DEFINE k == Taken(chosen)
           items == P!Page(chosen).items
<1>1. /\ chosen \in Seq(RowType) /\ Len(chosen) \in Nat /\ Len(chosen) <= take + 1 /\ take \in Nat \ {0}
      /\ k \in Nat /\ k <= Len(chosen) /\ (Len(chosen) > take => k = take /\ k + 1 = Len(chosen)) /\ (Len(chosen) <= take => k = Len(chosen))
      /\ (k = 0 <=> chosen = <<>>)
  BY FetchedRows, LenProperties, EmptySeq DEF PageTypeOK, Taken
<1>2. /\ \A i \in 1 .. Len(chosen) : chosen[i] \in P!Found
      /\ \A i, j \in 1 .. Len(chosen) : i < j => P!Sooner(chosen[i], chosen[j])
      /\ \A row \in P!Found : \/ \E i \in 1 .. Len(chosen) : chosen[i] = row
                              \/ Len(chosen) = take + 1 /\ \A i \in 1 .. Len(chosen) : P!Sooner(chosen[i], row)
  BY FetchedRows
<1>3. \A i \in 1 .. k : items[i] = IF P!Backward THEN chosen[k + 1 - i] ELSE chosen[i]
  BY PageItems
<1>4. items \in Seq(RowType) /\ Len(items) = k
  BY PageItems DEF PageType
<1>5. Edge(chosen) = chosen[k]
  BY DEF Edge
<1> HIDE DEF k, items
<1>6. \A i \in 1 .. k : k + 1 - i \in 1 .. k
  BY <1>1
<1>7. \A i \in 1 .. k : items[i] \in P!Found
  <2> SUFFICES ASSUME NEW i \in 1 .. k PROVE items[i] \in P!Found
    OBVIOUS
  <2>1. PICK j \in 1 .. k : items[i] = chosen[j]
    BY <1>3, <1>6
  <2>2. j \in 1 .. Len(chosen)
    BY <1>1
  <2> QED BY <1>2, <2>1, <2>2
<1>8. \A i \in 1 .. k : chosen[i] = chosen[k] \/ P!Sooner(chosen[i], chosen[k])
  BY <1>1, <1>2
<1>9. \A i \in 1 .. k : items[i] = Edge(chosen) \/ P!Sooner(items[i], Edge(chosen))
  <2> SUFFICES ASSUME NEW i \in 1 .. k PROVE items[i] = Edge(chosen) \/ P!Sooner(items[i], Edge(chosen))
    OBVIOUS
  <2>1. PICK j \in 1 .. k : items[i] = chosen[j]
    BY <1>3, <1>6
  <2>2. chosen[j] = chosen[k] \/ P!Sooner(chosen[j], chosen[k])
    BY <1>8
  <2> QED BY <1>5, <2>1, <2>2
<1>10. \A i, j \in 1 .. k : i < j => P!Precedes(items[i], items[j])
  <2> SUFFICES ASSUME NEW i \in 1 .. k, NEW j \in 1 .. k, i < j PROVE P!Precedes(items[i], items[j])
    OBVIOUS
  <2>1. i \in 1 .. Len(chosen) /\ j \in 1 .. Len(chosen) /\ k + 1 - i \in 1 .. Len(chosen) /\ k + 1 - j \in 1 .. Len(chosen)
        /\ k + 1 - j < k + 1 - i
    BY <1>1
  <2>2. P!Sooner(chosen[i], chosen[j]) /\ P!Sooner(chosen[k + 1 - j], chosen[k + 1 - i])
    BY <1>2, <2>1
  <2> QED BY <1>3, <2>2 DEF P!Sooner
<1>11. \A i \in 1 .. k : \E j \in 1 .. k : items[j] = chosen[i]
  <2> SUFFICES ASSUME NEW i \in 1 .. k PROVE \E j \in 1 .. k : items[j] = chosen[i]
    OBVIOUS
  <2>1. k + 1 - i \in 1 .. k /\ k + 1 - (k + 1 - i) = i
    BY <1>1
  <2> QED BY <1>3, <2>1
<1>12. ASSUME NEW row \in P!Found
       PROVE  (\E i \in 1 .. k : items[i] = row) \/ (Len(chosen) > take /\ P!Sooner(Edge(chosen), row))
  <2>1. CASE \E i \in 1 .. k : chosen[i] = row
    BY <1>11, <2>1
  <2>2. CASE \E i \in 1 .. Len(chosen) : chosen[i] = row /\ i > k
    <3>1. PICK i \in 1 .. Len(chosen) : chosen[i] = row /\ i > k
      BY <2>2
    <3>2. Len(chosen) > take /\ k \in 1 .. Len(chosen)
      BY <1>1, <3>1
    <3>3. P!Sooner(chosen[k], chosen[i])
      BY <1>2, <3>1, <3>2
    <3> QED BY <1>5, <3>1, <3>2, <3>3
  <2>3. CASE Len(chosen) = take + 1 /\ \A i \in 1 .. Len(chosen) : P!Sooner(chosen[i], row)
    <3>1. Len(chosen) > take /\ k \in 1 .. Len(chosen)
      BY <1>1, <2>3
    <3> QED BY <1>5, <2>3, <3>1
  <2> QED BY <1>1, <1>2, <2>1, <2>2, <2>3
<1>13. Len(chosen) > take => \E row \in P!Found : P!Sooner(Edge(chosen), row)
  <2> SUFFICES ASSUME Len(chosen) > take PROVE \E row \in P!Found : P!Sooner(Edge(chosen), row)
    OBVIOUS
  <2>1. k \in 1 .. Len(chosen) /\ k + 1 \in 1 .. Len(chosen) /\ k < k + 1
    BY <1>1
  <2>2. chosen[k + 1] \in P!Found /\ P!Sooner(chosen[k], chosen[k + 1])
    BY <1>2, <2>1
  <2> QED BY <1>5, <2>2
<1>14. ASSUME chosen # <<>>
       PROVE  Edge(chosen) \in P!Found /\ k \in Nat \ {0} /\ Edge(chosen) = IF P!Backward THEN Head(items) ELSE P!Last(items)
  <2>1. k \in Nat \ {0} /\ k \in 1 .. Len(chosen) /\ 1 \in 1 .. k /\ k \in 1 .. k /\ k + 1 - 1 = k
    BY <1>1, <1>14
  <2>2. Head(items) = items[1] /\ P!Last(items) = items[k]
    BY <1>4, <2>1, HeadTailProperties, EmptySeq DEF P!Last
  <2> QED BY <1>2, <1>3, <1>5, <2>1, <2>2
<1> QED BY <1>7, <1>9, <1>10, <1>12, <1>13, <1>14 DEF k, items
---------------------------------------------------------------------------
\* A sequence of rows in order, and one that goes on where it ends.
LEMMA JoinedInOrder ==
  ASSUME P!WellFormed, NEW s \in Seq(RowType), NEW t \in Seq(RowType),
         \A i, j \in 1 .. Len(s) : i < j => P!Precedes(s[i], s[j]),
         \A i, j \in 1 .. Len(t) : i < j => P!Precedes(t[i], t[j]),
         \A i \in 1 .. Len(s), j \in 1 .. Len(t) : P!Precedes(s[i], t[j])
  PROVE  /\ s \o t \in Seq(RowType)
         /\ \A i, j \in DOMAIN (s \o t) : i < j => P!Precedes((s \o t)[i], (s \o t)[j])
         /\ \A i \in DOMAIN (s \o t) :
              (\E j \in DOMAIN s : (s \o t)[i] = s[j]) \/ (\E j \in DOMAIN t : (s \o t)[i] = t[j])
         /\ \A j \in DOMAIN s : \E i \in DOMAIN (s \o t) : (s \o t)[i] = s[j]
         /\ \A j \in DOMAIN t : \E i \in DOMAIN (s \o t) : (s \o t)[i] = t[j]
<1> DEFINE st == s \o t
<1>1. /\ st \in Seq(RowType) /\ Len(st) = Len(s) + Len(t)
      /\ \A i \in 1 .. Len(s) + Len(t) : st[i] = IF i <= Len(s) THEN s[i] ELSE t[i - Len(s)]
  BY ConcatProperties
<1> HIDE DEF st
<1>2. /\ Len(s) \in Nat /\ Len(t) \in Nat
      /\ DOMAIN s = 1 .. Len(s) /\ DOMAIN t = 1 .. Len(t) /\ DOMAIN st = 1 .. Len(s) + Len(t)
  BY <1>1, LenProperties
<1>3. ASSUME NEW i \in DOMAIN st
      PROVE  (i \in 1 .. Len(s) /\ st[i] = s[i]) \/ (i > Len(s) /\ i - Len(s) \in 1 .. Len(t) /\ st[i] = t[i - Len(s)])
  BY <1>1, <1>2
<1>4. ASSUME NEW i \in DOMAIN st, NEW j \in DOMAIN st, i < j PROVE P!Precedes(st[i], st[j])
  <2>1. CASE j \in 1 .. Len(s) /\ st[j] = s[j]
    <3>1. i \in 1 .. Len(s) /\ st[i] = s[i]
      BY <1>2, <1>3, <1>4, <2>1
    <3> QED BY <1>4, <2>1, <3>1
  <2>2. CASE i > Len(s) /\ i - Len(s) \in 1 .. Len(t) /\ st[i] = t[i - Len(s)]
    <3>1. j > Len(s) /\ j - Len(s) \in 1 .. Len(t) /\ st[j] = t[j - Len(s)] /\ i - Len(s) < j - Len(s)
      BY <1>2, <1>3, <1>4, <2>2
    <3> QED BY <2>2, <3>1
  <2>3. CASE i \in 1 .. Len(s) /\ st[i] = s[i] /\ j - Len(s) \in 1 .. Len(t) /\ st[j] = t[j - Len(s)]
    BY <2>3
  <2> QED BY <1>3, <2>1, <2>2, <2>3
<1>5. ASSUME NEW j \in DOMAIN s PROVE \E i \in DOMAIN st : st[i] = s[j]
  <2>1. j \in DOMAIN st /\ st[j] = s[j]
    BY <1>1, <1>2
  <2> QED BY <2>1
<1>6. ASSUME NEW j \in DOMAIN t PROVE \E i \in DOMAIN st : st[i] = t[j]
  <2>1. j + Len(s) \in DOMAIN st /\ st[j + Len(s)] = t[j]
    <3>1. j + Len(s) \in 1 .. Len(s) + Len(t) /\ ~(j + Len(s) <= Len(s)) /\ j + Len(s) - Len(s) = j
      BY <1>2
    <3> QED BY <1>1, <1>2, <3>1
  <2> QED BY <2>1
<1>7. \A i \in DOMAIN st : (\E j \in DOMAIN s : st[i] = s[j]) \/ (\E j \in DOMAIN t : st[i] = t[j])
  BY <1>2, <1>3
<1> QED BY <1>1, <1>4, <1>5, <1>6, <1>7 DEF st
---------------------------------------------------------------------------
(* The steps. *)

\* Nothing is walked yet: the request names where the walk starts.
LEMMA PagesStart == ASSUME P!WellFormed, ExactCursors PROVE P!Init => PagesAreRight
<1> SUFFICES ASSUME P!Init PROVE PagesAreRight
  OBVIOUS
<1>1. [rank : Ranks, id : Ids] \subseteq RowType
  BY DEF RowType, P!WellFormed
<1>2. \A row \in [rank : Ranks, id : Ids] : P!Cursor(row) \in RowType
  BY <1>1, CursorIsRow
<1>3. request \in [after : Cursors, before : Cursors]
  <2> DEFINE made == {P!Cursor(row) : row \in [rank : Ranks, id : Ids]}
  <2>1. request \in [after : {None} \cup made, before : {None} \cup made]
    BY DEF P!Init
  <2>2. made \subseteq Cursors
    BY <1>2 DEF Cursors
  <2> HIDE DEF made
  <2> QED BY <2>1, <2>2 DEF Cursors
<1>4. start \in Cursors /\ start = From
  BY <1>3 DEF P!Init, From
<1>5. page \in PageType /\ page.items = <<>> /\ visited \in Seq(RowType) /\ DOMAIN visited = {}
  <2>1. P!Empty \in PageType /\ P!Empty.items = <<>> /\ P!Empty.hasMore = FALSE
    BY DEF P!Empty, PageType
  <2>2. <<>> \in Seq(RowType) /\ DOMAIN <<>> = {}
    BY EmptySeq, LenProperties
  <2> QED BY <2>1, <2>2 DEF P!Init
<1>6. PageTypeOK
  BY <1>3, <1>4, <1>5 DEF P!Init, PageTypeOK, P!WellFormed
<1>7. PageHasRows /\ Flags
  BY DEF P!Init, PageHasRows, Flags, P!Empty
<1>8. Onward /\ InOrder /\ VisitedBehind /\ VisitedThere
  BY <1>4, <1>5 DEF P!Init, Onward, InOrder, VisitedBehind, VisitedThere
<1>9. ASSUME NEW id \in steady, rank[id] # NoRow, InWalk(P!Row(id)), Behind(P!Row(id)) PROVE FALSE
  <2>1. P!Row(id) \in RowType
    <3>1. id \in Ids
      BY <1>6 DEF PageTypeOK
    <3> QED BY <1>6, <1>9, <3>1, TableRows
  <2>2. From # None /\ (P!Row(id) = From \/ P!Sooner(P!Row(id), From)) /\ P!Sooner(From, P!Row(id)) /\ From \in RowType
    BY <1>4, <1>9 DEF P!Init, Behind, InWalk, Cursors
  <2> QED BY <2>1, <2>2, SoonerIsOrder
<1>10. NoneLeftOut
  BY <1>9 DEF NoneLeftOut
<1> QED BY <1>6, <1>7, <1>8, <1>10 DEF PagesAreRight, Walk

\* The cursors of a page are its edges.
LEMMA PageCursors ==
  ASSUME P!WellFormed, ExactCursors, PageTypeOK, PageHasRows
  PROVE  /\ P!nextCursor = IF page.hasMore THEN P!Last(page.items) ELSE None
         /\ P!prevCursor = IF page.hasPrevious THEN Head(page.items) ELSE None
         /\ page.items # <<>> => P!Last(page.items) \in RowType /\ Head(page.items) \in RowType
         /\ page.hasMore \/ page.hasPrevious => page.items # <<>>
         /\ P!nextCursor \in Cursors /\ P!prevCursor \in Cursors
<1>1. page.items \in Seq(RowType)
  BY DEF PageTypeOK, PageType
<1>2. page.items # <<>> => P!Last(page.items) \in RowType /\ Head(page.items) \in RowType
  BY <1>1, HeadTailProperties, EmptySeq, LenProperties DEF P!Last
<1>3. page.hasMore \/ page.hasPrevious => page.items # <<>>
  BY DEF PageHasRows
<1> QED BY <1>2, <1>3, CursorIsRow DEF P!nextCursor, P!prevCursor, Cursors

\* A page that was asked for.
LEMMA AskTypes == ASSUME P!WellFormed, PagesAreRight, P!Ask PROVE PageTypeOK' /\ PageHasRows'
<1>1. PICK chosen \in P!Fetched : /\ page' = P!Page(chosen) /\ P!Visit(P!Page(chosen).items)
                                  /\ pc' = IF P!Backward /\ chosen # <<>> THEN "probe" ELSE "page"
  BY DEF P!Ask
<1>2. PageTypeOK
  BY DEF PagesAreRight
<1>3. P!Page(chosen) \in PageType /\ P!Page(chosen).items \in Seq(RowType) /\ visited \in Seq(RowType)
  BY <1>2, PageItems DEF PageType, PageTypeOK
<1>4. visited' \in Seq(RowType)
  BY <1>1, <1>3, ConcatProperties DEF P!Visit
<1>5. chosen # <<>> => P!Page(chosen).items # <<>>
  BY <1>2, PageItems
<1>6. chosen = <<>> => ~P!Page(chosen).hasMore /\ ~P!Page(chosen).hasPrevious
  BY <1>2, PageItems DEF P!Empty
<1>7. /\ UNCHANGED <<rank, descending, take, request, start, steady, quiet, writings>>
      /\ pc' \in {"probe", "page"} /\ (pc' = "probe" => P!Backward /\ chosen # <<>>)
  BY <1>1 DEF P!Ask
<1>8. PageTypeOK'
  BY <1>1, <1>2, <1>3, <1>4, <1>7 DEF PageTypeOK
<1>9. PageHasRows'
  BY <1>1, <1>5, <1>6, <1>7 DEF PageHasRows, P!Backward
<1> QED BY <1>8, <1>9

LEMMA AskWalks == ASSUME P!WellFormed, ExactCursors, PagesAreRight, P!Ask PROVE Walk' /\ Flags'
<1>1. PICK chosen \in P!Fetched : /\ page' = P!Page(chosen) /\ P!Visit(P!Page(chosen).items)
                                  /\ pc' = IF P!Backward /\ chosen # <<>> THEN "probe" ELSE "page"
  BY DEF P!Ask
<1> DEFINE items == P!Page(chosen).items
           k == Taken(chosen)
           more == Len(chosen) > take
           e == Edge(chosen)
<1>2. /\ PageTypeOK /\ pc = "ask" /\ pc' # "ask" /\ (P!Backward /\ pc' = "page" => chosen = <<>>)
      /\ UNCHANGED <<rank, descending, take, request, start, steady, quiet>>
      /\ P!Backward' = P!Backward /\ From' = From /\ P!Far' = P!Far
  BY <1>1 DEF P!Ask, PagesAreRight, P!Backward, From, P!Far
<1>3. /\ items \in Seq(RowType) /\ Len(items) = k /\ DOMAIN items = 1 .. k /\ k \in Nat
      /\ visited \in Seq(RowType) /\ DOMAIN visited = 1 .. Len(visited) /\ Len(visited) \in Nat
      /\ From \in Cursors /\ start \in Cursors
  <2>1. items \in Seq(RowType) /\ Len(items) = k
    BY <1>2, PageItems DEF PageType
  <2> HIDE DEF items, k
  <2>2. Len(items) \in Nat /\ DOMAIN items = 1 .. Len(items)
    BY <2>1, LenProperties
  <2>3. visited \in Seq(RowType) /\ From \in Cursors /\ start \in Cursors
    BY <1>2 DEF PageTypeOK, From
  <2>4. Len(visited) \in Nat /\ DOMAIN visited = 1 .. Len(visited)
    BY <2>3, LenProperties
  <2> QED BY <2>1, <2>2, <2>3, <2>4
<1>4. /\ \A i \in 1 .. k : items[i] \in P!Found /\ (items[i] = e \/ P!Sooner(items[i], e))
      /\ \A i, j \in 1 .. k : i < j => P!Precedes(items[i], items[j])
      /\ \A row \in P!Found : (\E i \in 1 .. k : items[i] = row) \/ (more /\ P!Sooner(e, row))
      /\ more => \E row \in P!Found : P!Sooner(e, row)
      /\ chosen # <<>> => /\ e \in P!Found /\ items # <<>>
                          /\ e = IF P!Backward THEN Head(items) ELSE P!Last(items)
                          /\ IF P!Backward THEN P!Page(chosen).hasPrevious = more
                             ELSE P!Page(chosen).hasMore = more /\ P!Page(chosen).hasPrevious = (request.after # None)
      /\ chosen = <<>> => ~more /\ P!Page(chosen) = P!Empty
  <2>1. chosen = <<>> => ~more
    BY <1>2, EmptySeq DEF PageTypeOK
  <2> QED BY <1>2, <2>1, PageFacts, PageItems
<1> HIDE DEF items, k, more, e
<1>5. \A row \in P!Found : /\ row \in RowType /\ row \in P!Rows /\ row.id \in Ids /\ row = P!Row(row.id)
                           /\ From = None \/ P!Sooner(From, row)
                           /\ P!Far = None \/ P!Sooner(row, P!Far)
  <2>1. P!Found \subseteq P!Rows
    BY DEF P!Found, P!Within
  <2> QED BY <1>2, <2>1, FoundRows, TableRows
<1>6. P!Reached' = IF more THEN e ELSE None
  <2>1. CASE chosen = <<>>
    BY <1>1, <1>2, <1>4, <2>1 DEF P!Reached, P!prevCursor, P!nextCursor, P!Empty
  <2>2. CASE chosen # <<>>
    <3>1. P!Cursor(e) = e
      BY <1>4, <1>5, <2>2, CursorIsRow
    <3>2. CASE P!Backward
      <4>1. page'.hasPrevious = more /\ Head(page'.items) = e
        BY <1>1, <1>4, <2>2, <3>2 DEF items
      <4> QED BY <1>2, <3>1, <3>2, <4>1 DEF P!Reached, P!prevCursor, P!Cursor
    <3>3. CASE ~P!Backward
      <4>1. page'.hasMore = more /\ P!Last(page'.items) = e
        BY <1>1, <1>4, <2>2, <3>3 DEF items
      <4> QED BY <1>2, <3>1, <3>3, <4>1 DEF P!Reached, P!nextCursor, P!Cursor
    <3> QED BY <3>2, <3>3
  <2> QED BY <2>1, <2>2
<1>7. more => e \in P!Found
  BY <1>4
<1>8. \A row \in P!Found : start = None \/ P!Sooner(start, row)
  <2> SUFFICES ASSUME NEW row \in P!Found, start # None PROVE P!Sooner(start, row)
    OBVIOUS
  <2>1. From # None /\ (start = From \/ P!Sooner(start, From))
    BY <1>2 DEF PagesAreRight, Walk, Onward
  <2>2. From \in RowType /\ start \in RowType /\ row \in RowType /\ P!Sooner(From, row)
    BY <1>3, <1>5, <2>1 DEF Cursors
  <2> QED BY <2>1, <2>2, SoonerIsOrder
<1>9. \A i \in DOMAIN visited : visited[i] \in RowType /\ From # None /\ (visited[i] = From \/ P!Sooner(visited[i], From))
  BY <1>2, <1>3 DEF PagesAreRight, Walk, VisitedBehind, Behind
<1>10. \A i \in DOMAIN visited, row \in P!Found : P!Sooner(visited[i], row)
  <2> SUFFICES ASSUME NEW i \in DOMAIN visited, NEW row \in P!Found PROVE P!Sooner(visited[i], row)
    OBVIOUS
  <2>1. /\ visited[i] \in RowType /\ From \in RowType /\ row \in RowType
        /\ P!Sooner(From, row) /\ (visited[i] = From \/ P!Sooner(visited[i], From))
    BY <1>3, <1>5, <1>9 DEF Cursors
  <2> QED BY <2>1, SoonerIsOrder
<1>11. /\ \A i, j \in DOMAIN visited' : i < j => P!Precedes(visited'[i], visited'[j])
       /\ \A i \in DOMAIN visited' : \/ \E j \in DOMAIN visited : visited'[i] = visited[j]
                                     \/ \E j \in DOMAIN items : visited'[i] = items[j]
       /\ \A j \in DOMAIN visited : \E i \in DOMAIN visited' : visited'[i] = visited[j]
       /\ \A j \in DOMAIN items : \E i \in DOMAIN visited' : visited'[i] = items[j]
  <2>1. \A i, j \in 1 .. Len(visited) : i < j => P!Precedes(visited[i], visited[j])
    BY <1>3 DEF PagesAreRight, Walk, InOrder
  <2>2. \A i, j \in 1 .. Len(items) : i < j => P!Precedes(items[i], items[j])
    BY <1>3, <1>4
  <2>3. \A i \in 1 .. Len(visited), j \in 1 .. Len(items) : P!Sooner(visited[i], items[j])
    BY <1>3, <1>4, <1>10
  <2>4. CASE P!Backward
    <3>1. visited' = items \o visited
      BY <1>1, <2>4 DEF P!Visit, items
    <3>2. \A i \in 1 .. Len(items), j \in 1 .. Len(visited) : P!Precedes(items[i], visited[j])
      BY <2>3, <2>4 DEF P!Sooner
    <3>3. /\ \A i, j \in DOMAIN (items \o visited) : i < j => P!Precedes((items \o visited)[i], (items \o visited)[j])
          /\ \A i \in DOMAIN (items \o visited) : \/ \E j \in DOMAIN visited : (items \o visited)[i] = visited[j]
                                             \/ \E j \in DOMAIN items : (items \o visited)[i] = items[j]
          /\ \A j \in DOMAIN visited : \E i \in DOMAIN (items \o visited) : (items \o visited)[i] = visited[j]
          /\ \A j \in DOMAIN items : \E i \in DOMAIN (items \o visited) : (items \o visited)[i] = items[j]
      BY <1>3, <2>1, <2>2, <3>2, JoinedInOrder
    <3> QED BY <3>1, <3>3
  <2>5. CASE ~P!Backward
    <3>1. visited' = visited \o items
      BY <1>1, <2>5 DEF P!Visit, items
    <3>2. \A i \in 1 .. Len(visited), j \in 1 .. Len(items) : P!Precedes(visited[i], items[j])
      BY <2>3, <2>5 DEF P!Sooner
    <3>3. /\ \A i, j \in DOMAIN (visited \o items) : i < j => P!Precedes((visited \o items)[i], (visited \o items)[j])
          /\ \A i \in DOMAIN (visited \o items) : \/ \E j \in DOMAIN visited : (visited \o items)[i] = visited[j]
                                             \/ \E j \in DOMAIN items : (visited \o items)[i] = items[j]
          /\ \A j \in DOMAIN visited : \E i \in DOMAIN (visited \o items) : (visited \o items)[i] = visited[j]
          /\ \A j \in DOMAIN items : \E i \in DOMAIN (visited \o items) : (visited \o items)[i] = items[j]
      BY <1>3, <2>1, <2>2, <3>2, JoinedInOrder
    <3> QED BY <3>1, <3>3
  <2> QED BY <2>4, <2>5
<1>12. Onward'
  <2>1. start # None => From # None
    BY DEF PagesAreRight, Walk, Onward
  <2>2. more => start = None \/ P!Sooner(start, e)
    BY <1>7, <1>8
  <2> QED BY <1>2, <1>6, <2>1, <2>2 DEF Onward, P!Sooner, P!Precedes, P!Less, P!Backward
<1>13. InOrder'
  BY <1>2, <1>11 DEF InOrder, P!Precedes, P!Less
<1>14. \A i \in DOMAIN visited' : more => visited'[i] = e \/ P!Sooner(visited'[i], e)
  <2>1. \A j \in DOMAIN visited : more => P!Sooner(visited[j], e)
    BY <1>7, <1>10
  <2>2. \A j \in DOMAIN items : items[j] = e \/ P!Sooner(items[j], e)
    BY <1>3, <1>4
  <2> QED BY <1>11, <2>1, <2>2
<1>15. VisitedBehind'
  BY <1>2, <1>6, <1>14 DEF VisitedBehind, Behind, P!Sooner, P!Precedes, P!Less, P!Backward
<1>16. \A i \in DOMAIN visited' : visited'[i].id \in steady =>
         visited'[i] = P!Row(visited'[i].id) /\ visited'[i] \in P!Rows /\ InWalk(visited'[i])
  <2>1. \A j \in DOMAIN visited : visited[j].id \in steady =>
          visited[j] = P!Row(visited[j].id) /\ visited[j] \in P!Rows /\ InWalk(visited[j])
    BY DEF PagesAreRight, Walk, VisitedThere
  <2>2. \A j \in DOMAIN items : items[j] = P!Row(items[j].id) /\ items[j] \in P!Rows /\ InWalk(items[j])
    BY <1>3, <1>4, <1>5, <1>8 DEF InWalk
  <2> QED BY <1>11, <2>1, <2>2
<1>17. VisitedThere'
  <2>1. steady' = steady /\ P!Rows' = P!Rows /\ \A id : P!Row(id)' = P!Row(id)
    BY <1>2 DEF P!Rows, P!Row
  <2>2. \A i \in DOMAIN visited' : visited'[i] = P!Row(visited'[i].id) => visited'[i] = [rank |-> rank'[visited'[i].id], id |-> visited'[i].id]
    BY <1>2 DEF P!Row
  <2> QED BY <1>2, <1>16, <2>1, <2>2 DEF VisitedThere, InWalk, P!Sooner, P!Precedes, P!Less, P!Backward, P!Far, P!Row
<1>18. ASSUME NEW id \in steady, rank[id] # NoRow, InWalk(P!Row(id)), more => P!Row(id) = e \/ P!Sooner(P!Row(id), e)
       PROVE  \E i \in DOMAIN visited' : visited'[i] = P!Row(id)
  <2>1. id \in Ids /\ P!Row(id) \in P!Rows /\ P!Row(id) \in RowType
    <3>1. id \in Ids
      BY <1>2 DEF PageTypeOK
    <3> QED BY <1>2, <1>18, <3>1, TableRows
  <2>2. CASE P!Row(id) \in P!Found
    <3>1. ~(more /\ P!Sooner(e, P!Row(id)))
      <4>1. more => e \in RowType
        BY <1>5, <1>7
      <4> QED BY <1>18, <2>1, <4>1, SoonerIsOrder
    <3>2. \E i \in 1 .. k : items[i] = P!Row(id)
      BY <1>4, <2>2, <3>1
    <3> QED BY <1>3, <1>11, <3>2
  <2>3. CASE P!Row(id) \notin P!Found
    <3>1. From # None /\ ~P!Sooner(From, P!Row(id))
      BY <1>2, <1>18, <2>1, <2>3, FoundRows DEF InWalk
    <3>2. P!Row(id) = From \/ P!Sooner(P!Row(id), From)
      BY <1>3, <2>1, <3>1, SoonerIsOrder DEF Cursors
    <3>3. Behind(P!Row(id))
      BY <1>2, <3>1, <3>2 DEF Behind
    <3>4. \E j \in DOMAIN visited : visited[j] = P!Row(id)
      BY <1>18, <3>3 DEF PagesAreRight, Walk, NoneLeftOut
    <3> QED BY <1>11, <3>4
  <2> QED BY <2>2, <2>3
<1>19. NoneLeftOut'
  <2> SUFFICES ASSUME NEW id \in steady', (rank[id] # NoRow)', InWalk(P!Row(id))', Behind(P!Row(id))'
               PROVE  \E i \in DOMAIN visited' : visited'[i] = P!Row(id)'
    BY DEF NoneLeftOut
  <2>1. P!Row(id)' = P!Row(id)
    BY <1>2 DEF P!Row
  <2>2. id \in steady /\ rank[id] # NoRow /\ InWalk(P!Row(id))
    BY <1>2 DEF InWalk, P!Sooner, P!Precedes, P!Less, P!Backward, P!Far, P!Row
  <2>3. more => P!Row(id) = e \/ P!Sooner(P!Row(id), e)
    <3>1. more => P!Reached' = e /\ e # None
      BY <1>5, <1>6, <1>7 DEF P!WellFormed, RowType
    <3> QED BY <1>2, <3>1 DEF Behind, P!Sooner, P!Precedes, P!Less, P!Backward, P!Row
  <2> QED BY <1>18, <2>1, <2>2, <2>3
<1>20. chosen # <<>> => (more <=> \E row \in P!Rows : P!Sooner(e, row) /\ (P!Far = None \/ P!Sooner(row, P!Far)))
  <2> SUFFICES ASSUME chosen # <<>> PROVE more <=> \E row \in P!Rows : P!Sooner(e, row) /\ (P!Far = None \/ P!Sooner(row, P!Far))
    OBVIOUS
  <2>1. more => \E row \in P!Rows : P!Sooner(e, row) /\ (P!Far = None \/ P!Sooner(row, P!Far))
    BY <1>4, <1>5
  <2>2. ASSUME NEW row \in P!Rows, P!Sooner(e, row), P!Far = None \/ P!Sooner(row, P!Far), ~more PROVE FALSE
    <3>1. row \in RowType /\ e \in RowType /\ e \in P!Found
      BY <1>2, <1>4, <1>5, TableRows
    <3>2. From = None \/ P!Sooner(From, row)
      BY <1>3, <1>5, <2>2, <3>1, SoonerIsOrder DEF Cursors
    <3>3. row \in P!Found
      BY <1>2, <2>2, <3>2, FoundRows
    <3>4. row = e \/ P!Sooner(row, e)
      BY <1>4, <2>2, <3>3
    <3> QED BY <2>2, <3>1, <3>4, SoonerIsOrder
  <2> QED BY <2>1, <2>2
<1>21. Flags'
  <2>1. CASE chosen = <<>>
    <3>1. page'.items = <<>>
      BY <1>1, <1>4, <2>1 DEF P!Empty
    <3> QED BY <3>1 DEF Flags
  <2>2. CASE chosen # <<>> /\ P!Backward
    <3>1. page'.hasPrevious = more /\ Head(page'.items) = e /\ pc' # "page" /\ P!Far = None
      BY <1>1, <1>2, <1>4, <2>2 DEF items, P!Far
    <3>2. more <=> P!Within(None, e) # {}
      <4>1. e # None
        BY <1>4, <1>5, <2>2 DEF P!WellFormed, RowType
      <4> QED BY <1>20, <2>2, <3>1, <4>1 DEF P!Sooner, P!Within
    <3> QED BY <1>2, <2>2, <3>1, <3>2 DEF Flags, P!Within, P!Rows, P!Row, P!Precedes, P!Less, P!Backward
  <2>3. CASE chosen # <<>> /\ ~P!Backward
    <3>1. /\ page'.hasMore = more /\ P!Last(page'.items) = e /\ P!Far = request.before
          /\ page'.hasPrevious = (request.after # None)
      BY <1>1, <1>2, <1>4, <2>3 DEF items, P!Far
    <3>2. more <=> P!Within(e, request.before) # {}
      <4>1. e # None
        BY <1>4, <1>5, <2>3 DEF P!WellFormed, RowType
      <4> QED BY <1>20, <2>3, <3>1, <4>1 DEF P!Sooner, P!Within
    <3> QED BY <1>2, <2>3, <3>1, <3>2 DEF Flags, P!Within, P!Rows, P!Row, P!Precedes, P!Less, P!Backward
  <2> QED BY <2>1, <2>2, <2>3
<1> QED BY <1>12, <1>13, <1>15, <1>17, <1>19, <1>21 DEF Walk

\* A walk that starts with the request to come.
LEMMA TurnWalks ==
  ASSUME P!WellFormed, UNCHANGED descending, pc' = "ask", start' = From', start' \in RowType,
         visited' = <<>>, steady' \subseteq Ids, rank' \in [Ids -> Ranks \cup {NoRow}]
  PROVE  Walk'
<1>1. DOMAIN visited' = {}
  BY EmptySeq, LenProperties
<1>2. Onward' /\ InOrder' /\ VisitedBehind' /\ VisitedThere'
  BY <1>1 DEF Onward, InOrder, VisitedBehind, VisitedThere
<1>3. NoneLeftOut'
  <2> SUFFICES ASSUME NEW id \in steady', (rank[id] # NoRow)', InWalk(P!Row(id))', Behind(P!Row(id))' PROVE FALSE
    BY DEF NoneLeftOut
  <2> DEFINE row == P!Row(id)'
  <2>1. row \in RowType
    BY DEF P!Row, RowType, P!WellFormed
  <2>2. row = start' \/ IF P!Backward' THEN P!Precedes(start', row) ELSE P!Precedes(row, start')
    BY DEF Behind, P!Sooner, P!Precedes, P!Less
  <2>3. start' # None
    BY DEF RowType, P!WellFormed
  <2>4. IF P!Backward' THEN P!Precedes(row, start') ELSE P!Precedes(start', row)
    BY <2>3 DEF InWalk, P!Sooner, P!Precedes, P!Less
  <2> HIDE DEF row
  <2> QED BY <2>1, <2>2, <2>4, PrecedesIsOrder
<1> QED BY <1>2, <1>3 DEF Walk

LEMMA ProbeStep == ASSUME P!WellFormed, ExactCursors, PagesAreRight, P!Probe PROVE PagesAreRight'
<1>1. /\ pc = "probe" /\ pc' = "page" /\ P!Backward /\ page.items # <<>>
      /\ page' = [page EXCEPT !.hasMore = P!Within(P!Cursor(P!Last(page.items)), None) # {}]
      /\ UNCHANGED <<rank, descending, take, request, start, visited, steady, quiet, writings>>
      /\ PageTypeOK /\ P!Backward' = P!Backward /\ P!Far' = P!Far /\ P!Rows' = P!Rows
  BY DEF P!Probe, PagesAreRight, PageHasRows, P!Backward, P!Far, P!Rows, P!Row
<1> DEFINE follows == P!Within(P!Cursor(P!Last(page.items)), None) # {}
<1>2. page.items \in Seq(RowType) /\ page.hasMore \in BOOLEAN /\ page.hasPrevious \in BOOLEAN
  BY <1>1 DEF PageTypeOK, PageType
<1>3. /\ page' \in PageType /\ page'.items = page.items /\ page'.hasPrevious = page.hasPrevious
      /\ page'.hasMore = follows
  <2>1. follows \in BOOLEAN
    BY Zenon
  <2>2. page' = [page EXCEPT !.hasMore = follows]
    BY <1>1
  <2> HIDE DEF follows
  <2> QED BY <1>1, <1>2, <2>1, <2>2 DEF PageTypeOK, PageType
<1>4. PageTypeOK'
  BY <1>1, <1>3 DEF PageTypeOK
<1>5. PageHasRows'
  BY <1>1, <1>3 DEF PageHasRows
<1>6. P!Reached' = P!Reached
  BY <1>1, <1>3 DEF P!Reached, P!prevCursor, P!Cursor
<1>7. Onward' /\ InOrder'
  <2>1. Onward'
    <3>1. Onward /\ From' = From
      BY <1>1 DEF PagesAreRight, Walk, From
    <3> QED BY <1>1, <1>6, <3>1 DEF Onward, P!Sooner, P!Precedes, P!Less
  <2>2. InOrder'
    BY <1>1 DEF PagesAreRight, Walk, InOrder, P!Precedes, P!Less
  <2> QED BY <2>1, <2>2
<1>8. VisitedBehind'
  BY <1>1, <1>6 DEF PagesAreRight, Walk, VisitedBehind, Behind, P!Sooner, P!Precedes, P!Less
<1>9. VisitedThere'
  BY <1>1 DEF PagesAreRight, Walk, VisitedThere, InWalk, P!Sooner, P!Precedes, P!Less, P!Row
<1>10. NoneLeftOut'
  BY <1>1, <1>6 DEF PagesAreRight, Walk, NoneLeftOut, Behind, InWalk, P!Sooner, P!Precedes, P!Less, P!Row
<1>11. Flags'
  <2>1. P!Cursor(P!Last(page.items)) = P!Last(page.items)
    <3>1. PageHasRows
      BY DEF PagesAreRight
    <3> QED BY <1>1, <3>1, PageCursors, CursorIsRow
  <2>2. page'.hasMore <=> P!Within(P!Last(page.items), None) # {}
    BY <1>3, <2>1
  <2>3. quiet => (page.hasPrevious <=> P!Within(None, Head(page.items)) # {})
    BY <1>1 DEF PagesAreRight, Flags
  <2> QED BY <1>1, <1>3, <2>2, <2>3 DEF Flags, P!Within, P!Precedes, P!Less
<1> QED BY <1>4, <1>5, <1>7, <1>8, <1>9, <1>10, <1>11 DEF PagesAreRight, Walk

\* The request for the page on the walk's way.
LEMMA OnwardStep ==
  ASSUME P!WellFormed, ExactCursors, PagesAreRight, pc = "page", P!Reached # None, pc' = "ask", quiet' = TRUE,
         request' = IF P!Backward THEN [after |-> None, before |-> P!Reached]
                    ELSE [after |-> P!Reached, before |-> request.before],
         UNCHANGED <<rank, descending, take, page, start, visited, steady>>
  PROVE  PagesAreRight'
<1>1. PageTypeOK /\ PageHasRows
  BY DEF PagesAreRight
<1>2. P!Reached \in RowType
  BY <1>1, PageCursors DEF P!Reached, Cursors
<1>3. From' = P!Reached /\ P!Backward' = P!Backward /\ P!Far' = P!Far
  BY DEF From, P!Backward, P!Far
<1>4. PageTypeOK'
  <2>1. request' \in [after : Cursors, before : Cursors]
    BY <1>1, <1>2 DEF PageTypeOK, Cursors
  <2> QED BY <1>1, <2>1 DEF PageTypeOK
<1>5. PageHasRows' /\ Flags'
  BY DEF PagesAreRight, PageHasRows, Flags
<1>6. Onward' /\ InOrder'
  BY <1>3 DEF PagesAreRight, Walk, Onward, InOrder, P!Sooner, P!Precedes, P!Less
<1>7. VisitedBehind'
  BY <1>3 DEF PagesAreRight, Walk, VisitedBehind, Behind, P!Sooner, P!Precedes, P!Less
<1>8. VisitedThere'
  BY <1>3 DEF PagesAreRight, Walk, VisitedThere, InWalk, P!Sooner, P!Precedes, P!Less, P!Row, P!Rows
<1>9. NoneLeftOut'
  BY <1>3 DEF PagesAreRight, Walk, NoneLeftOut, Behind, InWalk, P!Sooner, P!Precedes, P!Less, P!Row
<1> QED BY <1>4, <1>5, <1>6, <1>7, <1>8, <1>9 DEF PagesAreRight, Walk

\* The request for the page in the other direction.
LEMMA TurnStep ==
  ASSUME P!WellFormed, PagesAreRight, pc = "page", pc' = "ask", quiet' = TRUE, NEW from \in RowType, P!Turn(from),
         request' = IF P!Backward THEN [after |-> from, before |-> None] ELSE [after |-> None, before |-> from],
         UNCHANGED <<rank, descending, take, page>>
  PROVE  PagesAreRight'
<1>1. PageTypeOK /\ PageHasRows
  BY DEF PagesAreRight
<1>2. from # None /\ From' = from
  BY DEF RowType, P!WellFormed, From, P!Backward
<1>3. PageTypeOK'
  <2>1. request' \in [after : Cursors, before : Cursors]
    BY DEF Cursors
  <2> QED BY <1>1, <2>1, EmptySeq DEF PageTypeOK, P!Turn, Cursors
<1>4. PageHasRows' /\ Flags'
  BY <1>1 DEF PageHasRows, Flags
<1>5. Walk'
  BY <1>1, <1>2, TurnWalks DEF P!Turn, PageTypeOK
<1> QED BY <1>3, <1>4, <1>5 DEF PagesAreRight

\* Another client's write changes one row, which is no longer steady.
LEMMA DisturbStep == ASSUME P!WellFormed, PagesAreRight, NEW id \in Ids, P!Disturb(id) PROVE PagesAreRight'
<1>1. /\ UNCHANGED <<descending, take, request, pc, page, start, visited>>
      /\ steady' = steady \ {id} /\ quiet' = FALSE /\ PageTypeOK
      /\ P!Backward' = P!Backward /\ P!Far' = P!Far /\ From' = From
  BY DEF P!Disturb, PagesAreRight, P!Backward, P!Far, From
<1>2. PICK value \in Ranks \cup {NoRow} : rank' = [rank EXCEPT ![id] = value]
  BY DEF P!Disturb
<1>3. PageTypeOK'
  BY <1>1, <1>2 DEF PageTypeOK
<1>4. \A j \in steady' : j \in Ids /\ j # id /\ rank'[j] = rank[j] /\ P!Row(j)' = P!Row(j)
  BY <1>1, <1>2 DEF PageTypeOK, P!Row
<1>5. P!Reached' = P!Reached
  BY <1>1 DEF P!Reached, P!prevCursor, P!nextCursor, P!Cursor
<1>6. PageHasRows' /\ Flags'
  BY <1>1 DEF PagesAreRight, PageHasRows, Flags
<1>7. Onward' /\ InOrder' /\ VisitedBehind'
  <2>1. Onward'
    BY <1>1, <1>5 DEF PagesAreRight, Walk, Onward, P!Sooner, P!Precedes, P!Less
  <2>2. InOrder'
    BY <1>1 DEF PagesAreRight, Walk, InOrder, P!Precedes, P!Less
  <2>3. VisitedBehind'
    BY <1>1, <1>5 DEF PagesAreRight, Walk, VisitedBehind, Behind, P!Sooner, P!Precedes, P!Less
  <2> QED BY <2>1, <2>2, <2>3
<1>8. VisitedThere'
  <2> SUFFICES ASSUME NEW i \in DOMAIN visited, visited[i].id \in steady'
               PROVE  visited[i] = P!Row(visited[i].id)' /\ visited[i] \in P!Rows' /\ InWalk(visited[i])'
    BY <1>1 DEF VisitedThere, InWalk, P!Sooner, P!Precedes, P!Less, P!Row
  <2>1. visited[i] = P!Row(visited[i].id) /\ visited[i] \in P!Rows /\ InWalk(visited[i])
    BY <1>1 DEF PagesAreRight, Walk, VisitedThere
  <2>2. visited[i] = P!Row(visited[i].id)'
    BY <1>1, <1>4, <2>1 DEF P!Row
  <2>3. visited[i] \in P!Rows'
    <3>1. rank'[visited[i].id] # NoRow
      BY <1>1, <1>4, <2>1, TableRows
    <3> QED BY <1>1, <1>4, <2>2, <3>1 DEF P!Rows, P!Row
  <2>4. InWalk(visited[i])'
    BY <1>1, <2>1 DEF InWalk, P!Sooner, P!Precedes, P!Less
  <2> QED BY <2>2, <2>3, <2>4
<1>9. NoneLeftOut'
  <2> SUFFICES ASSUME NEW j \in steady', (rank[j] # NoRow)', InWalk(P!Row(j))', Behind(P!Row(j))'
               PROVE  \E i \in DOMAIN visited : visited[i] = P!Row(j)
    BY <1>1, <1>4 DEF NoneLeftOut
  <2>1. j \in steady /\ rank[j] # NoRow /\ InWalk(P!Row(j)) /\ Behind(P!Row(j))
    BY <1>1, <1>4, <1>5 DEF InWalk, Behind, P!Sooner, P!Precedes, P!Less
  <2> QED BY <2>1 DEF PagesAreRight, Walk, NoneLeftOut
<1> QED BY <1>3, <1>6, <1>7, <1>8, <1>9 DEF PagesAreRight, Walk

LEMMA PagesStayRight == ASSUME P!WellFormed, ExactCursors PROVE PagesAreRight /\ [P!Next]_(P!vars) => PagesAreRight'
<1> SUFFICES ASSUME PagesAreRight, [P!Next]_(P!vars) PROVE PagesAreRight'
  OBVIOUS
<1>1. PageTypeOK /\ PageHasRows
  BY DEF PagesAreRight
<1>2. CASE P!Ask
  BY <1>2, AskTypes, AskWalks DEF PagesAreRight
<1>3. CASE P!Probe
  BY <1>3, ProbeStep
<1>4. CASE P!NextPage
  <2>1. pc = "page" /\ P!nextCursor # None /\ P!nextCursor \in RowType /\ UNCHANGED <<rank, descending, take, page>>
    BY <1>1, <1>4, PageCursors DEF P!NextPage, Cursors
  <2>2. CASE P!Backward
    BY <1>4, <2>1, <2>2, TurnStep DEF P!NextPage, P!Request
  <2>3. CASE ~P!Backward
    BY <1>4, <2>1, <2>3, OnwardStep DEF P!NextPage, P!Request, P!Reached, P!walk
  <2> QED BY <2>2, <2>3
<1>5. CASE P!PreviousPage
  <2>1. pc = "page" /\ P!prevCursor # None /\ P!prevCursor \in RowType /\ UNCHANGED <<rank, descending, take, page>>
    BY <1>1, <1>5, PageCursors DEF P!PreviousPage, Cursors
  <2>2. CASE P!Backward
    BY <1>5, <2>1, <2>2, OnwardStep DEF P!PreviousPage, P!Request, P!Reached, P!walk
  <2>3. CASE ~P!Backward
    BY <1>5, <2>1, <2>3, TurnStep DEF P!PreviousPage, P!Request
  <2> QED BY <2>2, <2>3
<1>6. CASE \E id \in Ids : P!Disturb(id)
  <2>1. PICK id \in Ids : P!Disturb(id)
    BY <1>6
  <2> QED BY <2>1, DisturbStep
<1>7. CASE UNCHANGED P!vars
  <2>1. /\ UNCHANGED <<rank, descending, take, request, pc, page, start, visited, steady, quiet, writings>>
        /\ P!Backward' = P!Backward /\ P!Far' = P!Far /\ From' = From /\ P!Reached' = P!Reached /\ P!Rows' = P!Rows
    BY <1>7 DEF P!vars, P!Backward, P!Far, From, P!Reached, P!nextCursor, P!prevCursor, P!Cursor, P!Rows, P!Row
  <2>2. PageTypeOK' /\ PageHasRows'
    BY <1>1, <2>1 DEF PageTypeOK, PageHasRows
  <2>3. Onward' /\ InOrder'
    BY <2>1 DEF PagesAreRight, Walk, Onward, InOrder, P!Sooner, P!Precedes, P!Less
  <2>4. VisitedBehind' /\ VisitedThere'
    BY <2>1 DEF PagesAreRight, Walk, VisitedBehind, VisitedThere, InWalk, Behind, P!Sooner, P!Precedes, P!Less, P!Row
  <2>5. NoneLeftOut'
    BY <2>1 DEF PagesAreRight, Walk, NoneLeftOut, InWalk, Behind, P!Sooner, P!Precedes, P!Less, P!Row
  <2>6. Flags'
    BY <2>1 DEF PagesAreRight, Flags, P!Within, P!Precedes, P!Less
  <2> QED BY <2>2, <2>3, <2>4, <2>5, <2>6 DEF PagesAreRight, Walk
<1> QED BY <1>2, <1>3, <1>4, <1>5, <1>6, <1>7 DEF P!Next, P!Finished
---------------------------------------------------------------------------
(* What the invariant says of a page. *)

\* The walk's rows nobody wrote are those it passed, once and in order.
LEMMA VisitsOnce == ASSUME P!WellFormed, ExactCursors, PagesAreRight PROVE P!WalkVisitsOnce
<1> SUFFICES ASSUME pc = "page" PROVE P!WalkVisitsOnce
  BY DEF P!WalkVisitsOnce
<1>1. PageTypeOK /\ P!Rows \subseteq RowType /\ visited \in Seq(RowType)
  BY TableRows DEF PagesAreRight, PageTypeOK
<1>2. \A i, j \in DOMAIN visited : i < j => P!Precedes(visited[i], visited[j])
  BY DEF PagesAreRight, Walk, InOrder
<1>3. \A row : row \in P!Passed <=> row \in P!Rows /\ InWalk(row) /\ Behind(row)
  BY DEF P!Passed, P!Within, InWalk, Behind, P!Sooner, P!Far
<1>4. ASSUME NEW row \in P!ToSet(visited), row.id \in steady PROVE row \in P!Passed
  <2>1. PICK i \in DOMAIN visited : row = visited[i]
    BY <1>1 DEF P!ToSet
  <2> QED BY <1>3, <1>4, <2>1 DEF PagesAreRight, Walk, VisitedThere, VisitedBehind
<1>5. ASSUME NEW row \in P!Passed, row.id \in steady PROVE row \in P!ToSet(visited)
  <2>1. row = P!Row(row.id) /\ rank[row.id] # NoRow /\ InWalk(row) /\ Behind(row)
    BY <1>1, <1>3, <1>5, TableRows
  <2>2. \E i \in DOMAIN visited : visited[i] = row
    BY <1>5, <2>1 DEF PagesAreRight, Walk, NoneLeftOut
  <2> QED BY <1>1, <2>2 DEF P!ToSet
<1>6. {row \in P!ToSet(visited) : row.id \in steady} = {row \in P!Passed : row.id \in steady}
  BY <1>4, <1>5
<1> QED BY <1>2, <1>6 DEF P!WalkVisitsOnce

\* What a page says of its neighbours.
LEMMA FlagsHold == ASSUME P!WellFormed, ExactCursors, PagesAreRight PROVE P!FlagsAreTrue
<1> SUFFICES ASSUME pc = "page", quiet, page.items # <<>> PROVE P!FlagsAreTrue
  BY DEF P!FlagsAreTrue
<1>1. Flags /\ Onward
  BY DEF PagesAreRight, Walk
<1>2. page.hasMore <=> P!Within(P!Last(page.items), P!Far) # {}
  BY <1>1 DEF Flags, P!Far
<1>3. P!Within(None, Head(page.items)) # {} => page.hasPrevious \/ (~P!Backward /\ start = None)
  BY <1>1 DEF Flags, Onward, From
<1>4. P!Backward /\ page.hasPrevious => P!Within(None, Head(page.items)) # {}
  BY <1>1 DEF Flags
<1> QED BY <1>2, <1>3, <1>4 DEF P!FlagsAreTrue
---------------------------------------------------------------------------
PagesInv == part = "pages" => PagesAreRight

LEMMA PagesFromTheStart == ASSUME ExactCursors PROVE Init => PagesInv
<1> SUFFICES ASSUME Init, part = "pages" PROVE PagesAreRight
  BY DEF PagesInv
<1>1. P!Init
  BY DEF Init
<1> QED BY <1>1, PageConstants, PagesStart

LEMMA PagesGoOn ==
  ASSUME ExactCursors
  PROVE  PagesInv /\ [Next]_<<part, v1, v2, v3, v4, v5, v6, v7, v8, v9, v10, v11, v12, v13, v14>> => PagesInv'
<1> SUFFICES ASSUME PagesInv, [Next]_<<part, v1, v2, v3, v4, v5, v6, v7, v8, v9, v10, v11, v12, v13, v14>>,
                    part' = "pages"
             PROVE  PagesAreRight'
  BY DEF PagesInv
<1>1. part = "pages"
  BY DEF Next, WritesNext, RelationWritesNext, PaginateNext, RelationLoadNext, ManyWritesNext, StudioGridNext,
     AggregatesNext, ReadsNext, Kept
<1>2. PagesAreRight
  BY <1>1 DEF PagesInv
<1>3. [P!Next]_<<v1, v2, v3, v4, v5, v6, v7, v8, v9, v10, v11>>
  BY <1>1 DEF Next, WritesNext, RelationWritesNext, PaginateNext, RelationLoadNext, ManyWritesNext, StudioGridNext,
     AggregatesNext, ReadsNext
<1>4. [P!Next]_(P!vars)
  BY <1>3 DEF P!vars
<1> QED BY <1>2, <1>4, PageConstants, PagesStayRight

\* PagesAreTrue, for any table, page size and direction and any writes by others,
\* where cursors are exact.
THEOREM PagesAreAlwaysTrue == ASSUME Grain = 1 PROVE Spec => []PagesAreTrue
<1>1. ExactCursors
  BY DEF ExactCursors
<1>2. Init => PagesInv
  BY <1>1, PagesFromTheStart
<1>3. PagesInv /\ [Next]_<<part, v1, v2, v3, v4, v5, v6, v7, v8, v9, v10, v11, v12, v13, v14>> => PagesInv'
  BY <1>1, PagesGoOn
<1>4. PagesInv => PagesAreTrue
  BY <1>1, PageConstants, VisitsOnce, FlagsHold DEF PagesInv, PagesAreTrue
<1> QED BY <1>2, <1>3, <1>4, PTL DEF Spec
=============================================================================
