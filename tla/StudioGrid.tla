----------------------------- MODULE StudioGrid -----------------------------
(***************************************************************************)
(* The data grid of Studio and the row handlers of its server: the rows     *)
(* shown are the answer that arrived last; cells typed and rows drafted are *)
(* staged under the unique key of their row until a save sends them one     *)
(* request at a time, while the user goes on.  A save works on what its     *)
(* closure captured: the edits, the drafts, the rows and the filter.        *)
(***************************************************************************)
EXTENDS Naturals, Sequences, FiniteSets, SequencesExt

CONSTANTS
  Values,        \* of a column that is not a key
  Null,          \* NULL, and no filter
  MaxEvents,     \* bound: gestures of the user
  MaxFlight      \* bound: jobs and list requests at a time

VARIABLES
  db,         \* rows: oid (which row it is), id (its unique key, or NULL), val
  rows,       \* the rows shown, as they were read, in the order of their oid
  filter,     \* the where of the grid
  fetches,    \* list requests on their way, in the order sent
  edits,      \* staged cells: a sequence of [key, data]
  drafts,     \* new rows, in order
  jobs,       \* saves, deletions and sheet edits that are running
  saving,
  count,      \* the next key, events so far, and which came from outside
  staged,     \* staged while no job ran, neither written nor discarded (history)
  shown,      \* the filter of the rows shown, and whether own writes are missing (history)
  made,       \* drafts created, and those created again (history)
  rough       \* jobs overlapped or failed; answers overtaken, lost or asked with an old filter (history)

grid == <<rows, filter, shown>>
stage == <<edits, drafts, staged>>
vars == <<db, grid, fetches, stage, jobs, saving, count, made, rough>>

\* What is proved about the grid takes NULL for no number.
WellFormed == Null \notin Nat

Columns == {"id", "val"}
Unread == {Null}
NoData == [c \in {} |-> Null]

\* uniqueWhereFor: a row whose key column is NULL has no unique where, and its
\* place among the rows for a key.
uniqueWhereFor(row) == row.id
rowKeyFor(list, row) ==
  [id |-> uniqueWhereFor(row),
   at |-> IF uniqueWhereFor(row) = Null THEN Cardinality({r \in list : r.oid <= row.oid}) ELSE 0]

\* The unique where under which a staged row is saved: of the row shown under
\* its key, if there is one.
WhereFor(list, key) ==
  IF \E row \in list : rowKeyFor(list, row) = key
  THEN uniqueWhereFor(CHOOSE row \in list : rowKeyFor(list, row) = key) ELSE Null

IsStaged(key) == \E i \in DOMAIN edits : edits[i].key = key
PlaceOf(key) == CHOOSE i \in DOMAIN edits : edits[i].key = key
DataOf(key) == IF IsStaged(key) THEN edits[PlaceOf(key)].data ELSE NoData

\* edits with the cells of one row replaced; a row without cells is dropped.
StageRow(key, data) ==
  IF DOMAIN data = {} THEN IF IsStaged(key) THEN RemoveAt(edits, PlaceOf(key)) ELSE edits
  ELSE IF IsStaged(key) THEN [edits EXCEPT ![PlaceOf(key)].data = data]
  ELSE Append(edits, [key |-> key, data |-> data])

With(data, col, value) == [c \in DOMAIN data \cup {col} |-> IF c = col THEN value ELSE data[c]]
Without(data, col) == [c \in DOMAIN data \ {col} |-> data[c]]

Request(verb, where, data, n) == [verb |-> verb, where |-> where, data |-> data, n |-> n]
Update(where, data) == Request("update", where, data, 0)

\* handleListRows.
handleListRows(f) == {row \in db : f = Null \/ row.val = f}

\* The row a unique where names.
Named(where) == {row \in db : where # Null /\ row.id = where}
Merge(row, data) ==
  [oid |-> row.oid, id |-> IF "id" \in DOMAIN data THEN data["id"] ELSE row.id,
   val |-> IF "val" \in DOMAIN data THEN data["val"] ELSE row.val]

\* The database after a request.
handleCreateRows(r) == db \cup {[oid |-> count.next, id |-> count.next, val |-> Null]}
handleUpdateRows(r) == (db \ Named(r.where)) \cup {Merge(row, r.data) : row \in Named(r.where)}
handleDeleteRows(r) == db \ Named(r.where)
Written(r) ==
  CASE r.verb = "create" -> handleCreateRows(r)
    [] r.verb = "update" -> handleUpdateRows(r)
    [] r.verb = "delete" -> handleDeleteRows(r)

\* Mutant: an update that matches no row is a success.
AcceptedAnyway(r) == TRUE

\* An update or deletion whose where is no unique where, or names no row, is
\* refused: by the grid, or with 404.
Accepted(r) == r.verb = "create" \/ Named(r.where) # {}
---------------------------------------------------------------------------
Init ==
  /\ \E v \in Values : \E w \in Values \ {v}, id \in {2, Null} : db = {[oid |-> 1, id |-> 1, val |-> v], [oid |-> 2, id |-> id, val |-> w]}
  /\ rows = handleListRows(Null) /\ filter = Null /\ fetches = <<>>
  /\ edits = <<>> /\ drafts = <<>> /\ jobs = <<>> /\ saving = FALSE
  /\ count = [next |-> 3, events |-> 0, outside |-> {}]
  /\ staged = {} /\ shown = [filter |-> Null, unseen |-> FALSE]
  /\ made = [drafts |-> {}, again |-> {}]
  /\ rough = [jobs |-> FALSE, answers |-> FALSE]

\* A gesture of the user, which may take a key nobody has had.
Ready == Len(jobs) + Len(fetches) < MaxFlight
Gesture(keys) ==
  /\ count.events < MaxEvents
  /\ count' = [count EXCEPT !.events = @ + 1, !.next = @ + keys]

\* What the user does not do: another client's write, a fault; one of each.
Outside(what, keys) ==
  /\ what \notin count.outside
  /\ count' = [next |-> count.next + keys, events |-> count.events, outside |-> count.outside \cup {what}]

\* fetchRows with the filter of a closure; a request into the quiet settles
\* what went wrong with earlier answers.
Fetch(f, ends, after) ==
  /\ fetches' = Append(fetches, [filter |-> f, rows |-> Unread, fresh |-> TRUE, ends |-> ends])
  /\ rough' = [after EXCEPT !.answers = @ /\ (fetches # <<>> \/ jobs # <<>>)]

\* The history of what was staged: cells of rows with a key.
Stages(row, col, value, change) ==
  staged' = {s \in staged : s.oid # row.oid \/ s.col # col}
            \cup (IF change /\ jobs = <<>> THEN {[oid |-> row.oid, id |-> row.id, col |-> col, value |-> value]} ELSE {})

\* Mutant: a cell replaces the other staged cells of its row.
setCellEditAlone(row, col, value) ==
  LET key == rowKeyFor(rows, row)
      change == value # row[col]
  IN /\ edits' = StageRow(key, IF change THEN With(NoData, col, value) ELSE NoData)
     /\ IF key.id = Null THEN UNCHANGED staged ELSE Stages(row, col, value, change)

\* setCellEdit: a value that is the row's own is no edit.
setCellEdit(row, col, value) ==
  LET key == rowKeyFor(rows, row)
      change == value # row[col]
  IN /\ edits' = StageRow(key, IF change THEN With(DataOf(key), col, value) ELSE Without(DataOf(key), col))
     /\ IF key.id = Null THEN UNCHANGED staged ELSE Stages(row, col, value, change)

\* A cell editor commits; a key that is typed is new.
TypeCell ==
  /\ \E row \in rows, col \in Columns :
       /\ Gesture(IF col = "id" THEN 1 ELSE 0)
       /\ \E value \in IF col = "id" THEN {count.next} ELSE Values : setCellEdit(row, col, value)
  /\ UNCHANGED <<db, grid, fetches, drafts, jobs, saving, made, rough>>

\* NewRowDialog: the key and the column are left to their defaults.
Draft ==
  /\ Gesture(1)
  /\ drafts' = Append(drafts, count.next)
  /\ staged' = staged \cup (IF jobs = <<>> THEN {[oid |-> count.next, id |-> Null, col |-> "new", value |-> Null]} ELSE {})
  /\ UNCHANGED <<db, grid, fetches, edits, jobs, saving, made, rough>>

\* Discard, or Escape.
Discard ==
  /\ (edits # <<>> \/ drafts # <<>>) /\ Gesture(0)
  /\ edits' = <<>> /\ drafts' = <<>> /\ staged' = {} /\ saving' = FALSE
  /\ UNCHANGED <<db, grid, fetches, jobs, made, rough>>

Start(kind, todo) ==
  /\ jobs' = Append(jobs, [kind |-> kind, todo |-> todo, filter |-> filter])
  /\ saving' = (saving \/ kind # "sheet")
  /\ rough' = [rough EXCEPT !.jobs = @ \/ jobs # <<>>]
  /\ UNCHANGED <<db, grid, fetches, stage, made>>

\* saveAll: creates first, then the staged rows.
saveAll ==
  /\ edits # <<>> \/ drafts # <<>>
  /\ ~saving /\ Ready /\ Gesture(0)
  /\ Start("save", [i \in DOMAIN drafts |-> Request("create", Null, NoData, drafts[i])]
                   \o [i \in DOMAIN edits |-> Update(WhereFor(rows, edits[i].key), edits[i].data)])

\* deleteRows of the row's button or of the selection, in the order selected.
deleteRows ==
  /\ Ready /\ Gesture(0)
  /\ \E n \in 1 .. Cardinality(rows) : \E picked \in Injection(1 .. n, rows) :
       Start("delete", [i \in 1 .. n |-> Request("delete", uniqueWhereFor(picked[i]), NoData, 0)])

\* saveCell of RowSheet: the row is the one shown with its staged cells in it.
saveCell ==
  /\ Ready /\ Gesture(0)
  /\ \E row \in rows : \E v \in Values \ {row.val} :
       LET where == uniqueWhereFor(Merge(row, DataOf(rowKeyFor(rows, row))))
       IN where # Null /\ Start("sheet", <<Update(where, With(NoData, "val", v))>>)

\* Search, filters and the sort order: the effect of fetchRows asks anew.
ChangeFilter ==
  /\ Ready /\ Gesture(0)
  /\ \E f \in IF filter = Null THEN Values ELSE {Null} : filter' = f /\ Fetch(f, FALSE, [rough EXCEPT !.answers = @ \/ jobs # <<>>])
  /\ UNCHANGED <<db, rows, shown, stage, jobs, saving, made>>

Refresh ==
  /\ Ready /\ Gesture(0) /\ Fetch(filter, FALSE, rough)
  /\ UNCHANGED <<db, grid, stage, jobs, saving, made>>
---------------------------------------------------------------------------
(* Requests of the jobs, one at a time. *)

\* A write of the user's reached the database.
Reaches(r) ==
  /\ db' = Written(r)
  /\ fetches' = [k \in DOMAIN fetches |-> [fetches[k] EXCEPT !.fresh = fetches[k].rows = Unread]]
  /\ shown' = [shown EXCEPT !.unseen = TRUE]
  /\ made' = IF r.verb # "create" THEN made
             ELSE IF r.n \in made.drafts THEN [made EXCEPT !.again = @ \cup {r.n}]
             ELSE [made EXCEPT !.drafts = @ \cup {r.n}]
  /\ staged' = {s \in staged :
       ~ \/ r.verb = "create" /\ s.oid = r.n
         \/ r.verb = "update" /\ \E row \in Named(r.where) :
              row.oid = s.oid /\ s.col \in DOMAIN r.data /\ r.data[s.col] = s.value}

NewKeys(r) == IF r.verb = "create" THEN 1 ELSE 0

Send(j) ==
  /\ jobs[j].todo # <<>>
  /\ LET r == Head(jobs[j].todo)
     IN /\ Accepted(r) /\ Reaches(r)
        /\ count' = [count EXCEPT !.next = @ + NewKeys(r)]
  /\ jobs' = [jobs EXCEPT ![j].todo = Tail(@)]
  /\ UNCHANGED <<rows, filter, edits, drafts, saving, rough>>

\* The job ends with an error, and what it had staged stays.
Stops(j) ==
  /\ jobs' = RemoveAt(jobs, j)
  /\ saving' = (saving /\ jobs[j].kind = "sheet")
  /\ rough' = [jobs |-> TRUE, answers |-> TRUE]

Refused(j) ==
  /\ jobs[j].todo # <<>> /\ Stops(j)
  /\ \/ ~Accepted(Head(jobs[j].todo)) /\ UNCHANGED count
     \/ Outside("fault", 0)
  /\ UNCHANGED <<db, grid, fetches, stage, made>>

\* The request is carried out and its answer is lost.
AnswerLost(j) ==
  /\ jobs[j].todo # <<>> /\ Stops(j)
  /\ LET r == Head(jobs[j].todo)
     IN Accepted(r) /\ Reaches(r) /\ Outside("fault", NewKeys(r))
  /\ UNCHANGED <<rows, filter, edits, drafts>>

\* Mutant: the drafts of a save are kept.
FinishKeepingDrafts(j) ==
  /\ jobs[j].todo = <<>> /\ jobs' = RemoveAt(jobs, j)
  /\ IF jobs[j].kind = "save" THEN edits' = <<>> ELSE UNCHANGED edits
  /\ Fetch(jobs[j].filter, jobs[j].kind # "sheet", rough)
  /\ UNCHANGED <<db, grid, drafts, staged, saving, count, made>>

\* Every request was answered: a save clears what is staged, whatever was
\* added since, and the rows are fetched with the filter of the closure.
Finish(j) ==
  /\ jobs[j].todo = <<>> /\ jobs' = RemoveAt(jobs, j)
  /\ IF jobs[j].kind = "save" THEN edits' = <<>> /\ drafts' = <<>> ELSE UNCHANGED <<edits, drafts>>
  /\ Fetch(jobs[j].filter, jobs[j].kind # "sheet", rough)
  /\ UNCHANGED <<db, grid, staged, saving, count, made>>
---------------------------------------------------------------------------
(* Answers of list requests. *)

Read(k) ==
  /\ fetches[k].rows = Unread
  /\ fetches' = [fetches EXCEPT ![k].rows = handleListRows(fetches[k].filter)]
  /\ UNCHANGED <<db, grid, stage, jobs, saving, count, made, rough>>

\* The answer is shown, whatever has been asked since.
Arrive(k) ==
  /\ fetches[k].rows # Unread
  /\ rows' = fetches[k].rows
  /\ shown' = [filter |-> fetches[k].filter, unseen |-> shown.unseen /\ ~fetches[k].fresh]
  /\ fetches' = RemoveAt(fetches, k)
  /\ saving' = (saving /\ ~fetches[k].ends)
  /\ rough' = [rough EXCEPT !.answers = @ \/ k > 1]
  /\ UNCHANGED <<db, filter, stage, jobs, count, made>>

\* The rows shown stay; the error is swallowed by fetchRows.
FetchFails(k) ==
  /\ Outside("fault", 0)
  /\ fetches' = RemoveAt(fetches, k)
  /\ saving' = (saving /\ ~fetches[k].ends)
  /\ rough' = [rough EXCEPT !.answers = TRUE]
  /\ UNCHANGED <<db, grid, stage, jobs, made>>

\* Another client of the database changes or deletes a row.
Others ==
  /\ Outside("write", 0)
  /\ \E row \in db : \/ db' = db \ {row}
                     \/ \E v \in Values \ {row.val} : db' = (db \ {row}) \cup {[row EXCEPT !.val = v]}
  /\ UNCHANGED <<grid, fetches, stage, jobs, saving, made, rough>>

Finished == count.events = MaxEvents /\ jobs = <<>> /\ fetches = <<>> /\ UNCHANGED vars

Next ==
  \/ TypeCell \/ Draft \/ Discard \/ saveAll \/ deleteRows \/ saveCell \/ ChangeFilter \/ Refresh
  \/ \E j \in DOMAIN jobs : Send(j) \/ Refused(j) \/ AnswerLost(j) \/ Finish(j)
  \/ \E k \in DOMAIN fetches : Read(k) \/ Arrive(k) \/ FetchFails(k)
  \/ Others \/ Finished

Spec == Init /\ [][Next]_vars
---------------------------------------------------------------------------
(* Properties. *)

\* "Edits are staged - press Save to write them": a cell or row staged while no
\* job was running is staged, under the key its row had, until it is written to
\* that row or discarded, whatever fails, is deleted or is read again meanwhile.
StagedIsKept ==
  \A s \in staged :
    IF s.col = "new" THEN \E i \in DOMAIN drafts : drafts[i] = s.oid
    ELSE \E i \in DOMAIN edits : edits[i].key.id = s.id /\ s.col \in DOMAIN edits[i].data /\ edits[i].data[s.col] = s.value

\* A draft becomes one row, unless a job failed or two of them overlapped.
DraftsMadeOnce == ~rough.jobs => made.again = {}

\* At rest, the rows shown are those of the grid's filter and show what its
\* user wrote, unless an answer was overtaken or lost or a job failed or asked
\* with the filter it began with; a refresh settles that.
ShownIsCurrent ==
  jobs = <<>> /\ fetches = <<>> /\ ~rough.answers => shown = [filter |-> filter, unseen |-> FALSE]
=============================================================================
