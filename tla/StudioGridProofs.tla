-------------------------- MODULE StudioGridProofs --------------------------
(***************************************************************************)
(* Proofs about StudioGrid: what is staged is kept, drafts are made once    *)
(* and the rows shown settle on those asked for, whatever the bounds on     *)
(* gestures, jobs and list requests and whatever the values.                *)
(***************************************************************************)
EXTENDS StudioGrid, TLAPS

(* Sequences. *)

LEMMA LengthIs == ASSUME NEW S, NEW s \in Seq(S) PROVE Len(s) \in Nat /\ DOMAIN s = 1 .. Len(s)
OBVIOUS

LEMMA AppendIs ==
  ASSUME NEW S, NEW s \in Seq(S), NEW e \in S
  PROVE  /\ Append(s, e) \in Seq(S) /\ Len(Append(s, e)) = Len(s) + 1
         /\ \A i \in 1 .. Len(s) : Append(s, e)[i] = s[i]
         /\ Append(s, e)[Len(s) + 1] = e
OBVIOUS

LEMMA TailIs ==
  ASSUME NEW S, NEW s \in Seq(S), s # <<>>
  PROVE  /\ Tail(s) \in Seq(S) /\ Len(Tail(s)) = Len(s) - 1 /\ Head(s) = s[1] /\ 1 \in 1 .. Len(s)
         /\ \A i \in 1 .. Len(s) - 1 : Tail(s)[i] = s[i + 1]
OBVIOUS

LEMMA ConcatIs ==
  ASSUME NEW S, NEW s \in Seq(S), NEW t \in Seq(S)
  PROVE  /\ s \o t \in Seq(S) /\ Len(s \o t) = Len(s) + Len(t)
         /\ \A i \in 1 .. Len(s) : (s \o t)[i] = s[i]
         /\ \A i \in 1 .. Len(t) : (s \o t)[Len(s) + i] = t[i]
OBVIOUS

LEMMA RemovedIs ==
  ASSUME NEW S, NEW s \in Seq(S), NEW i \in 1 .. Len(s)
  PROVE  /\ RemoveAt(s, i) \in Seq(S) /\ Len(RemoveAt(s, i)) = Len(s) - 1
         /\ \A k \in 1 .. Len(s) - 1 : RemoveAt(s, i)[k] = s[IF k < i THEN k ELSE k + 1]
<1> DEFINE before == SubSeq(s, 1, i - 1)
           after == SubSeq(s, i + 1, Len(s))
<1>1. /\ before \in Seq(S) /\ Len(before) = i - 1
      /\ \A k \in 1 .. i - 1 : before[k] = s[k]
  OBVIOUS
<1>2. /\ after \in Seq(S) /\ Len(after) = Len(s) - i
      /\ \A k \in 1 .. Len(s) - i : after[k] = s[i + k]
  OBVIOUS
<1>3. RemoveAt(s, i) = before \o after
  BY DEF RemoveAt
<1> HIDE DEF before, after
<1>4. before \o after \in Seq(S) /\ Len(before \o after) = Len(before) + Len(after)
  BY <1>1, <1>2, ConcatIs
<1>5. \A k \in 1 .. Len(before) : (before \o after)[k] = before[k]
  BY <1>1, <1>2, ConcatIs
<1>6. \A k \in 1 .. Len(after) : (before \o after)[Len(before) + k] = after[k]
  BY <1>1, <1>2, ConcatIs
<1>7. /\ before \o after \in Seq(S) /\ Len(before \o after) = Len(s) - 1
      /\ \A k \in 1 .. i - 1 : (before \o after)[k] = before[k]
      /\ \A k \in 1 .. Len(s) - i : (before \o after)[(i - 1) + k] = after[k]
  BY <1>1, <1>2, <1>4, <1>5, <1>6
<1>8. ASSUME NEW k \in 1 .. Len(s) - 1 PROVE RemoveAt(s, i)[k] = s[IF k < i THEN k ELSE k + 1]
  <2>1. CASE k < i
    BY <1>1, <1>3, <1>7, <2>1
  <2>2. CASE ~(k < i)
    <3>1. k - (i - 1) \in 1 .. Len(s) - i /\ i + (k - (i - 1)) = k + 1 /\ (i - 1) + (k - (i - 1)) = k
      BY <2>2
    <3> QED BY <1>2, <1>3, <1>7, <2>2, <3>1
  <2> QED BY <2>1, <2>2
<1> QED BY <1>3, <1>7, <1>8

---------------------------------------------------------------------------
(* What the variables hold. *)

Cell == Values \cup {Null}
Row == [oid : Nat, id : Nat \cup {Null}, val : Cell]
Data ==
  {data \in UNION {[cols -> Nat \cup Cell] : cols \in SUBSET Columns} :
     /\ "id" \in DOMAIN data => data["id"] \in Nat
     /\ "val" \in DOMAIN data => data["val"] \in Cell}
Key == {rowKeyFor(pair[1], pair[2]) : pair \in (SUBSET Row) \X Row}
Edit == [key : Key, data : Data]
Sent == [verb : {"create", "update", "delete"}, where : Nat \cup {Null}, data : Data, n : Nat]
Job == [kind : {"save", "delete", "sheet"}, todo : Seq(Sent), filter : Cell]
Listing == [filter : Cell, rows : {Unread} \cup SUBSET Row, fresh : BOOLEAN, ends : BOOLEAN]
Counts == [next : Nat, events : Nat, outside : SUBSET {"fault", "write"}]
Roughness == [jobs : BOOLEAN, answers : BOOLEAN]

GridTypes ==
  /\ db \in SUBSET Row /\ rows \in SUBSET Row /\ filter \in Cell
  /\ fetches \in Seq(Listing) /\ edits \in Seq(Edit) /\ drafts \in Seq(Nat) /\ jobs \in Seq(Job)
  /\ count \in Counts /\ shown \in [filter : Cell, unseen : BOOLEAN]
  /\ made \in [drafts : SUBSET Nat, again : SUBSET Nat] /\ rough \in Roughness

LEMMA DataIs ==
  ASSUME NEW data
  PROVE  data \in Data <=>
           /\ data = [c \in DOMAIN data |-> data[c]] /\ DOMAIN data \subseteq Columns
           /\ "id" \in DOMAIN data => data["id"] \in Nat
           /\ "val" \in DOMAIN data => data["val"] \in Cell
<1>1. data \in Data =>
           /\ data = [c \in DOMAIN data |-> data[c]] /\ DOMAIN data \subseteq Columns
           /\ "id" \in DOMAIN data => data["id"] \in Nat
           /\ "val" \in DOMAIN data => data["val"] \in Cell
  BY DEF Data
<1>2. ASSUME /\ data = [c \in DOMAIN data |-> data[c]] /\ DOMAIN data \subseteq Columns
             /\ "id" \in DOMAIN data => data["id"] \in Nat
             /\ "val" \in DOMAIN data => data["val"] \in Cell
      PROVE  data \in Data
  <2>1. \A c \in DOMAIN data : data[c] \in Nat \cup Cell
    BY <1>2 DEF Columns
  <2>2. data \in [DOMAIN data -> Nat \cup Cell]
    BY <1>2, <2>1
  <2> QED BY <1>2, <2>2 DEF Data
<1> QED BY <1>1, <1>2

LEMMA NoDataIs == NoData \in Data /\ DOMAIN NoData = {}
<1>1. NoData = [c \in DOMAIN NoData |-> NoData[c]] /\ DOMAIN NoData = {}
  BY DEF NoData
<1> QED BY <1>1, DataIs

LEMMA WithIs ==
  ASSUME NEW data \in Data, NEW col \in Columns, NEW value, IF col = "id" THEN value \in Nat ELSE value \in Cell
  PROVE  /\ With(data, col, value) \in Data /\ DOMAIN With(data, col, value) = DOMAIN data \cup {col}
         /\ With(data, col, value)[col] = value
         /\ \A c \in DOMAIN data : c # col => With(data, col, value)[c] = data[c]
<1> DEFINE more == With(data, col, value)
<1>1. /\ more = [c \in DOMAIN more |-> more[c]] /\ DOMAIN more = DOMAIN data \cup {col}
      /\ more[col] = value /\ \A c \in DOMAIN data : c # col => more[c] = data[c]
  BY DEF With
<1> HIDE DEF more
<1>2. more \in Data
  BY <1>1, DataIs DEF Columns
<1> QED BY <1>1, <1>2 DEF more

LEMMA WithoutIs ==
  ASSUME NEW data \in Data, NEW col
  PROVE  /\ Without(data, col) \in Data /\ DOMAIN Without(data, col) = DOMAIN data \ {col}
         /\ \A c \in DOMAIN data : c # col => Without(data, col)[c] = data[c]
<1> DEFINE less == Without(data, col)
<1>1. /\ less = [c \in DOMAIN less |-> less[c]] /\ DOMAIN less = DOMAIN data \ {col}
      /\ \A c \in DOMAIN data : c # col => less[c] = data[c]
  BY DEF Without
<1> HIDE DEF less
<1>2. less \in Data
  BY <1>1, DataIs
<1> QED BY <1>1, <1>2 DEF less

LEMMA KeyIs ==
  ASSUME NEW list \in SUBSET Row, NEW row \in Row
  PROVE  /\ rowKeyFor(list, row) \in Key /\ rowKeyFor(list, row).id = row.id
         /\ row.id \in Nat \cup {Null}
<1>1. rowKeyFor(list, row) = rowKeyFor(<<list, row>>[1], <<list, row>>[2])
  OBVIOUS
<1> QED BY <1>1 DEF Key, rowKeyFor, uniqueWhereFor, Row

\* A key that is no place names at most one row.
LEMMA KeysDiffer ==
  ASSUME NEW a \in Key, NEW b \in Key, a.id = b.id, a.id # Null
  PROVE  a = b
<1>1. PICK p \in (SUBSET Row) \X Row : a = rowKeyFor(p[1], p[2])
  BY DEF Key
<1>2. PICK q \in (SUBSET Row) \X Row : b = rowKeyFor(q[1], q[2])
  BY DEF Key
<1> QED BY <1>1, <1>2 DEF rowKeyFor

LEMMA KeyIdIs == ASSUME NEW key \in Key PROVE key.id \in Nat \cup {Null}
<1>1. PICK p \in (SUBSET Row) \X Row : key = rowKeyFor(p[1], p[2])
  BY DEF Key
<1>2. p[2] \in Row
  OBVIOUS
<1> QED BY <1>1, <1>2 DEF rowKeyFor, uniqueWhereFor, Row

LEMMA DataOfIs ==
  ASSUME edits \in Seq(Edit), NEW key
  PROVE  /\ DataOf(key) \in Data
         /\ IsStaged(key) => PlaceOf(key) \in DOMAIN edits /\ edits[PlaceOf(key)].key = key /\ DataOf(key) = edits[PlaceOf(key)].data
         /\ ~IsStaged(key) => DataOf(key) = NoData
<1>1. CASE IsStaged(key)
  <2>1. PlaceOf(key) \in DOMAIN edits /\ edits[PlaceOf(key)].key = key
    BY <1>1 DEF IsStaged, PlaceOf
  <2>2. edits[PlaceOf(key)] \in Edit
    BY <2>1
  <2> QED BY <1>1, <2>1, <2>2 DEF DataOf, Edit
<1>2. CASE ~IsStaged(key)
  BY <1>2, NoDataIs DEF DataOf
<1> QED BY <1>1, <1>2

DistinctKeys == \A i, k \in DOMAIN edits : edits[i].key = edits[k].key => i = k

\* The staged cells of one row are replaced, those of the others stay.
LEMMA StageRowIs ==
  ASSUME edits \in Seq(Edit), DistinctKeys, NEW key \in Key, NEW data \in Data
  PROVE  LET after == StageRow(key, data)
         IN /\ after \in Seq(Edit)
            /\ \A i, k \in DOMAIN after : after[i].key = after[k].key => i = k
            /\ \A i \in DOMAIN edits : edits[i].key # key => \E k \in DOMAIN after : after[k] = edits[i]
            /\ DOMAIN data # {} => \E k \in DOMAIN after : after[k] = [key |-> key, data |-> data]
            /\ \A k \in DOMAIN after : after[k] = [key |-> key, data |-> data] \/ \E i \in DOMAIN edits : after[k] = edits[i]
<1> DEFINE after == StageRow(key, data)
           entry == [key |-> key, data |-> data]
           place == PlaceOf(key)
           Fine == /\ after \in Seq(Edit)
                   /\ \A i, k \in DOMAIN after : after[i].key = after[k].key => i = k
                   /\ \A i \in DOMAIN edits : edits[i].key # key => \E k \in DOMAIN after : after[k] = edits[i]
                   /\ DOMAIN data # {} => \E k \in DOMAIN after : after[k] = entry
                   /\ \A k \in DOMAIN after : after[k] = entry \/ \E i \in DOMAIN edits : after[k] = edits[i]
<1>1. entry \in Edit /\ entry.key = key /\ DOMAIN edits = 1 .. Len(edits) /\ Len(edits) \in Nat
  BY DEF Edit
<1>2. IsStaged(key) => place \in 1 .. Len(edits) /\ edits[place].key = key
  BY <1>1, DataOfIs
<1>3. CASE DOMAIN data = {} /\ IsStaged(key)
  <2>1. after = RemoveAt(edits, place)
    BY <1>3 DEF StageRow
  <2>2. /\ after \in Seq(Edit) /\ Len(after) = Len(edits) - 1 /\ DOMAIN after = 1 .. Len(edits) - 1
        /\ \A k \in 1 .. Len(edits) - 1 : after[k] = edits[IF k < place THEN k ELSE k + 1]
    BY <1>2, <1>3, <2>1, RemovedIs
  <2> HIDE DEF after, place
  <2>3. \A k \in DOMAIN after : (IF k < place THEN k ELSE k + 1) \in DOMAIN edits
    BY <1>1, <1>2, <1>3, <2>2
  <2>4. ASSUME NEW i \in DOMAIN after, NEW k \in DOMAIN after, after[i].key = after[k].key PROVE i = k
    <3>1. (IF i < place THEN i ELSE i + 1) = (IF k < place THEN k ELSE k + 1)
      BY <2>2, <2>3, <2>4 DEF DistinctKeys
    <3> QED BY <1>2, <1>3, <2>2, <3>1
  <2>5. ASSUME NEW i \in DOMAIN edits, edits[i].key # key PROVE \E k \in DOMAIN after : after[k] = edits[i]
    <3>1. i # place
      BY <1>2, <1>3, <2>5
    <3>2. CASE i < place
      BY <1>1, <1>2, <1>3, <2>2, <3>2
    <3>3. CASE ~(i < place)
      <4>1. i - 1 \in DOMAIN after /\ ~(i - 1 < place) /\ (i - 1) + 1 = i
        BY <1>1, <1>2, <1>3, <2>2, <3>1, <3>3
      <4> QED BY <2>2, <4>1
    <3> QED BY <3>2, <3>3
  <2> QED BY <1>3, <2>2, <2>3, <2>4, <2>5 DEF after
<1>4. CASE DOMAIN data = {} /\ ~IsStaged(key)
  <2>1. after = edits
    BY <1>4 DEF StageRow
  <2> QED BY <1>4, <2>1 DEF DistinctKeys
<1>5. CASE DOMAIN data # {} /\ IsStaged(key)
  <2>1. after = [edits EXCEPT ![place].data = data]
    BY <1>5 DEF StageRow
  <2>2. edits[place] \in Edit
    BY <1>2, <1>5
  <2>3. [edits[place] EXCEPT !.data = data] = entry
    BY <1>2, <1>5, <2>2 DEF Edit
  <2>4. after = [edits EXCEPT ![place] = entry]
    BY <1>2, <1>5, <2>1, <2>3
  <2> HIDE DEF after, place, entry
  <2>5. /\ after \in Seq(Edit) /\ DOMAIN after = 1 .. Len(edits)
        /\ \A k \in DOMAIN after : after[k] = IF k = place THEN entry ELSE edits[k]
    BY <1>1, <1>2, <1>5, <2>4
  <2>6. \A k \in DOMAIN after : after[k].key = edits[k].key
    BY <1>1, <1>2, <1>5, <2>5
  <2> QED BY <1>1, <1>2, <1>5, <2>5, <2>6 DEF DistinctKeys, after, entry
<1>6. CASE DOMAIN data # {} /\ ~IsStaged(key)
  <2>1. after = Append(edits, entry)
    BY <1>6 DEF StageRow
  <2> HIDE DEF after, entry
  <2>2. /\ after \in Seq(Edit) /\ DOMAIN after = 1 .. Len(edits) + 1
        /\ \A k \in 1 .. Len(edits) : after[k] = edits[k]
        /\ after[Len(edits) + 1] = entry
    BY <1>1, <2>1, AppendIs
  <2>3. \A k \in DOMAIN edits : edits[k].key # entry.key
    BY <1>1, <1>6 DEF IsStaged
  <2>4. ASSUME NEW i \in DOMAIN after, NEW k \in DOMAIN after, after[i].key = after[k].key PROVE i = k
    BY <1>1, <2>2, <2>3, <2>4 DEF DistinctKeys
  <2> QED BY <1>1, <1>6, <2>2, <2>4 DEF after, entry
<1>7. Fine
  BY <1>3, <1>4, <1>5, <1>6
<1> QED BY <1>7

---------------------------------------------------------------------------
(* What the parts of an action do. *)

\* The helpers of the actions, with what they do to each variable.
LEMMA GestureIs ==
  ASSUME count \in Counts, NEW keys \in Nat, Gesture(keys)
  PROVE  count' \in Counts /\ count'.next = count.next + keys
<1>1. count' = [next |-> count.next + keys, events |-> count.events + 1, outside |-> count.outside]
  BY DEF Counts, Gesture
<1> QED BY <1>1 DEF Counts

LEMMA OutsideIs ==
  ASSUME count \in Counts, NEW keys \in Nat, NEW what \in {"fault", "write"}, Outside(what, keys)
  PROVE  count' \in Counts /\ count'.next = count.next + keys
BY DEF Counts, Outside

LEMMA FetchIs ==
  ASSUME fetches \in Seq(Listing), jobs \in Seq(Job), NEW f \in Cell, NEW ends \in BOOLEAN, NEW after \in Roughness,
         Fetch(f, ends, after)
  PROVE  /\ fetches' \in Seq(Listing) /\ Len(fetches') = Len(fetches) + 1
         /\ \A k \in 1 .. Len(fetches) : fetches'[k] = fetches[k]
         /\ LET last == fetches'[Len(fetches) + 1] IN last.filter = f /\ last.rows = Unread /\ last.fresh
         /\ rough' \in Roughness /\ rough'.jobs = after.jobs
         /\ rough'.answers <=> after.answers /\ (fetches # <<>> \/ jobs # <<>>)
<1> DEFINE asking == [filter |-> f, rows |-> Unread, fresh |-> TRUE, ends |-> ends]
           still == after.answers /\ (fetches # <<>> \/ jobs # <<>>)
<1>1. asking \in Listing /\ asking.filter = f /\ asking.rows = Unread /\ asking.fresh
  BY DEF Listing
<1>2. still \in BOOLEAN /\ rough' = [after EXCEPT !.answers = still] /\ fetches' = Append(fetches, asking)
  BY DEF Fetch
<1> HIDE DEF asking
<1>3. /\ fetches' \in Seq(Listing) /\ Len(fetches') = Len(fetches) + 1
      /\ \A k \in 1 .. Len(fetches) : fetches'[k] = fetches[k]
      /\ fetches'[Len(fetches) + 1] = asking
  BY <1>1, <1>2, AppendIs
<1>4. rough' \in Roughness /\ rough'.jobs = after.jobs /\ (rough'.answers <=> still)
  <2> HIDE DEF still
  <2> QED BY <1>2 DEF Roughness
<1> QED BY <1>1, <1>3, <1>4

LEMMA StartIs ==
  ASSUME jobs \in Seq(Job), rough \in Roughness, filter \in Cell,
         NEW kind \in {"save", "delete", "sheet"}, NEW list \in Seq(Sent), Start(kind, list)
  PROVE  /\ jobs' \in Seq(Job) /\ Len(jobs') = Len(jobs) + 1
         /\ \A j \in 1 .. Len(jobs) : jobs'[j] = jobs[j]
         /\ LET last == jobs'[Len(jobs) + 1] IN last.kind = kind /\ last.todo = list /\ last.filter = filter
         /\ rough' \in Roughness /\ (rough'.jobs <=> rough.jobs \/ jobs # <<>>) /\ rough'.answers = rough.answers
         /\ UNCHANGED <<db, rows, filter, shown, fetches, edits, drafts, staged, made>>
<1> DEFINE job == [kind |-> kind, todo |-> list, filter |-> filter]
           over == rough.jobs \/ jobs # <<>>
<1>1. job \in Job /\ job.kind = kind /\ job.todo = list /\ job.filter = filter
  BY DEF Job
<1>2. over \in BOOLEAN /\ rough' = [rough EXCEPT !.jobs = over] /\ jobs' = Append(jobs, job)
  BY DEF Start
<1> HIDE DEF job
<1>3. /\ jobs' \in Seq(Job) /\ Len(jobs') = Len(jobs) + 1
      /\ \A k \in 1 .. Len(jobs) : jobs'[k] = jobs[k]
      /\ jobs'[Len(jobs) + 1] = job
  BY <1>1, <1>2, AppendIs
<1>4. rough' \in Roughness /\ (rough'.jobs <=> over) /\ rough'.answers = rough.answers
  <2> HIDE DEF over
  <2> QED BY <1>2 DEF Roughness
<1> QED BY <1>1, <1>3, <1>4 DEF Start, grid, stage

LEMMA StopsIs ==
  ASSUME jobs \in Seq(Job), NEW j \in DOMAIN jobs, Stops(j)
  PROVE  /\ jobs' \in Seq(Job) /\ Len(jobs') = Len(jobs) - 1
         /\ \A k \in DOMAIN jobs' : \E i \in DOMAIN jobs : jobs'[k] = jobs[i]
         /\ rough' \in Roughness /\ rough'.jobs /\ rough'.answers
<1>1. j \in 1 .. Len(jobs) /\ jobs' = RemoveAt(jobs, j)
  BY DEF Stops
<1>2. /\ jobs' \in Seq(Job) /\ Len(jobs') = Len(jobs) - 1
      /\ \A k \in 1 .. Len(jobs) - 1 : jobs'[k] = jobs[IF k < j THEN k ELSE k + 1]
  BY <1>1, RemovedIs
<1>3. \A k \in 1 .. Len(jobs) - 1 : (IF k < j THEN k ELSE k + 1) \in DOMAIN jobs
  BY <1>1
<1>4. DOMAIN jobs' = 1 .. Len(jobs) - 1
  BY <1>2
<1>5. rough' \in Roughness /\ rough'.jobs /\ rough'.answers
  BY DEF Stops, Roughness
<1> QED BY <1>2, <1>3, <1>4, <1>5

LEMMA NamedIs == ASSUME NEW where PROVE Named(where) \subseteq db /\ \A row \in Named(where) : row.id = where /\ where # Null
BY DEF Named

LEMMA MergeIs ==
  ASSUME NEW row \in Row, NEW data \in Data
  PROVE  /\ Merge(row, data) \in Row /\ Merge(row, data).oid = row.oid
         /\ Merge(row, data).id = IF "id" \in DOMAIN data THEN data["id"] ELSE row.id
BY DataIs DEF Merge, Row

\* A request in the database: the rows, and what the history says of it.
LEMMA ReachesIs ==
  ASSUME GridTypes, NEW r \in Sent, Reaches(r)
  PROVE  /\ db' \in SUBSET Row
         /\ \A row \in db' : \/ row \in db
                             \/ r.verb = "create" /\ row.oid = count.next /\ row.id = count.next
                             \/ r.verb = "update" /\ \E old \in Named(r.where) : row = Merge(old, r.data)
         /\ fetches' \in Seq(Listing) /\ Len(fetches') = Len(fetches)
         /\ \A k \in DOMAIN fetches : fetches'[k].rows = fetches[k].rows /\ fetches'[k].filter = fetches[k].filter
         /\ shown' \in [filter : Cell, unseen : BOOLEAN] /\ shown'.filter = shown.filter
         /\ made' \in [drafts : SUBSET Nat, again : SUBSET Nat]
         /\ r.verb # "create" => made' = made
         /\ r.verb = "create" /\ r.n \notin made.drafts =>
              made'.drafts = made.drafts \cup {r.n} /\ made'.again = made.again
         /\ r.verb = "create" /\ r.n \in made.drafts => made'.drafts = made.drafts
<1>1. r.data \in Data /\ r.n \in Nat /\ r.verb \in {"create", "update", "delete"}
  BY DEF Sent
<1>2. /\ db' \in SUBSET Row
      /\ \A row \in db' : \/ row \in db
                          \/ r.verb = "create" /\ row.oid = count.next /\ row.id = count.next
                          \/ r.verb = "update" /\ \E old \in Named(r.where) : row = Merge(old, r.data)
  <2>1. CASE r.verb = "create"
    <3>1. db' = db \cup {[oid |-> count.next, id |-> count.next, val |-> Null]}
      BY <2>1 DEF Reaches, Written, handleCreateRows
    <3> QED BY <2>1, <3>1 DEF GridTypes, Row, Counts, Cell
  <2>2. CASE r.verb = "update"
    <3>1. db' = (db \ Named(r.where)) \cup {Merge(row, r.data) : row \in Named(r.where)}
      BY <2>2 DEF Reaches, Written, handleUpdateRows
    <3>2. \A row \in Named(r.where) : Merge(row, r.data) \in Row
      BY <1>1, NamedIs, MergeIs DEF GridTypes
    <3> QED BY <2>2, <3>1, <3>2 DEF GridTypes
  <2>3. CASE r.verb = "delete"
    BY <2>3 DEF Reaches, Written, handleDeleteRows, GridTypes
  <2> QED BY <1>1, <2>1, <2>2, <2>3
<1>3. /\ fetches' \in Seq(Listing) /\ Len(fetches') = Len(fetches)
      /\ \A k \in DOMAIN fetches : fetches'[k].rows = fetches[k].rows /\ fetches'[k].filter = fetches[k].filter
  <2> DEFINE unread(k) == fetches[k].rows = Unread
  <2>1. fetches' = [k \in DOMAIN fetches |-> [fetches[k] EXCEPT !.fresh = unread(k)]]
    BY DEF Reaches
  <2>2. \A k : unread(k) \in BOOLEAN
    OBVIOUS
  <2> HIDE DEF unread
  <2>3. ASSUME NEW k \in DOMAIN fetches
        PROVE  LET f == [fetches[k] EXCEPT !.fresh = unread(k)]
               IN f \in Listing /\ f.rows = fetches[k].rows /\ f.filter = fetches[k].filter
    <3>1. fetches[k] \in Listing
      BY DEF GridTypes
    <3> QED BY <2>2, <3>1 DEF Listing
  <2>4. DOMAIN fetches = 1 .. Len(fetches) /\ Len(fetches) \in Nat
    BY DEF GridTypes
  <2>5. /\ DOMAIN fetches' = 1 .. Len(fetches)
        /\ \A k \in DOMAIN fetches : fetches'[k] \in Listing /\ fetches'[k].rows = fetches[k].rows /\ fetches'[k].filter = fetches[k].filter
    BY <2>1, <2>3, <2>4
  <2>6. fetches' \in [1 .. Len(fetches) -> Listing]
    BY <2>1, <2>4, <2>5
  <2> QED BY <2>4, <2>5, <2>6
<1>4. shown' \in [filter : Cell, unseen : BOOLEAN] /\ shown'.filter = shown.filter
  BY DEF Reaches, GridTypes
<1>5. /\ made' \in [drafts : SUBSET Nat, again : SUBSET Nat]
      /\ r.verb # "create" => made' = made
      /\ r.verb = "create" /\ r.n \notin made.drafts =>
           made'.drafts = made.drafts \cup {r.n} /\ made'.again = made.again
      /\ r.verb = "create" /\ r.n \in made.drafts => made'.drafts = made.drafts
  <2>1. made \in [drafts : SUBSET Nat, again : SUBSET Nat]
    BY DEF GridTypes
  <2>2. CASE r.verb # "create"
    BY <2>1, <2>2 DEF Reaches
  <2>3. CASE r.verb = "create" /\ r.n \in made.drafts
    <3>1. made' = [made EXCEPT !.again = made.again \cup {r.n}]
      BY <2>3 DEF Reaches
    <3> QED BY <1>1, <2>1, <2>3, <3>1
  <2>4. CASE r.verb = "create" /\ r.n \notin made.drafts
    <3>1. made' = [made EXCEPT !.drafts = made.drafts \cup {r.n}]
      BY <2>4 DEF Reaches
    <3> QED BY <1>1, <2>1, <2>4, <3>1
  <2> QED BY <2>2, <2>3, <2>4
<1> QED BY <1>2, <1>3, <1>4, <1>5

---------------------------------------------------------------------------
(* Cells, saves and requests. *)

LEMMA CellIs ==
  ASSUME GridTypes, DistinctKeys, NEW row \in rows, NEW col \in Columns, NEW value,
         IF col = "id" THEN value \in Nat ELSE value \in Cell, setCellEdit(row, col, value)
  PROVE  LET key == rowKeyFor(rows, row)
         IN \E data \in Data :
              /\ edits' = StageRow(key, data)
              /\ \A c \in DOMAIN DataOf(key) : c # col => c \in DOMAIN data /\ data[c] = DataOf(key)[c]
              /\ \A c \in DOMAIN data : c # col => c \in DOMAIN DataOf(key) /\ data[c] = DataOf(key)[c]
              /\ col \in DOMAIN data => data[col] = value
              /\ row.id = Null => staged' = staged
              /\ row.id # Null => \A s \in staged' :
                   \/ s \in staged /\ (s.oid # row.oid \/ s.col # col)
                   \/ jobs = <<>> /\ s = [oid |-> row.oid, id |-> row.id, col |-> col, value |-> value] /\ col \in DOMAIN data
<1> DEFINE key == rowKeyFor(rows, row)
           old == DataOf(key)
           Right(data) ==
              /\ edits' = StageRow(key, data)
              /\ \A c \in DOMAIN old : c # col => c \in DOMAIN data /\ data[c] = old[c]
              /\ \A c \in DOMAIN data : c # col => c \in DOMAIN old /\ data[c] = old[c]
              /\ col \in DOMAIN data => data[col] = value
              /\ row.id = Null => staged' = staged
              /\ row.id # Null => \A s \in staged' :
                   \/ s \in staged /\ (s.oid # row.oid \/ s.col # col)
                   \/ jobs = <<>> /\ s = [oid |-> row.oid, id |-> row.id, col |-> col, value |-> value] /\ col \in DOMAIN data
<1>1. row \in Row /\ key.id = row.id /\ old \in Data
  BY KeyIs, DataOfIs DEF GridTypes
<1>2. CASE value # row[col]
  <2> DEFINE data == With(old, col, value)
  <2>1. /\ edits' = StageRow(key, data)
        /\ row.id = Null => staged' = staged
        /\ row.id # Null =>
             staged' = {s \in staged : s.oid # row.oid \/ s.col # col}
                       \cup (IF jobs = <<>> THEN {[oid |-> row.oid, id |-> row.id, col |-> col, value |-> value]} ELSE {})
    <3>1. key.id = Null <=> row.id = Null
      BY <1>1
    <3> QED BY <1>2, <3>1 DEF setCellEdit, Stages
  <2>2. /\ data \in Data /\ DOMAIN data = DOMAIN old \cup {col}
        /\ data[col] = value /\ \A c \in DOMAIN old : c # col => data[c] = old[c]
    <3> HIDE DEF old, key
    <3> QED BY <1>1, WithIs
  <2> HIDE DEF data, old, key
  <2>3. Right(data)
    BY <2>1, <2>2
  <2> QED BY <2>2, <2>3 DEF old, key
<1>3. CASE ~(value # row[col])
  <2> DEFINE data == Without(old, col)
  <2>1. /\ edits' = StageRow(key, data)
        /\ row.id = Null => staged' = staged
        /\ row.id # Null => staged' = {s \in staged : s.oid # row.oid \/ s.col # col}
    <3>1. key.id = Null <=> row.id = Null
      BY <1>1
    <3> QED BY <1>3, <3>1 DEF setCellEdit, Stages
  <2>2. /\ data \in Data /\ DOMAIN data = DOMAIN old \ {col}
        /\ \A c \in DOMAIN old : c # col => data[c] = old[c]
    BY <1>1, WithoutIs
  <2> HIDE DEF data, old, key
  <2>3. Right(data)
    BY <2>1, <2>2
  <2> QED BY <2>2, <2>3 DEF old, key
<1> QED BY <1>2, <1>3

LEMMA WhereForIs ==
  ASSUME rows \in SUBSET Row, NEW key \in Key
  PROVE  WhereFor(rows, key) \in {key.id, Null} /\ WhereFor(rows, key) \in Nat \cup {Null}
<1>1. CASE \E row \in rows : rowKeyFor(rows, row) = key
  <2> DEFINE row == CHOOSE row \in rows : rowKeyFor(rows, row) = key
  <2>1. row \in rows /\ rowKeyFor(rows, row) = key
    BY <1>1
  <2>2. WhereFor(rows, key) = row.id
    BY <1>1 DEF WhereFor, uniqueWhereFor
  <2>3. row.id = key.id
    BY <2>1 DEF rowKeyFor, uniqueWhereFor
  <2> QED BY <2>2, <2>3, KeyIdIs
<1>2. CASE ~\E row \in rows : rowKeyFor(rows, row) = key
  BY <1>2 DEF WhereFor
<1> QED BY <1>1, <1>2

\* What a save sends: the drafts, then the staged rows.
Saved == [i \in DOMAIN drafts |-> Request("create", Null, NoData, drafts[i])]
         \o [i \in DOMAIN edits |-> Update(WhereFor(rows, edits[i].key), edits[i].data)]

LEMMA SavedIs ==
  ASSUME GridTypes
  PROVE  /\ Saved \in Seq(Sent) /\ Len(Saved) = Len(drafts) + Len(edits)
         /\ \A i \in 1 .. Len(drafts) : Saved[i] = Request("create", Null, NoData, drafts[i])
         /\ \A i \in 1 .. Len(edits) : Saved[Len(drafts) + i] = Update(WhereFor(rows, edits[i].key), edits[i].data)
<1> DEFINE creates == [i \in DOMAIN drafts |-> Request("create", Null, NoData, drafts[i])]
           updates == [i \in DOMAIN edits |-> Update(WhereFor(rows, edits[i].key), edits[i].data)]
<1>1. \A i \in DOMAIN drafts : Request("create", Null, NoData, drafts[i]) \in Sent
  BY NoDataIs DEF Request, Sent, GridTypes
<1>2. ASSUME NEW i \in DOMAIN edits PROVE Update(WhereFor(rows, edits[i].key), edits[i].data) \in Sent
  <2>1. edits[i] \in Edit
    BY DEF GridTypes
  <2>2. edits[i].key \in Key /\ edits[i].data \in Data
    BY <2>1 DEF Edit
  <2>3. WhereFor(rows, edits[i].key) \in Nat \cup {Null}
    BY <2>2, WhereForIs DEF GridTypes
  <2> QED BY <2>2, <2>3 DEF Update, Request, Sent
<1>3. /\ Len(drafts) \in Nat /\ DOMAIN drafts = 1 .. Len(drafts)
      /\ Len(edits) \in Nat /\ DOMAIN edits = 1 .. Len(edits)
  BY DEF GridTypes
<1>4. creates \in [1 .. Len(drafts) -> Sent] /\ updates \in [1 .. Len(edits) -> Sent]
  BY <1>1, <1>2, <1>3
<1>5. creates \in Seq(Sent) /\ Len(creates) = Len(drafts) /\ updates \in Seq(Sent) /\ Len(updates) = Len(edits)
  <2> HIDE DEF creates, updates
  <2> QED BY <1>3, <1>4
<1>6. /\ \A i \in 1 .. Len(drafts) : creates[i] = Request("create", Null, NoData, drafts[i])
      /\ \A i \in 1 .. Len(edits) : updates[i] = Update(WhereFor(rows, edits[i].key), edits[i].data)
  BY <1>3
<1>7. Saved = creates \o updates
  BY DEF Saved
<1> HIDE DEF creates, updates
<1>8. Saved \in Seq(Sent) /\ Len(Saved) = Len(creates) + Len(updates)
  BY <1>5, <1>7, ConcatIs
<1>9. \A i \in 1 .. Len(creates) : Saved[i] = creates[i]
  BY <1>5, <1>7, ConcatIs
<1>10. \A i \in 1 .. Len(updates) : Saved[Len(creates) + i] = updates[i]
  BY <1>5, <1>7, ConcatIs
<1> QED BY <1>5, <1>6, <1>8, <1>9, <1>10

\* The first request of a job goes, and it has the others left.
LEMMA SentIs ==
  ASSUME jobs \in Seq(Job), NEW j \in DOMAIN jobs, jobs[j].todo # <<>>, jobs' = [jobs EXCEPT ![j].todo = Tail(@)]
  PROVE  /\ jobs' \in Seq(Job) /\ Len(jobs') = Len(jobs) /\ DOMAIN jobs' = DOMAIN jobs
         /\ \A k \in DOMAIN jobs : /\ jobs'[k].kind = jobs[k].kind /\ jobs'[k].filter = jobs[k].filter
                                   /\ k # j => jobs'[k] = jobs[k]
         /\ jobs'[j].todo = Tail(jobs[j].todo)
         /\ Head(jobs[j].todo) = jobs[j].todo[1] /\ Head(jobs[j].todo) \in Sent /\ 1 \in DOMAIN jobs[j].todo
         /\ \A q \in DOMAIN jobs'[j].todo : q + 1 \in DOMAIN jobs[j].todo /\ jobs'[j].todo[q] = jobs[j].todo[q + 1]
         /\ \A q \in DOMAIN jobs[j].todo : q # 1 => q - 1 \in DOMAIN jobs'[j].todo
<1>1. jobs[j] \in Job
  OBVIOUS
<1>2. jobs[j].todo \in Seq(Sent)
  BY <1>1 DEF Job
<1>3. /\ Tail(jobs[j].todo) \in Seq(Sent) /\ Len(Tail(jobs[j].todo)) = Len(jobs[j].todo) - 1
      /\ Head(jobs[j].todo) = jobs[j].todo[1] /\ 1 \in 1 .. Len(jobs[j].todo)
      /\ \A i \in 1 .. Len(jobs[j].todo) - 1 : Tail(jobs[j].todo)[i] = jobs[j].todo[i + 1]
  BY <1>2, TailIs
<1> DEFINE rest == [jobs[j] EXCEPT !.todo = Tail(jobs[j].todo)]
<1>4. rest \in Job /\ rest.todo = Tail(jobs[j].todo) /\ rest.kind = jobs[j].kind /\ rest.filter = jobs[j].filter
  BY <1>1, <1>3 DEF Job
<1>5. jobs' = [jobs EXCEPT ![j] = rest]
  OBVIOUS
<1> HIDE DEF rest
<1>6. /\ jobs' \in Seq(Job) /\ Len(jobs') = Len(jobs) /\ DOMAIN jobs' = DOMAIN jobs
      /\ \A k \in DOMAIN jobs : jobs'[k] = IF k = j THEN rest ELSE jobs[k]
  <2>1. jobs \in [1 .. Len(jobs) -> Job] /\ Len(jobs) \in Nat
    OBVIOUS
  <2>2. jobs' \in [1 .. Len(jobs) -> Job] /\ \A k \in DOMAIN jobs : jobs'[k] = IF k = j THEN rest ELSE jobs[k]
    BY <1>4, <1>5, <2>1
  <2>3. jobs' \in Seq(Job) /\ Len(jobs') = Len(jobs)
    BY <2>1, <2>2
  <2> QED BY <2>1, <2>2, <2>3
<1>8. jobs'[j].todo = Tail(jobs[j].todo)
  BY <1>4, <1>6
<1>7. DOMAIN jobs[j].todo = 1 .. Len(jobs[j].todo) /\ DOMAIN jobs'[j].todo = 1 .. Len(jobs[j].todo) - 1
  <2>1. DOMAIN jobs[j].todo = 1 .. Len(jobs[j].todo) /\ Len(jobs[j].todo) \in Nat
    BY <1>2
  <2>2. DOMAIN Tail(jobs[j].todo) = 1 .. Len(Tail(jobs[j].todo))
    BY <1>3
  <2> QED BY <1>3, <1>8, <2>1, <2>2
<1>9. Head(jobs[j].todo) \in Sent
  BY <1>2, <1>3
<1>10. \A q \in DOMAIN jobs'[j].todo : q + 1 \in DOMAIN jobs[j].todo /\ jobs'[j].todo[q] = jobs[j].todo[q + 1]
  <2> HIDE DEF rest
  <2>1. Len(jobs[j].todo) \in Nat
    BY <1>2
  <2>2. SUFFICES ASSUME NEW q \in 1 .. Len(jobs[j].todo) - 1
                 PROVE  q + 1 \in 1 .. Len(jobs[j].todo) /\ Tail(jobs[j].todo)[q] = jobs[j].todo[q + 1]
    BY <1>7, <1>8
  <2> QED BY <1>3, <2>1
<1>11. \A q \in DOMAIN jobs[j].todo : q # 1 => q - 1 \in DOMAIN jobs'[j].todo
  <2>1. Len(jobs[j].todo) \in Nat
    BY <1>2
  <2> QED BY <1>7, <2>1
<1> QED BY <1>3, <1>4, <1>6, <1>7, <1>8, <1>9, <1>10, <1>11

\* A job or a request for rows ends.
LEMMA LeftIs ==
  ASSUME NEW S, NEW s \in Seq(S), NEW i \in DOMAIN s
  PROVE  /\ RemoveAt(s, i) \in Seq(S) /\ Len(RemoveAt(s, i)) = Len(s) - 1
         /\ DOMAIN RemoveAt(s, i) = 1 .. Len(s) - 1
         /\ \A k \in DOMAIN RemoveAt(s, i) : \E n \in DOMAIN s : RemoveAt(s, i)[k] = s[n]
         /\ \A k \in 1 .. Len(s) - 1 : RemoveAt(s, i)[k] = s[IF k < i THEN k ELSE k + 1]
<1>1. i \in 1 .. Len(s) /\ DOMAIN s = 1 .. Len(s) /\ Len(s) \in Nat
  OBVIOUS
<1>2. /\ RemoveAt(s, i) \in Seq(S) /\ Len(RemoveAt(s, i)) = Len(s) - 1
      /\ \A k \in 1 .. Len(s) - 1 : RemoveAt(s, i)[k] = s[IF k < i THEN k ELSE k + 1]
  BY <1>1, RemovedIs
<1>3. \A k \in 1 .. Len(s) - 1 : (IF k < i THEN k ELSE k + 1) \in DOMAIN s
  BY <1>1
<1> QED BY <1>2, <1>3

---------------------------------------------------------------------------
(* Types are kept. *)

LEMMA FinishIs ==
  ASSUME GridTypes, NEW j \in DOMAIN jobs, Finish(j)
  PROVE  /\ jobs' = RemoveAt(jobs, j) /\ jobs[j] \in Job /\ jobs[j].todo = <<>>
         /\ IF jobs[j].kind = "save" THEN edits' = <<>> /\ drafts' = <<>> ELSE UNCHANGED <<edits, drafts>>
         /\ fetches' \in Seq(Listing) /\ Len(fetches') = Len(fetches) + 1
         /\ \A k \in 1 .. Len(fetches) : fetches'[k] = fetches[k]
         /\ LET last == fetches'[Len(fetches) + 1] IN last.filter = jobs[j].filter /\ last.rows = Unread /\ last.fresh
         /\ rough' \in Roughness /\ rough'.jobs = rough.jobs /\ rough'.answers = rough.answers
         /\ UNCHANGED <<db, rows, filter, shown, staged, count, made>>
<1> DEFINE ends == jobs[j].kind # "sheet"
<1>1. jobs[j] \in Job /\ jobs # <<>>
  BY DEF GridTypes
<1>2. ends \in BOOLEAN /\ Fetch(jobs[j].filter, ends, rough)
  BY DEF Finish
<1> HIDE DEF ends
<1>3. jobs[j].filter \in Cell
  BY <1>1 DEF Job
<1>4. /\ fetches' \in Seq(Listing) /\ Len(fetches') = Len(fetches) + 1
      /\ \A k \in 1 .. Len(fetches) : fetches'[k] = fetches[k]
      /\ LET last == fetches'[Len(fetches) + 1] IN last.filter = jobs[j].filter /\ last.rows = Unread /\ last.fresh
      /\ rough' \in Roughness /\ rough'.jobs = rough.jobs
      /\ rough'.answers <=> rough.answers /\ (fetches # <<>> \/ jobs # <<>>)
  BY <1>2, <1>3, FetchIs DEF GridTypes
<1>5. rough'.answers = rough.answers
  <2>1. rough'.answers \in BOOLEAN /\ rough.answers \in BOOLEAN
    BY <1>4 DEF GridTypes, Roughness
  <2> QED BY <1>1, <1>4, <2>1
<1> QED BY <1>1, <1>4, <1>5 DEF Finish, grid

LEMMA ArriveIs ==
  ASSUME GridTypes, NEW k \in DOMAIN fetches, Arrive(k)
  PROVE  /\ fetches[k] \in Listing /\ fetches[k].rows # Unread /\ rows' = fetches[k].rows /\ fetches' = RemoveAt(fetches, k)
         /\ shown' \in [filter : Cell, unseen : BOOLEAN] /\ shown'.filter = fetches[k].filter
         /\ shown'.unseen => shown.unseen /\ ~fetches[k].fresh
         /\ rough' \in Roughness /\ rough'.jobs = rough.jobs /\ (rough'.answers <=> rough.answers \/ k > 1)
         /\ UNCHANGED <<db, filter, edits, drafts, staged, jobs, count, made>>
<1> DEFINE still == rough.answers \/ k > 1
           missing == shown.unseen /\ ~fetches[k].fresh
<1>1. fetches[k] \in Listing
  BY DEF GridTypes
<1>2. rough' = [rough EXCEPT !.answers = still] /\ still \in BOOLEAN
  BY DEF Arrive
<1>3. shown' = [filter |-> fetches[k].filter, unseen |-> missing] /\ missing \in BOOLEAN
  BY DEF Arrive
<1>4. rough' \in Roughness /\ rough'.jobs = rough.jobs /\ (rough'.answers <=> still)
  <2> HIDE DEF still
  <2> QED BY <1>2 DEF Roughness, GridTypes
<1>5. shown' \in [filter : Cell, unseen : BOOLEAN] /\ shown'.filter = fetches[k].filter /\ (shown'.unseen => missing)
  <2> HIDE DEF missing
  <2> QED BY <1>1, <1>3 DEF Listing
<1> QED BY <1>1, <1>4, <1>5 DEF Arrive, stage

LEMMA ReadIs ==
  ASSUME GridTypes, NEW k \in DOMAIN fetches, Read(k)
  PROVE  /\ fetches' \in Seq(Listing) /\ Len(fetches') = Len(fetches)
         /\ \A n \in DOMAIN fetches :
              /\ fetches'[n].filter = fetches[n].filter /\ fetches'[n].fresh = fetches[n].fresh
              /\ n # k => fetches'[n] = fetches[n]
         /\ fetches'[k].rows \subseteq db
         /\ UNCHANGED <<db, rows, filter, shown, edits, drafts, staged, jobs, count, made, rough>>
<1> DEFINE list == handleListRows(fetches[k].filter)
           read == [fetches[k] EXCEPT !.rows = list]
<1>1. fetches[k] \in Listing /\ fetches \in [1 .. Len(fetches) -> Listing] /\ Len(fetches) \in Nat
  BY DEF GridTypes
<1>2. list \subseteq db
  BY DEF handleListRows
<1>3. list \in SUBSET Row
  BY <1>2 DEF GridTypes
<1>4. read \in Listing /\ read.rows = list /\ read.filter = fetches[k].filter /\ read.fresh = fetches[k].fresh
  <2> HIDE DEF list
  <2> QED BY <1>1, <1>3 DEF Listing
<1>5. fetches' = [fetches EXCEPT ![k] = read]
  BY <1>1 DEF Read
<1> HIDE DEF read, list
<1>6. /\ fetches' \in [1 .. Len(fetches) -> Listing]
      /\ \A n \in DOMAIN fetches : fetches'[n] = IF n = k THEN read ELSE fetches[n]
  BY <1>1, <1>4, <1>5
<1>7. fetches' \in Seq(Listing) /\ Len(fetches') = Len(fetches)
  BY <1>1, <1>6
<1>8. UNCHANGED <<db, rows, filter, shown, edits, drafts, staged, jobs, count, made, rough>>
  BY DEF Read, grid, stage
<1> QED BY <1>2, <1>4, <1>6, <1>7, <1>8

\* A request of a job reached the database, whether or not it was answered.
LEMMA WrittenTypes ==
  ASSUME GridTypes, NEW r \in Sent, Reaches(r), count' \in Counts, jobs' \in Seq(Job), rough' \in Roughness,
         UNCHANGED <<rows, filter, edits, drafts>>
  PROVE  GridTypes'
<1>1. /\ db' \in SUBSET Row /\ fetches' \in Seq(Listing) /\ shown' \in [filter : Cell, unseen : BOOLEAN]
      /\ made' \in [drafts : SUBSET Nat, again : SUBSET Nat]
  BY ReachesIs
<1> QED BY <1>1 DEF GridTypes

LEMMA HeadSent ==
  ASSUME GridTypes, NEW j \in DOMAIN jobs, jobs[j].todo # <<>>
  PROVE  Head(jobs[j].todo) \in Sent /\ Head(jobs[j].todo) = jobs[j].todo[1] /\ 1 \in DOMAIN jobs[j].todo
<1>1. jobs[j] \in Job
  BY DEF GridTypes
<1>2. jobs[j].todo \in Seq(Sent)
  BY <1>1 DEF Job
<1> QED BY <1>2

LEMMA CountsOn ==
  ASSUME count \in Counts, NEW j, Send(j)
  PROVE  count' \in Counts /\ count'.next = count.next + NewKeys(Head(jobs[j].todo)) /\ NewKeys(Head(jobs[j].todo)) \in {0, 1}
<1> DEFINE keys == NewKeys(Head(jobs[j].todo))
<1>1. keys \in {0, 1} /\ count' = [count EXCEPT !.next = @ + keys]
  BY DEF Send, NewKeys
<1> HIDE DEF keys
<1>2. count' \in Counts /\ count'.next = count.next + keys
  BY <1>1 DEF Counts
<1> QED BY <1>1, <1>2 DEF keys

LEMMA TypesKept == ASSUME GridTypes, DistinctKeys, Next PROVE GridTypes'
<1> USE DEF GridTypes
<1>1. CASE TypeCell
  <2>1. PICK row \in rows, col \in Columns :
          /\ Gesture(IF col = "id" THEN 1 ELSE 0)
          /\ \E value \in IF col = "id" THEN {count.next} ELSE Values : setCellEdit(row, col, value)
    BY <1>1 DEF TypeCell
  <2>2. PICK value \in IF col = "id" THEN {count.next} ELSE Values : setCellEdit(row, col, value)
    BY <2>1
  <2>3. IF col = "id" THEN value \in Nat ELSE value \in Cell
    BY <2>2 DEF Counts, Cell
  <2>4. rowKeyFor(rows, row) \in Key
    BY KeyIs
  <2>5. edits' \in Seq(Edit)
    <3>1. PICK data \in Data : edits' = StageRow(rowKeyFor(rows, row), data)
      BY <2>2, <2>3, CellIs
    <3> QED BY <2>4, <3>1, StageRowIs
  <2>6. count' \in Counts
    BY <2>1, GestureIs
  <2> QED BY <1>1, <2>5, <2>6 DEF TypeCell, grid
<1>2. CASE Draft
  <2>1. count.next \in Nat /\ drafts' = Append(drafts, count.next)
    BY <1>2 DEF Draft, Counts
  <2>2. count' \in Counts
    BY <1>2, GestureIs DEF Draft
  <2>3. drafts' \in Seq(Nat)
    BY <2>1, AppendIs
  <2> QED BY <1>2, <2>2, <2>3 DEF Draft, grid
<1>3. CASE Discard
  <2>1. count' \in Counts
    BY <1>3, GestureIs DEF Discard
  <2> QED BY <1>3, <2>1 DEF Discard, grid
<1>4. CASE saveAll
  <2>1. count' \in Counts
    BY <1>4, GestureIs DEF saveAll
  <2>2. Saved \in Seq(Sent) /\ Start("save", Saved)
    BY <1>4, SavedIs DEF saveAll, Saved
  <2>3. jobs' \in Seq(Job) /\ rough' \in Roughness /\ UNCHANGED <<db, rows, filter, shown, fetches, edits, drafts, staged, made>>
    BY <2>2, StartIs
  <2> QED BY <2>1, <2>3
<1>5. CASE deleteRows
  <2>1. count' \in Counts
    BY <1>5, GestureIs DEF deleteRows
  <2>2. PICK n \in 1 .. Cardinality(rows) :
          \E picked \in Injection(1 .. n, rows) : Start("delete", [i \in 1 .. n |-> Request("delete", uniqueWhereFor(picked[i]), NoData, 0)])
    BY <1>5 DEF deleteRows
  <2>3. PICK picked \in Injection(1 .. n, rows) : Start("delete", [i \in 1 .. n |-> Request("delete", uniqueWhereFor(picked[i]), NoData, 0)])
    BY <2>2
  <2> DEFINE list == [i \in 1 .. n |-> Request("delete", uniqueWhereFor(picked[i]), NoData, 0)]
  <2>4. n \in Nat
    OBVIOUS
  <2>5. ASSUME NEW i \in 1 .. n PROVE Request("delete", uniqueWhereFor(picked[i]), NoData, 0) \in Sent
    <3>1. picked[i] \in Row
      BY DEF Injection
    <3> QED BY <3>1, NoDataIs DEF Request, Sent, uniqueWhereFor, Row
  <2>6. list \in Seq(Sent)
    BY <2>4, <2>5
  <2> HIDE DEF list
  <2>7. Start("delete", list)
    BY <2>3 DEF list
  <2>8. jobs' \in Seq(Job) /\ rough' \in Roughness /\ UNCHANGED <<db, rows, filter, shown, fetches, edits, drafts, staged, made>>
    BY <2>6, <2>7, StartIs
  <2> QED BY <2>1, <2>8
<1>6. CASE saveCell
  <2>1. count' \in Counts
    BY <1>6, GestureIs DEF saveCell
  <2>2. PICK row \in rows : \E v \in Values \ {row.val} :
          LET where == uniqueWhereFor(Merge(row, DataOf(rowKeyFor(rows, row))))
          IN where # Null /\ Start("sheet", <<Update(where, With(NoData, "val", v))>>)
    BY <1>6 DEF saveCell
  <2> DEFINE where == uniqueWhereFor(Merge(row, DataOf(rowKeyFor(rows, row))))
  <2>3. PICK v \in Values \ {row.val} : Start("sheet", <<Update(where, With(NoData, "val", v))>>)
    BY <2>2
  <2>4. where \in Nat \cup {Null}
    <3>1. Merge(row, DataOf(rowKeyFor(rows, row))) \in Row
      BY MergeIs, DataOfIs
    <3> QED BY <3>1 DEF uniqueWhereFor, Row
  <2> HIDE DEF where
  <2>5. Update(where, With(NoData, "val", v)) \in Sent
    <3>1. With(NoData, "val", v) \in Data
      BY NoDataIs, WithIs DEF Columns, Cell
    <3> QED BY <2>4, <3>1 DEF Update, Request, Sent
  <2>6. <<Update(where, With(NoData, "val", v))>> \in Seq(Sent)
    BY <2>5
  <2>7. jobs' \in Seq(Job) /\ rough' \in Roughness /\ UNCHANGED <<db, rows, filter, shown, fetches, edits, drafts, staged, made>>
    BY <2>3, <2>6, StartIs
  <2> QED BY <2>1, <2>7
<1>7. CASE ChangeFilter
  <2>1. count' \in Counts
    BY <1>7, GestureIs DEF ChangeFilter
  <2> DEFINE over == rough.answers \/ jobs # <<>>
             after == [rough EXCEPT !.answers = over]
  <2>2. PICK f \in IF filter = Null THEN Values ELSE {Null} : filter' = f /\ Fetch(f, FALSE, after)
    BY <1>7 DEF ChangeFilter
  <2>3. over \in BOOLEAN
    OBVIOUS
  <2>4. after \in Roughness
    <3> HIDE DEF over
    <3> QED BY <2>3 DEF Roughness
  <2>5. f \in Cell
    BY DEF Cell
  <2> HIDE DEF after
  <2>6. fetches' \in Seq(Listing) /\ rough' \in Roughness
    BY <2>2, <2>4, <2>5, FetchIs
  <2> QED BY <1>7, <2>1, <2>2, <2>5, <2>6 DEF ChangeFilter, stage
<1>8. CASE Refresh
  <2>1. count' \in Counts
    BY <1>8, GestureIs DEF Refresh
  <2>2. fetches' \in Seq(Listing) /\ rough' \in Roughness
    BY <1>8, FetchIs DEF Refresh
  <2> QED BY <1>8, <2>1, <2>2 DEF Refresh, grid, stage
<1>9. ASSUME NEW j \in DOMAIN jobs, Send(j) PROVE GridTypes'
  <2> DEFINE r == Head(jobs[j].todo)
  <2>1. r \in Sent /\ Reaches(r) /\ jobs' \in Seq(Job) /\ UNCHANGED <<rows, filter, edits, drafts, rough>>
    BY <1>9, HeadSent, SentIs DEF Send
  <2>3. count' \in Counts
    BY <1>9, CountsOn
  <2> QED BY <2>1, <2>3, WrittenTypes
<1>10. ASSUME NEW j \in DOMAIN jobs, Refused(j) PROVE GridTypes'
  <2>1. jobs' \in Seq(Job) /\ rough' \in Roughness
    BY <1>10, StopsIs DEF Refused
  <2>2. count' \in Counts
    BY <1>10, OutsideIs DEF Refused
  <2> QED BY <1>10, <2>1, <2>2 DEF Refused, grid, stage
<1>11. ASSUME NEW j \in DOMAIN jobs, AnswerLost(j) PROVE GridTypes'
  <2> DEFINE r == Head(jobs[j].todo)
  <2>1. r \in Sent /\ Reaches(r) /\ jobs' \in Seq(Job) /\ rough' \in Roughness /\ UNCHANGED <<rows, filter, edits, drafts>>
    BY <1>11, HeadSent, StopsIs DEF AnswerLost
  <2>2. NewKeys(r) \in Nat /\ Outside("fault", NewKeys(r))
    BY <1>11 DEF AnswerLost, NewKeys
  <2>3. count' \in Counts
    BY <2>2, OutsideIs
  <2> QED BY <2>1, <2>3, WrittenTypes
<1>12. ASSUME NEW j \in DOMAIN jobs, Finish(j) PROVE GridTypes'
  <2>1. jobs' \in Seq(Job)
    BY <1>12, FinishIs, LeftIs
  <2>2. edits' \in Seq(Edit) /\ drafts' \in Seq(Nat)
    <3>1. edits' \in {<<>>, edits} /\ drafts' \in {<<>>, drafts}
      BY <1>12, FinishIs
    <3>2. <<>> \in Seq(Edit) /\ <<>> \in Seq(Nat)
      OBVIOUS
    <3> QED BY <3>1, <3>2
  <2>3. /\ fetches' \in Seq(Listing) /\ rough' \in Roughness
        /\ UNCHANGED <<db, rows, filter, shown, count, made>>
    BY <1>12, FinishIs
  <2> QED BY <2>1, <2>2, <2>3
<1>13. ASSUME NEW k \in DOMAIN fetches, Read(k) PROVE GridTypes'
  BY <1>13, ReadIs
<1>14. ASSUME NEW k \in DOMAIN fetches, Arrive(k) PROVE GridTypes'
  <2>1. fetches' \in Seq(Listing) /\ rows' \in SUBSET Row
    <3>1. fetches[k] \in Listing /\ fetches[k].rows # Unread /\ rows' = fetches[k].rows /\ fetches' = RemoveAt(fetches, k)
      BY <1>14, ArriveIs
    <3> QED BY <3>1, LeftIs DEF Listing
  <2> QED BY <1>14, <2>1, ArriveIs
<1>15. ASSUME NEW k \in DOMAIN fetches, FetchFails(k) PROVE GridTypes'
  <2>1. fetches' \in Seq(Listing)
    BY <1>15, LeftIs DEF FetchFails
  <2>2. rough' \in Roughness
    BY <1>15 DEF FetchFails, Roughness
  <2>3. count' \in Counts
    BY <1>15, OutsideIs DEF FetchFails
  <2> QED BY <1>15, <2>1, <2>2, <2>3 DEF FetchFails, grid, stage
<1>16. CASE Others
  <2>1. count' \in Counts
    BY <1>16, OutsideIs DEF Others
  <2>2. db' \in SUBSET Row
    <3>1. PICK row \in db : \/ db' = db \ {row}
                           \/ \E v \in Values \ {row.val} : db' = (db \ {row}) \cup {[row EXCEPT !.val = v]}
      BY <1>16 DEF Others
    <3>2. \A v \in Values : [row EXCEPT !.val = v] \in Row
      BY DEF Row, Cell
    <3> QED BY <3>1, <3>2
  <2> QED BY <1>16, <2>1, <2>2 DEF Others, grid, stage
<1>17. CASE Finished
  BY <1>17 DEF Finished, vars, grid, stage
<1> QED BY <1>1, <1>2, <1>3, <1>4, <1>5, <1>6, <1>7, <1>8, <1>9, <1>10, <1>11, <1>12, <1>13, <1>14, <1>15, <1>16, <1>17 DEF Next

---------------------------------------------------------------------------
(* Keys belong to rows. *)

\* Every key has belonged to one row only: own says to which.
OwnsRow(own, n, row) == row.oid < n /\ (row.id # Null => row.id < n /\ own[row.id] = row.oid)
OwnsData(own, n, id, data) ==
  /\ id # Null => id < n
  /\ "id" \in DOMAIN data => data["id"] < n /\ (id # Null => own[data["id"]] = own[id])
OwnsCell(own, n, s) == s.col # "new" => s.id \in Nat /\ s.id < n /\ own[s.id] = s.oid

Owners(own) ==
  /\ \A row \in db \cup rows : OwnsRow(own, count.next, row)
  /\ \A k \in DOMAIN fetches : fetches[k].rows # Unread => \A row \in fetches[k].rows : OwnsRow(own, count.next, row)
  /\ \A i \in DOMAIN edits : OwnsData(own, count.next, edits[i].key.id, edits[i].data)
  /\ \A j \in DOMAIN jobs : \A q \in DOMAIN jobs[j].todo :
       OwnsData(own, count.next, jobs[j].todo[q].where, jobs[j].todo[q].data)
  /\ \A s \in staged : OwnsCell(own, count.next, s)

LEMMA OwnedOn ==
  ASSUME NEW own \in [Nat -> Nat], NEW more \in [Nat -> Nat], NEW n \in Nat, NEW m \in Nat, n <= m,
         \A x \in Nat : x < n => more[x] = own[x]
  PROVE  /\ \A row \in Row : OwnsRow(own, n, row) => OwnsRow(more, m, row)
         /\ \A data \in Data, id \in Nat \cup {Null} : OwnsData(own, n, id, data) => OwnsData(more, m, id, data)
         /\ \A s : OwnsCell(own, n, s) => OwnsCell(more, m, s)
<1>1. ASSUME NEW row \in Row, OwnsRow(own, n, row) PROVE OwnsRow(more, m, row)
  BY <1>1 DEF OwnsRow, Row
<1>2. ASSUME NEW data \in Data, NEW id \in Nat \cup {Null}, OwnsData(own, n, id, data) PROVE OwnsData(more, m, id, data)
  <2>1. "id" \in DOMAIN data => data["id"] \in Nat
    BY DataIs
  <2> QED BY <1>2, <2>1 DEF OwnsData
<1>3. ASSUME NEW s, OwnsCell(own, n, s) PROVE OwnsCell(more, m, s)
  BY <1>3 DEF OwnsCell
<1> QED BY <1>1, <1>2, <1>3

LEMMA SentRequests == ASSUME GridTypes, NEW j \in DOMAIN jobs, NEW q \in DOMAIN jobs[j].todo
                      PROVE  jobs[j].todo[q] \in Sent /\ jobs[j].todo[q].data \in Data /\ jobs[j].todo[q].where \in Nat \cup {Null}
<1>1. jobs[j] \in Job
  BY DEF GridTypes
<1>2. jobs[j].todo \in Seq(Sent)
  BY <1>1 DEF Job
<1>3. jobs[j].todo[q] \in Sent
  BY <1>2
<1> QED BY <1>3 DEF Sent

LEMMA OwnersOn ==
  ASSUME GridTypes, GridTypes', NEW own \in [Nat -> Nat], Owners(own), NEW more \in [Nat -> Nat], count.next <= count'.next,
         \A x \in Nat : x < count.next => more[x] = own[x],
         \A row \in db' : row \in db \/ OwnsRow(more, count'.next, row),
         \A row \in rows' : row \in rows \/ \E k \in DOMAIN fetches : fetches[k].rows # Unread /\ row \in fetches[k].rows,
         \A k \in DOMAIN fetches' : \/ fetches'[k].rows = Unread \/ fetches'[k].rows \subseteq db
                                    \/ \E n \in DOMAIN fetches : fetches'[k].rows = fetches[n].rows,
         \A i \in DOMAIN edits' : \/ \E k \in DOMAIN edits : edits'[i] = edits[k]
                                  \/ OwnsData(more, count'.next, edits'[i].key.id, edits'[i].data),
         \A j \in DOMAIN jobs' : \A q \in DOMAIN jobs'[j].todo :
           \/ \E i \in DOMAIN jobs : \E p \in DOMAIN jobs[i].todo : jobs'[j].todo[q] = jobs[i].todo[p]
           \/ OwnsData(more, count'.next, jobs'[j].todo[q].where, jobs'[j].todo[q].data),
         \A s \in staged' : s \in staged \/ OwnsCell(more, count'.next, s)
  PROVE  Owners(more)'
<1>1. count.next \in Nat /\ count'.next \in Nat
  BY DEF GridTypes, Counts
<1>2. /\ \A row \in Row : OwnsRow(own, count.next, row) => OwnsRow(more, count'.next, row)
      /\ \A data \in Data, id \in Nat \cup {Null} : OwnsData(own, count.next, id, data) => OwnsData(more, count'.next, id, data)
      /\ \A s : OwnsCell(own, count.next, s) => OwnsCell(more, count'.next, s)
  BY <1>1, OwnedOn
<1>3. ASSUME NEW row \in db' \cup rows' PROVE OwnsRow(more, count'.next, row)
  <2>1. row \in Row
    BY DEF GridTypes
  <2>2. CASE OwnsRow(own, count.next, row)
    BY <1>2, <2>1, <2>2
  <2>3. CASE ~OwnsRow(own, count.next, row)
    BY <1>3, <2>3 DEF Owners
  <2> QED BY <2>2, <2>3
<1>4. ASSUME NEW k \in DOMAIN fetches', fetches'[k].rows # Unread, NEW row \in fetches'[k].rows
      PROVE  OwnsRow(more, count'.next, row)
  <2>1. fetches'[k] \in Listing
    BY DEF GridTypes
  <2>2. row \in Row
    BY <1>4, <2>1 DEF Listing
  <2>3. OwnsRow(own, count.next, row)
    BY <1>4 DEF Owners
  <2> QED BY <1>2, <2>2, <2>3
<1>5. ASSUME NEW i \in DOMAIN edits' PROVE OwnsData(more, count'.next, edits'[i].key.id, edits'[i].data)
  <2>1. edits'[i] \in Edit
    BY DEF GridTypes
  <2>2. edits'[i].key.id \in Nat \cup {Null} /\ edits'[i].data \in Data
    BY <2>1, KeyIdIs DEF Edit
  <2>3. CASE \E k \in DOMAIN edits : edits'[i] = edits[k]
    BY <1>2, <2>2, <2>3 DEF Owners
  <2> QED BY <2>3
<1>6. ASSUME NEW j \in DOMAIN jobs', NEW q \in DOMAIN jobs'[j].todo
      PROVE  OwnsData(more, count'.next, jobs'[j].todo[q].where, jobs'[j].todo[q].data)
  <2>1. CASE \E i \in DOMAIN jobs : \E p \in DOMAIN jobs[i].todo : jobs'[j].todo[q] = jobs[i].todo[p]
    <3>1. PICK i \in DOMAIN jobs : \E p \in DOMAIN jobs[i].todo : jobs'[j].todo[q] = jobs[i].todo[p]
      BY <2>1
    <3>2. PICK p \in DOMAIN jobs[i].todo : jobs'[j].todo[q] = jobs[i].todo[p]
      BY <3>1
    <3>3. jobs[i].todo[p].data \in Data /\ jobs[i].todo[p].where \in Nat \cup {Null}
      BY SentRequests
    <3> QED BY <1>2, <3>2, <3>3 DEF Owners
  <2> QED BY <2>1
<1>7. ASSUME NEW s \in staged' PROVE OwnsCell(more, count'.next, s)
  BY <1>2 DEF Owners
<1> QED BY <1>3, <1>4, <1>5, <1>6, <1>7 DEF Owners

\* The keys of a request that is written are those of its own row.
LEMMA WrittenOwned ==
  ASSUME WellFormed, GridTypes, GridTypes', NEW own \in [Nat -> Nat], Owners(own),
         NEW j \in DOMAIN jobs, jobs[j].todo # <<>>, Reaches(Head(jobs[j].todo)),
         count'.next = count.next + NewKeys(Head(jobs[j].todo)),
         UNCHANGED <<rows, edits>>,
         \A i \in DOMAIN jobs' : \A q \in DOMAIN jobs'[i].todo :
           \E n \in DOMAIN jobs : \E p \in DOMAIN jobs[n].todo : jobs'[i].todo[q] = jobs[n].todo[p]
  PROVE  \E more \in [Nat -> Nat] : Owners(more)'
<1> DEFINE r == Head(jobs[j].todo)
<1>1. count.next \in Nat /\ count'.next \in Nat
  BY DEF GridTypes, Counts
<1>2. r \in Sent /\ r = jobs[j].todo[1] /\ 1 \in DOMAIN jobs[j].todo
  BY HeadSent
<1>3. OwnsData(own, count.next, r.where, r.data) /\ r.data \in Data /\ r.where \in Nat \cup {Null}
  BY <1>2, SentRequests DEF Owners
<1>4. r.verb = "create" => count.next < count'.next
  BY <1>1 DEF NewKeys
<1>5. count.next <= count'.next
  BY <1>1 DEF NewKeys
<1> HIDE DEF r
<1>6. PICK more \in [Nat -> Nat] : more[count.next] = count.next /\ \A x \in Nat : x < count.next => more[x] = own[x]
  <2>1. /\ [own EXCEPT ![count.next] = count.next] \in [Nat -> Nat]
        /\ [own EXCEPT ![count.next] = count.next][count.next] = count.next
        /\ \A x \in Nat : x < count.next => [own EXCEPT ![count.next] = count.next][x] = own[x]
    BY <1>1
  <2> QED BY <2>1
<1>7. Reaches(r)
  BY DEF r
<1>8. ASSUME NEW row \in db' PROVE row \in db \/ OwnsRow(more, count'.next, row)
  <2>1. CASE r.verb = "create" /\ row.oid = count.next /\ row.id = count.next
    <3>1. count.next < count'.next
      BY <1>4, <2>1
    <3>2. row.oid < count'.next /\ row.id < count'.next /\ more[row.id] = row.oid
      BY <1>6, <2>1, <3>1
    <3> QED BY <3>2 DEF OwnsRow
  <2>2. CASE r.verb = "update" /\ \E old \in Named(r.where) : row = Merge(old, r.data)
    <3>1. PICK old \in Named(r.where) : row = Merge(old, r.data)
      BY <2>2
    <3>2. old \in db /\ old \in Row /\ old.id = r.where /\ r.where # Null
      BY <3>1, NamedIs DEF GridTypes
    <3>3. OwnsRow(own, count.next, old)
      BY <3>2 DEF Owners
    <3>4. row \in Row /\ row.oid = old.oid /\ row.id = IF "id" \in DOMAIN r.data THEN r.data["id"] ELSE old.id
      BY <1>3, <3>1, <3>2, MergeIs
    <3>5. OwnsRow(own, count.next, row)
      <4>1. CASE "id" \in DOMAIN r.data
        BY <1>3, <3>2, <3>3, <3>4, <4>1 DEF OwnsRow, OwnsData
      <4>2. CASE ~("id" \in DOMAIN r.data)
        BY <3>3, <3>4, <4>2 DEF OwnsRow
      <4> QED BY <4>1, <4>2
    <3> QED BY <1>1, <1>5, <1>6, <3>4, <3>5, OwnedOn
  <2> QED BY <1>2, <1>7, <2>1, <2>2, ReachesIs
<1>9. \A k \in DOMAIN fetches' : \E n \in DOMAIN fetches : fetches'[k].rows = fetches[n].rows
  <2>1. /\ fetches' \in Seq(Listing) /\ fetches \in Seq(Listing) /\ Len(fetches') = Len(fetches)
        /\ \A k \in DOMAIN fetches : fetches'[k].rows = fetches[k].rows
    BY <1>2, <1>7, ReachesIs DEF GridTypes
  <2>2. DOMAIN fetches' = DOMAIN fetches
    BY <2>1
  <2> QED BY <2>1, <2>2
<1>10. staged' \subseteq staged
  BY <1>7 DEF Reaches
<1>11. Owners(more)'
  BY <1>5, <1>6, <1>8, <1>9, <1>10, OwnersOn
<1> QED BY <1>6, <1>11

LEMMA OneMore ==
  \A n \in Nat : /\ n < n + 1 /\ n <= n + 1 /\ n + 0 = n /\ n <= n
                 /\ \A j \in 1 .. n + 1 : j \in 1 .. n \/ j = n + 1
OBVIOUS

LEMMA TypingOwned ==
  ASSUME WellFormed, GridTypes, GridTypes', DistinctKeys, NEW own \in [Nat -> Nat], Owners(own), TypeCell
  PROVE  \E more \in [Nat -> Nat] : Owners(more)'
<1>1. PICK row \in rows, col \in Columns :
        /\ Gesture(IF col = "id" THEN 1 ELSE 0)
        /\ \E value \in IF col = "id" THEN {count.next} ELSE Values : setCellEdit(row, col, value)
  BY DEF TypeCell
<1>2. PICK value \in IF col = "id" THEN {count.next} ELSE Values : setCellEdit(row, col, value)
  BY <1>1
<1>3. count.next \in Nat /\ count'.next \in Nat /\ count.next <= count'.next /\ (col = "id" => count.next < count'.next)
  <2>1. CASE col = "id"
    <3>1. count'.next = count.next + 1
      <4>1. Gesture(1)
        BY <1>1, <2>1
      <4>2. count \in Counts
        BY DEF GridTypes
      <4> QED BY <4>1, <4>2, GestureIs
    <3>2. count.next \in Nat /\ count'.next \in Nat
      BY DEF GridTypes, Counts
    <3> QED BY <3>1, <3>2, OneMore
  <2>2. CASE col # "id"
    <3>1. count'.next = count.next + 0
      <4>1. Gesture(0)
        BY <1>1, <2>2
      <4>2. count \in Counts
        BY DEF GridTypes
      <4> QED BY <4>1, <4>2, GestureIs
    <3>2. count.next \in Nat /\ count'.next \in Nat
      BY DEF GridTypes, Counts
    <3> QED BY <2>2, <3>1, <3>2, OneMore
  <2> QED BY <2>1, <2>2
<1>4. row \in Row /\ row.oid \in Nat /\ row.id \in Nat \cup {Null}
  BY DEF GridTypes, Row
<1>5. IF col = "id" THEN value \in Nat ELSE value \in Cell
  BY <1>2, <1>3 DEF Cell
<1> DEFINE key == rowKeyFor(rows, row)
<1>6. PICK data \in Data :
        /\ edits' = StageRow(key, data)
        /\ \A c \in DOMAIN DataOf(key) : c # col => c \in DOMAIN data /\ data[c] = DataOf(key)[c]
        /\ \A c \in DOMAIN data : c # col => c \in DOMAIN DataOf(key) /\ data[c] = DataOf(key)[c]
        /\ col \in DOMAIN data => data[col] = value
        /\ row.id = Null => staged' = staged
        /\ row.id # Null => \A s \in staged' :
             \/ s \in staged /\ (s.oid # row.oid \/ s.col # col)
             \/ jobs = <<>> /\ s = [oid |-> row.oid, id |-> row.id, col |-> col, value |-> value] /\ col \in DOMAIN data
  BY <1>2, <1>5, CellIs
<1>7. key \in Key /\ key.id = row.id
  BY <1>4, KeyIs DEF GridTypes
<1> HIDE DEF key
<1>8. PICK more \in [Nat -> Nat] : more[count.next] = row.oid /\ \A x \in Nat : x < count.next => more[x] = own[x]
  <2>1. /\ [own EXCEPT ![count.next] = row.oid] \in [Nat -> Nat]
        /\ [own EXCEPT ![count.next] = row.oid][count.next] = row.oid
        /\ \A x \in Nat : x < count.next => [own EXCEPT ![count.next] = row.oid][x] = own[x]
    BY <1>3, <1>4
  <2> QED BY <2>1
<1>9. OwnsRow(own, count.next, row)
  BY DEF Owners
<1>10. row.id # Null => row.id \in Nat /\ row.id < count.next /\ row.id < count'.next /\ own[row.id] = row.oid /\ more[row.id] = row.oid
  BY <1>3, <1>4, <1>8, <1>9 DEF OwnsRow
<1>11. OwnsData(more, count'.next, row.id, data)
  <2>1. ASSUME "id" \in DOMAIN data
        PROVE  data["id"] < count'.next /\ (row.id # Null => more[data["id"]] = more[row.id])
    <3>1. CASE col = "id"
      <4>1. data["id"] = count.next
        BY <1>2, <1>6, <2>1, <3>1
      <4> QED BY <1>3, <1>8, <1>10, <3>1, <4>1
    <3>2. CASE col # "id"
      <4>1. "id" \in DOMAIN DataOf(key) /\ data["id"] = DataOf(key)["id"]
        BY <1>6, <2>1, <3>2
      <4>2. IsStaged(key)
        BY <4>1, DataOfIs, NoDataIs DEF GridTypes
      <4>3. PlaceOf(key) \in DOMAIN edits /\ edits[PlaceOf(key)].key = key /\ DataOf(key) = edits[PlaceOf(key)].data
        BY <4>2, DataOfIs DEF GridTypes
      <4>4. OwnsData(own, count.next, row.id, DataOf(key))
        BY <1>7, <4>3 DEF Owners
      <4>5. data["id"] \in Nat
        BY <2>1, DataIs
      <4>6. data["id"] < count.next /\ (row.id # Null => own[data["id"]] = own[row.id])
        BY <4>1, <4>4 DEF OwnsData
      <4>7. more[data["id"]] = own[data["id"]]
        BY <1>8, <4>5, <4>6
      <4> QED BY <1>3, <1>10, <4>5, <4>6, <4>7
    <3> QED BY <3>1, <3>2
  <2> QED BY <1>10, <2>1 DEF OwnsData
<1>12. ASSUME NEW i \in DOMAIN edits'
       PROVE  (\E k \in DOMAIN edits : edits'[i] = edits[k]) \/ OwnsData(more, count'.next, edits'[i].key.id, edits'[i].data)
  <2>1. edits'[i] = [key |-> key, data |-> data] \/ \E k \in DOMAIN edits : edits'[i] = edits[k]
    <3>1. \A k \in DOMAIN StageRow(key, data) :
            StageRow(key, data)[k] = [key |-> key, data |-> data] \/ \E n \in DOMAIN edits : StageRow(key, data)[k] = edits[n]
      BY <1>7, StageRowIs DEF GridTypes
    <3> QED BY <1>6, <3>1
  <2> QED BY <1>7, <1>11, <2>1
<1>13. ASSUME NEW s \in staged' PROVE s \in staged \/ OwnsCell(more, count'.next, s)
  <2>1. CASE row.id # Null /\ s = [oid |-> row.oid, id |-> row.id, col |-> col, value |-> value]
    BY <1>10, <2>1 DEF OwnsCell
  <2> QED BY <1>6, <2>1
<1>14. UNCHANGED <<db, rows, fetches, jobs>>
  BY DEF TypeCell, grid
<1>15. Owners(more)'
  BY <1>3, <1>8, <1>12, <1>13, <1>14, OwnersOn
<1> QED BY <1>15

\* A step that adds no keys and shows, stages and asks with no others.
LEMMA SameOwned ==
  ASSUME GridTypes, GridTypes', NEW own \in [Nat -> Nat], Owners(own), count.next <= count'.next,
         db' = db \/ \A row \in db' : row \in db \/ OwnsRow(own, count.next, row),
         \A row \in rows' : row \in rows \/ \E k \in DOMAIN fetches : fetches[k].rows # Unread /\ row \in fetches[k].rows,
         \A k \in DOMAIN fetches' : \/ fetches'[k].rows = Unread \/ fetches'[k].rows \subseteq db
                                    \/ \E n \in DOMAIN fetches : fetches'[k].rows = fetches[n].rows,
         \A i \in DOMAIN edits' : \E k \in DOMAIN edits : edits'[i] = edits[k],
         \A j \in DOMAIN jobs' : \A q \in DOMAIN jobs'[j].todo :
           \/ \E i \in DOMAIN jobs : \E p \in DOMAIN jobs[i].todo : jobs'[j].todo[q] = jobs[i].todo[p]
           \/ OwnsData(own, count.next, jobs'[j].todo[q].where, jobs'[j].todo[q].data),
         \A s \in staged' : s \in staged \/ s.col = "new"
  PROVE  Owners(own)'
<1>1. count.next \in Nat /\ count'.next \in Nat
  BY DEF GridTypes, Counts
<1>2. /\ \A row \in Row : OwnsRow(own, count.next, row) => OwnsRow(own, count'.next, row)
      /\ \A data \in Data, id \in Nat \cup {Null} : OwnsData(own, count.next, id, data) => OwnsData(own, count'.next, id, data)
  BY <1>1, OwnedOn
<1>3. \A row \in db' : row \in db \/ OwnsRow(own, count'.next, row)
  <2>1. \A row \in db' : row \in Row
    BY DEF GridTypes
  <2> QED BY <1>2, <2>1
<1>4. ASSUME NEW j \in DOMAIN jobs', NEW q \in DOMAIN jobs'[j].todo
      PROVE  \/ \E i \in DOMAIN jobs : \E p \in DOMAIN jobs[i].todo : jobs'[j].todo[q] = jobs[i].todo[p]
             \/ OwnsData(own, count'.next, jobs'[j].todo[q].where, jobs'[j].todo[q].data)
  <2>1. jobs'[j].todo[q].data \in Data /\ jobs'[j].todo[q].where \in Nat \cup {Null}
    <3>1. jobs'[j] \in Job
      BY DEF GridTypes
    <3>2. jobs'[j].todo \in Seq(Sent)
      BY <3>1 DEF Job
    <3>3. jobs'[j].todo[q] \in Sent
      BY <3>2
    <3> QED BY <3>3 DEF Sent
  <2> QED BY <1>2, <2>1
<1>5. \A s \in staged' : s \in staged \/ OwnsCell(own, count'.next, s)
  BY DEF OwnsCell
<1>6. \A i \in DOMAIN edits' : \/ \E k \in DOMAIN edits : edits'[i] = edits[k]
                               \/ OwnsData(own, count'.next, edits'[i].key.id, edits'[i].data)
  OBVIOUS
<1> QED BY <1>3, <1>4, <1>5, <1>6, OwnersOn

\* A job is started: what it sends is what was staged, or names a row shown.
LEMMA StartOwned ==
  ASSUME GridTypes, GridTypes', NEW own \in [Nat -> Nat], Owners(own), count.next <= count'.next,
         NEW kind \in {"save", "delete", "sheet"}, NEW list \in Seq(Sent), Start(kind, list),
         \A q \in DOMAIN list : OwnsData(own, count.next, list[q].where, list[q].data)
  PROVE  Owners(own)'
<1>1. /\ jobs' \in Seq(Job) /\ Len(jobs') = Len(jobs) + 1
      /\ \A j \in 1 .. Len(jobs) : jobs'[j] = jobs[j]
      /\ jobs'[Len(jobs) + 1].todo = list
      /\ UNCHANGED <<db, rows, filter, shown, fetches, edits, drafts, staged, made>>
  BY StartIs DEF GridTypes
<1>2. DOMAIN jobs' = 1 .. Len(jobs) + 1 /\ DOMAIN jobs = 1 .. Len(jobs) /\ Len(jobs) \in Nat
  BY <1>1 DEF GridTypes
<1>3. ASSUME NEW j \in DOMAIN jobs', NEW q \in DOMAIN jobs'[j].todo
      PROVE  \/ \E i \in DOMAIN jobs : \E p \in DOMAIN jobs[i].todo : jobs'[j].todo[q] = jobs[i].todo[p]
             \/ OwnsData(own, count.next, jobs'[j].todo[q].where, jobs'[j].todo[q].data)
  <2>1. CASE j \in 1 .. Len(jobs)
    BY <1>1, <1>2, <2>1
  <2>2. CASE j = Len(jobs) + 1
    <3>1. jobs'[j].todo = list
      BY <1>1, <2>2
    <3> QED BY <3>1
  <2>3. j \in 1 .. Len(jobs) \/ j = Len(jobs) + 1
    BY <1>2, OneMore
  <2> QED BY <2>1, <2>2, <2>3
<1> QED BY <1>1, <1>3, SameOwned

LEMMA GestureOn ==
  ASSUME GridTypes, NEW keys \in {0, 1}, Gesture(keys)
  PROVE  count.next \in Nat /\ count'.next \in Nat /\ count.next <= count'.next
<1>1. count \in Counts
  BY DEF GridTypes
<1>2. count' \in Counts /\ count'.next = count.next + keys
  BY <1>1, GestureIs
<1> QED BY <1>1, <1>2, OneMore DEF Counts

LEMMA OutsideOn ==
  ASSUME GridTypes, NEW what \in {"fault", "write"}, Outside(what, 0)
  PROVE  count.next \in Nat /\ count'.next = count.next /\ count.next <= count'.next
<1>1. count \in Counts
  BY DEF GridTypes
<1>2. count' \in Counts /\ count'.next = count.next + 0
  BY <1>1, OutsideIs
<1> QED BY <1>1, <1>2, OneMore DEF Counts

LEMMA AppendAny ==
  ASSUME NEW S, NEW s \in Seq(S), NEW e
  PROVE  /\ Len(Append(s, e)) = Len(s) + 1 /\ DOMAIN Append(s, e) = 1 .. Len(s) + 1
         /\ \A i \in 1 .. Len(s) : Append(s, e)[i] = s[i]
         /\ Append(s, e)[Len(s) + 1] = e
<1>1. s \in Seq(S \cup {e}) /\ e \in S \cup {e}
  OBVIOUS
<1> QED BY <1>1, AppendIs

LEMMA SecondHalf == \A m, n \in Nat : \A q \in 1 .. m + n : q \notin 1 .. m => q - m \in 1 .. n /\ q = m + (q - m)
OBVIOUS

LEMMA ValIs ==
  ASSUME NEW v \in Values
  PROVE  With(NoData, "val", v) \in Data /\ DOMAIN With(NoData, "val", v) = {"val"}
<1>1. NoData \in Data /\ DOMAIN NoData = {} /\ "val" \in Columns /\ v \in Cell
  BY NoDataIs DEF Columns, Cell
<1> QED BY <1>1, WithIs

\* What a save sends carries the keys of the rows it is staged under.
LEMMA SavedOwned ==
  ASSUME GridTypes, NEW own \in [Nat -> Nat], Owners(own), NEW q \in DOMAIN Saved
  PROVE  OwnsData(own, count.next, Saved[q].where, Saved[q].data)
<1>1. /\ Len(drafts) \in Nat /\ DOMAIN drafts = 1 .. Len(drafts)
      /\ Len(edits) \in Nat /\ DOMAIN edits = 1 .. Len(edits)
      /\ DOMAIN Saved = 1 .. Len(drafts) + Len(edits)
  <2>1. Saved \in Seq(Sent) /\ Len(Saved) = Len(drafts) + Len(edits)
    BY SavedIs
  <2>2. DOMAIN Saved = 1 .. Len(Saved)
    BY <2>1
  <2>3. edits \in Seq(Edit) /\ drafts \in Seq(Nat)
    BY DEF GridTypes
  <2>4. /\ Len(drafts) \in Nat /\ DOMAIN drafts = 1 .. Len(drafts)
        /\ Len(edits) \in Nat /\ DOMAIN edits = 1 .. Len(edits)
    BY <2>3, LengthIs
  <2> QED BY <2>1, <2>2, <2>4
<1>2. CASE q \in 1 .. Len(drafts)
  <2>1. Saved[q] = Request("create", Null, NoData, drafts[q])
    BY <1>2, SavedIs
  <2> QED BY <2>1, NoDataIs DEF Request, OwnsData
<1>3. CASE q \notin 1 .. Len(drafts)
  <2>1. PICK i \in 1 .. Len(edits) : q = Len(drafts) + i
    <3>1. q - Len(drafts) \in 1 .. Len(edits) /\ q = Len(drafts) + (q - Len(drafts))
      BY <1>1, <1>3, SecondHalf
    <3> QED BY <3>1
  <2>2. Saved[q] = Update(WhereFor(rows, edits[i].key), edits[i].data)
    BY <2>1, SavedIs
  <2>3. edits[i] \in Edit
    BY <1>1 DEF GridTypes
  <2>4. WhereFor(rows, edits[i].key) \in {edits[i].key.id, Null}
    BY <2>3, WhereForIs DEF Edit, GridTypes
  <2>5. OwnsData(own, count.next, edits[i].key.id, edits[i].data)
    BY <1>1 DEF Owners
  <2>6. OwnsData(own, count.next, WhereFor(rows, edits[i].key), edits[i].data)
    BY <2>4, <2>5 DEF OwnsData
  <2> QED BY <2>2, <2>6 DEF Update, Request
<1> QED BY <1>2, <1>3

LEMMA DeletedOwned ==
  ASSUME GridTypes, GridTypes', NEW own \in [Nat -> Nat], Owners(own), deleteRows
  PROVE  Owners(own)'
<1>1. count.next <= count'.next
  BY GestureOn DEF deleteRows
<1>2. PICK n \in 1 .. Cardinality(rows) :
        \E picked \in Injection(1 .. n, rows) : Start("delete", [i \in 1 .. n |-> Request("delete", uniqueWhereFor(picked[i]), NoData, 0)])
  BY DEF deleteRows
<1>3. PICK picked \in Injection(1 .. n, rows) : Start("delete", [i \in 1 .. n |-> Request("delete", uniqueWhereFor(picked[i]), NoData, 0)])
  BY <1>2
<1> DEFINE list == [i \in 1 .. n |-> Request("delete", uniqueWhereFor(picked[i]), NoData, 0)]
<1>4. ASSUME NEW i \in 1 .. n
      PROVE  /\ Request("delete", uniqueWhereFor(picked[i]), NoData, 0) \in Sent
             /\ OwnsData(own, count.next, uniqueWhereFor(picked[i]), NoData)
  <2>1. picked[i] \in rows /\ picked[i] \in Row
    BY DEF Injection, GridTypes
  <2>2. Request("delete", uniqueWhereFor(picked[i]), NoData, 0) \in Sent
    BY <2>1, NoDataIs DEF Request, Sent, uniqueWhereFor, Row
  <2>3. OwnsRow(own, count.next, picked[i])
    BY <2>1 DEF Owners
  <2> QED BY <2>2, <2>3, NoDataIs DEF OwnsRow, OwnsData, uniqueWhereFor
<1>5. list \in Seq(Sent) /\ DOMAIN list = 1 .. n
  <2>1. n \in Nat
    OBVIOUS
  <2> QED BY <1>4, <2>1
<1>6. \A q \in DOMAIN list : OwnsData(own, count.next, list[q].where, list[q].data)
  BY <1>4, <1>5 DEF Request
<1> HIDE DEF list
<1>7. Start("delete", list)
  BY <1>3 DEF list
<1> QED BY <1>1, <1>5, <1>6, <1>7, StartOwned

LEMMA CellSavedOwned ==
  ASSUME GridTypes, GridTypes', NEW own \in [Nat -> Nat], Owners(own), saveCell
  PROVE  Owners(own)'
<1>1. count.next <= count'.next
  BY GestureOn DEF saveCell
<1>2. PICK row \in rows : \E v \in Values \ {row.val} :
        LET where == uniqueWhereFor(Merge(row, DataOf(rowKeyFor(rows, row))))
        IN where # Null /\ Start("sheet", <<Update(where, With(NoData, "val", v))>>)
  BY DEF saveCell
<1> DEFINE data == DataOf(rowKeyFor(rows, row))
           where == uniqueWhereFor(Merge(row, data))
<1>3. PICK v \in Values \ {row.val} : where # Null /\ Start("sheet", <<Update(where, With(NoData, "val", v))>>)
  BY <1>2
<1>4. row \in Row /\ OwnsRow(own, count.next, row)
  BY DEF GridTypes, Owners
<1>5. data \in Data /\ ("id" \in DOMAIN data => data["id"] < count.next)
  <2>1. CASE IsStaged(rowKeyFor(rows, row))
    <3>1. PlaceOf(rowKeyFor(rows, row)) \in DOMAIN edits /\ data = edits[PlaceOf(rowKeyFor(rows, row))].data /\ data \in Data
      BY <2>1, DataOfIs DEF GridTypes
    <3> QED BY <3>1 DEF Owners, OwnsData
  <2>2. CASE ~IsStaged(rowKeyFor(rows, row))
    <3>1. data = NoData
      BY <2>2, DataOfIs DEF GridTypes
    <3> QED BY <3>1, NoDataIs
  <2> QED BY <2>1, <2>2
<1> HIDE DEF data
<1>6. where \in Nat \cup {Null} /\ (where # Null => where < count.next)
  <2>1. Merge(row, data) \in Row /\ Merge(row, data).id = IF "id" \in DOMAIN data THEN data["id"] ELSE row.id
    BY <1>4, <1>5, MergeIs
  <2> QED BY <1>4, <1>5, <2>1 DEF OwnsRow, uniqueWhereFor, Row
<1>7. With(NoData, "val", v) \in Data /\ DOMAIN With(NoData, "val", v) = {"val"}
  BY ValIs
<1> HIDE DEF where
<1>8. Update(where, With(NoData, "val", v)) \in Sent /\ OwnsData(own, count.next, where, With(NoData, "val", v))
  BY <1>6, <1>7 DEF Update, Request, Sent, OwnsData
<1> DEFINE list == <<Update(where, With(NoData, "val", v))>>
<1>9. list \in Seq(Sent) /\ \A q \in DOMAIN list : OwnsData(own, count.next, list[q].where, list[q].data)
  BY <1>8 DEF Update, Request
<1> HIDE DEF list
<1>10. Start("sheet", list)
  BY <1>3 DEF list
<1> QED BY <1>1, <1>9, <1>10, StartOwned

LEMMA OwnersKept ==
  ASSUME WellFormed, GridTypes, GridTypes', DistinctKeys, NEW own \in [Nat -> Nat], Owners(own), Next
  PROVE  \E more \in [Nat -> Nat] : Owners(more)'
<1>1. CASE TypeCell
  BY <1>1, TypingOwned
<1>2. CASE Draft \/ Discard
  <2>1. count.next <= count'.next /\ UNCHANGED <<db, rows, fetches, jobs>> /\ edits' \in {edits, <<>>}
    BY <1>2, GestureOn DEF Draft, Discard, grid
  <2>2. \A s \in staged' : s \in staged \/ s.col = "new"
    BY <1>2 DEF Draft, Discard
  <2>3. \A i \in DOMAIN edits' : \E k \in DOMAIN edits : edits'[i] = edits[k]
    <3>1. CASE edits' = <<>>
      <4>1. DOMAIN edits' = {}
        BY <3>1
      <4> QED BY <4>1
    <3> QED BY <2>1, <3>1
  <2>4. Owners(own)'
    BY <2>1, <2>2, <2>3, SameOwned
  <2> QED BY <2>4
<1>3. CASE saveAll
  <2>1. count.next <= count'.next
    BY <1>3, GestureOn DEF saveAll
  <2>2. Saved \in Seq(Sent) /\ Start("save", Saved)
    BY <1>3, SavedIs DEF saveAll, Saved
  <2>3. PICK list \in Seq(Sent) : list = Saved
    BY <2>2
  <2>4. Owners(own)'
    BY <2>1, <2>2, <2>3, SavedOwned, StartOwned
  <2> QED BY <2>4
<1>4. CASE deleteRows
  BY <1>4, DeletedOwned
<1>5. CASE saveCell
  BY <1>5, CellSavedOwned
<1>6. CASE ChangeFilter \/ Refresh
  <2>1. count.next <= count'.next /\ UNCHANGED <<db, rows, edits, staged, jobs>>
    BY <1>6, GestureOn DEF ChangeFilter, Refresh, stage, grid
  <2>2. PICK f, ends, after : Fetch(f, ends, after)
    BY <1>6 DEF ChangeFilter, Refresh
  <2>3. fetches \in Seq(Listing)
    BY DEF GridTypes
  <2>4. /\ Len(fetches') = Len(fetches) + 1 /\ DOMAIN fetches' = 1 .. Len(fetches) + 1
        /\ \A k \in 1 .. Len(fetches) : fetches'[k] = fetches[k]
        /\ fetches'[Len(fetches) + 1].rows = Unread
    BY <2>2, <2>3, AppendAny DEF Fetch
  <2>5. \A k \in DOMAIN fetches' : fetches'[k].rows = Unread \/ \E n \in DOMAIN fetches : fetches'[k].rows = fetches[n].rows
    <3>1. Len(fetches) \in Nat /\ DOMAIN fetches = 1 .. Len(fetches)
      BY DEF GridTypes
    <3> QED BY <2>4, <3>1, OneMore
  <2>6. Owners(own)'
    BY <2>1, <2>5, SameOwned
  <2> QED BY <2>6
<1>7. ASSUME NEW j \in DOMAIN jobs, Send(j) PROVE \E more \in [Nat -> Nat] : Owners(more)'
  <2>1. /\ jobs[j].todo # <<>> /\ Reaches(Head(jobs[j].todo)) /\ UNCHANGED <<rows, edits>>
        /\ count'.next = count.next + NewKeys(Head(jobs[j].todo))
    BY <1>7, CountsOn DEF Send, GridTypes
  <2>2. ASSUME NEW i \in DOMAIN jobs', NEW q \in DOMAIN jobs'[i].todo
        PROVE  \E n \in DOMAIN jobs : \E p \in DOMAIN jobs[n].todo : jobs'[i].todo[q] = jobs[n].todo[p]
    <3>1. jobs \in Seq(Job) /\ jobs[j].todo # <<>> /\ jobs' = [jobs EXCEPT ![j].todo = Tail(@)]
      BY <1>7 DEF Send, GridTypes
    <3>2. i \in DOMAIN jobs
      BY <3>1, SentIs
    <3>3. CASE i = j
      <4>1. q + 1 \in DOMAIN jobs[j].todo /\ jobs'[j].todo[q] = jobs[j].todo[q + 1]
        BY <3>1, <3>3, SentIs
      <4> QED BY <3>2, <3>3, <4>1
    <3>4. CASE i # j
      <4>1. jobs'[i] = jobs[i]
        BY <3>1, <3>2, <3>4, SentIs
      <4> QED BY <3>2, <4>1
    <3> QED BY <3>3, <3>4
  <2> QED BY <2>1, <2>2, WrittenOwned
<1>8. ASSUME NEW j \in DOMAIN jobs, AnswerLost(j) PROVE \E more \in [Nat -> Nat] : Owners(more)'
  <2>1. /\ jobs[j].todo # <<>> /\ Reaches(Head(jobs[j].todo)) /\ UNCHANGED <<rows, edits>>
        /\ Outside("fault", NewKeys(Head(jobs[j].todo)))
    BY <1>8 DEF AnswerLost
  <2>2. NewKeys(Head(jobs[j].todo)) \in Nat
    BY DEF NewKeys
  <2>3. count'.next = count.next + NewKeys(Head(jobs[j].todo))
    BY <2>1, <2>2, OutsideIs DEF GridTypes
  <2>4. \A i \in DOMAIN jobs' : \A q \in DOMAIN jobs'[i].todo :
          \E n \in DOMAIN jobs : \E p \in DOMAIN jobs[n].todo : jobs'[i].todo[q] = jobs[n].todo[p]
    <3>1. \A k \in DOMAIN jobs' : \E i \in DOMAIN jobs : jobs'[k] = jobs[i]
      BY <1>8, StopsIs DEF AnswerLost, GridTypes
    <3> QED BY <3>1
  <2> QED BY <2>1, <2>3, <2>4, WrittenOwned
<1>9. ASSUME NEW j \in DOMAIN jobs, Refused(j) PROVE \E more \in [Nat -> Nat] : Owners(more)'
  <2>1. count.next <= count'.next /\ UNCHANGED <<db, rows, fetches, edits, staged>>
    <3>1. count' = count \/ Outside("fault", 0)
      BY <1>9 DEF Refused
    <3>2. count.next <= count.next
      BY OneMore DEF GridTypes, Counts
    <3> QED BY <1>9, <3>1, <3>2, OutsideOn DEF Refused, grid, stage
  <2>2. \A k \in DOMAIN jobs' : \E i \in DOMAIN jobs : jobs'[k] = jobs[i]
    BY <1>9, StopsIs DEF Refused, GridTypes
  <2>3. Owners(own)'
    BY <2>1, <2>2, SameOwned
  <2> QED BY <2>3
<1>10. ASSUME NEW j \in DOMAIN jobs, Finish(j) PROVE \E more \in [Nat -> Nat] : Owners(more)'
  <2>1. UNCHANGED <<db, rows, staged, count>> /\ edits' \in {<<>>, edits} /\ jobs' = RemoveAt(jobs, j)
    <3>1. jobs' = RemoveAt(jobs, j) /\ (IF jobs[j].kind = "save" THEN edits' = <<>> /\ drafts' = <<>> ELSE UNCHANGED <<edits, drafts>>)
      BY <1>10 DEF Finish
    <3>2. UNCHANGED <<db, rows, staged, count>>
      BY <1>10, FinishIs
    <3> QED BY <3>1, <3>2
  <2>2. \A k \in DOMAIN jobs' : \E i \in DOMAIN jobs : jobs'[k] = jobs[i]
    <3>1. jobs \in Seq(Job)
      BY DEF GridTypes
    <3> QED BY <2>1, <3>1, LeftIs
  <2>3. \A i \in DOMAIN edits' : \E k \in DOMAIN edits : edits'[i] = edits[k]
    <3>1. CASE edits' = <<>>
      <4>1. DOMAIN edits' = {}
        BY <3>1
      <4> QED BY <4>1
    <3> QED BY <2>1, <3>1
  <2>4. \A k \in DOMAIN fetches' : fetches'[k].rows = Unread \/ \E n \in DOMAIN fetches : fetches'[k].rows = fetches[n].rows
    <3>1. /\ fetches' \in Seq(Listing) /\ Len(fetches') = Len(fetches) + 1
          /\ \A k \in 1 .. Len(fetches) : fetches'[k] = fetches[k]
          /\ fetches'[Len(fetches) + 1].rows = Unread
      BY <1>10, FinishIs
    <3>2. Len(fetches) \in Nat /\ DOMAIN fetches = 1 .. Len(fetches) /\ DOMAIN fetches' = 1 .. Len(fetches) + 1
      BY <3>1 DEF GridTypes
    <3> QED BY <3>1, <3>2, OneMore
  <2>5. count.next <= count'.next
    BY <2>1, OneMore DEF GridTypes, Counts
  <2>6. Owners(own)'
    BY <2>1, <2>2, <2>3, <2>4, <2>5, SameOwned
  <2> QED BY <2>6
<1>11. ASSUME NEW k \in DOMAIN fetches, Read(k) PROVE \E more \in [Nat -> Nat] : Owners(more)'
  <2>1. /\ fetches' \in Seq(Listing) /\ Len(fetches') = Len(fetches)
        /\ \A n \in DOMAIN fetches : n # k => fetches'[n] = fetches[n]
        /\ fetches'[k].rows \subseteq db
        /\ UNCHANGED <<db, rows, edits, staged, jobs, count>>
    BY <1>11, ReadIs
  <2>2. DOMAIN fetches' = DOMAIN fetches
    BY <2>1 DEF GridTypes
  <2>3. count.next <= count'.next
    BY <2>1, OneMore DEF GridTypes, Counts
  <2>4. Owners(own)'
    BY <2>1, <2>2, <2>3, SameOwned
  <2> QED BY <2>4
<1>12. ASSUME NEW k \in DOMAIN fetches, Arrive(k) PROVE \E more \in [Nat -> Nat] : Owners(more)'
  <2>1. /\ fetches[k].rows # Unread /\ rows' = fetches[k].rows /\ fetches' = RemoveAt(fetches, k)
        /\ UNCHANGED <<db, edits, staged, jobs, count>>
    BY <1>12, ArriveIs
  <2>2. \A n \in DOMAIN fetches' : \E i \in DOMAIN fetches : fetches'[n] = fetches[i]
    BY <2>1, LeftIs DEF GridTypes
  <2>3. count.next <= count'.next
    BY <2>1, OneMore DEF GridTypes, Counts
  <2>4. Owners(own)'
    BY <2>1, <2>2, <2>3, SameOwned
  <2> QED BY <2>4
<1>13. ASSUME NEW k \in DOMAIN fetches, FetchFails(k) PROVE \E more \in [Nat -> Nat] : Owners(more)'
  <2>1. fetches' = RemoveAt(fetches, k) /\ UNCHANGED <<db, rows, edits, staged, jobs>> /\ count.next <= count'.next
    BY <1>13, OutsideOn DEF FetchFails, grid, stage
  <2>2. \A n \in DOMAIN fetches' : \E i \in DOMAIN fetches : fetches'[n] = fetches[i]
    BY <2>1, LeftIs DEF GridTypes
  <2>3. Owners(own)'
    BY <2>1, <2>2, SameOwned
  <2> QED BY <2>3
<1>14. CASE Others
  <2>1. UNCHANGED <<rows, fetches, edits, staged, jobs>> /\ count.next <= count'.next
    BY <1>14, OutsideOn DEF Others, grid, stage
  <2>2. PICK row \in db : \/ db' = db \ {row}
                          \/ \E v \in Values \ {row.val} : db' = (db \ {row}) \cup {[row EXCEPT !.val = v]}
    BY <1>14 DEF Others
  <2>3. \A v : OwnsRow(own, count.next, [row EXCEPT !.val = v])
    <3>1. row \in Row /\ OwnsRow(own, count.next, row)
      BY DEF GridTypes, Owners
    <3> QED BY <3>1 DEF OwnsRow, Row
  <2>4. \A r \in db' : r \in db \/ OwnsRow(own, count.next, r)
    BY <2>2, <2>3
  <2>5. Owners(own)'
    BY <2>1, <2>4, SameOwned
  <2> QED BY <2>5
<1>15. CASE Finished
  <2>1. UNCHANGED <<db, rows, fetches, edits, staged, jobs, count>>
    BY <1>15 DEF Finished, vars, grid, stage
  <2>2. Owners(own)'
    BY <2>1 DEF Owners
  <2> QED BY <2>2
<1> QED BY <1>1, <1>2, <1>3, <1>4, <1>5, <1>6, <1>7, <1>8, <1>9, <1>10, <1>11, <1>12, <1>13, <1>14, <1>15 DEF Next

---------------------------------------------------------------------------
(* What is staged is kept. *)

\* A request that writes what is staged, if it is accepted.
Covers(q, s) ==
  \/ q.verb = "create" /\ s.col = "new" /\ q.n = s.oid
  \/ /\ q.verb = "update" /\ s.col # "new" /\ s.col \in DOMAIN q.data /\ q.data[s.col] = s.value
     /\ q.where \in {Null, s.id}
SavesCover ==
  \A s \in staged : \A j \in DOMAIN jobs : jobs[j].kind = "save" => \E q \in DOMAIN jobs[j].todo : Covers(jobs[j].todo[q], s)
Held(s) ==
  IF s.col = "new" THEN \E i \in DOMAIN drafts : drafts[i] = s.oid
  ELSE \E i \in DOMAIN edits : edits[i].key.id = s.id /\ s.col \in DOMAIN edits[i].data /\ edits[i].data[s.col] = s.value
StagedRight == DistinctKeys /\ (\A s \in staged : Held(s)) /\ SavesCover

\* Less is staged, and the jobs are some of those there were.
LEMMA LessStaged ==
  ASSUME StagedRight, staged' \subseteq staged, edits' = edits, drafts' = drafts,
         \A k \in DOMAIN jobs' : \E i \in DOMAIN jobs : jobs'[k] = jobs[i]
  PROVE  StagedRight'
<1>1. DistinctKeys'
  BY DEF StagedRight, DistinctKeys
<1>2. \A s \in staged' : Held(s)'
  BY DEF StagedRight, Held
<1>3. SavesCover'
  BY DEF StagedRight, SavesCover, Covers
<1> QED BY <1>1, <1>2, <1>3 DEF StagedRight

LEMMA TypingStaged ==
  ASSUME WellFormed, GridTypes, StagedRight, NEW own \in [Nat -> Nat], Owners(own), TypeCell
  PROVE  StagedRight'
<1>1. PICK row \in rows, col \in Columns :
        \E value \in IF col = "id" THEN {count.next} ELSE Values : setCellEdit(row, col, value)
  BY DEF TypeCell
<1>2. PICK value \in IF col = "id" THEN {count.next} ELSE Values : setCellEdit(row, col, value)
  BY <1>1
<1>3. IF col = "id" THEN value \in Nat ELSE value \in Cell
  BY <1>2 DEF Cell, GridTypes, Counts
<1>4. row \in Row /\ row.id \in Nat \cup {Null} /\ OwnsRow(own, count.next, row) /\ DistinctKeys
  BY DEF GridTypes, Row, Owners, StagedRight
<1> DEFINE key == rowKeyFor(rows, row)
<1>5. PICK data \in Data :
        /\ edits' = StageRow(key, data)
        /\ \A c \in DOMAIN DataOf(key) : c # col => c \in DOMAIN data /\ data[c] = DataOf(key)[c]
        /\ \A c \in DOMAIN data : c # col => c \in DOMAIN DataOf(key) /\ data[c] = DataOf(key)[c]
        /\ col \in DOMAIN data => data[col] = value
        /\ row.id = Null => staged' = staged
        /\ row.id # Null => \A s \in staged' :
             \/ s \in staged /\ (s.oid # row.oid \/ s.col # col)
             \/ jobs = <<>> /\ s = [oid |-> row.oid, id |-> row.id, col |-> col, value |-> value] /\ col \in DOMAIN data
  BY <1>2, <1>3, <1>4, CellIs
<1>6. key \in Key /\ key.id = row.id
  BY <1>4, KeyIs DEF GridTypes
<1> HIDE DEF key
<1>7. /\ edits' = StageRow(key, data) /\ edits \in Seq(Edit)
      /\ \A i, k \in DOMAIN edits' : edits'[i].key = edits'[k].key => i = k
      /\ \A i \in DOMAIN edits : edits[i].key # key => \E k \in DOMAIN edits' : edits'[k] = edits[i]
      /\ DOMAIN data # {} => \E k \in DOMAIN edits' : edits'[k] = [key |-> key, data |-> data]
  <2>1. edits \in Seq(Edit)
    BY DEF GridTypes
  <2>2. /\ \A i, k \in DOMAIN StageRow(key, data) : StageRow(key, data)[i].key = StageRow(key, data)[k].key => i = k
        /\ \A i \in DOMAIN edits : edits[i].key # key => \E k \in DOMAIN StageRow(key, data) : StageRow(key, data)[k] = edits[i]
        /\ DOMAIN data # {} => \E k \in DOMAIN StageRow(key, data) : StageRow(key, data)[k] = [key |-> key, data |-> data]
    BY <1>4, <1>6, <2>1, StageRowIs
  <2> QED BY <1>5, <2>1, <2>2
<1>8. UNCHANGED <<drafts, jobs>>
  BY DEF TypeCell
<1>9. ASSUME NEW s \in staged, s.col # "new", row.id # Null => s.oid # row.oid \/ s.col # col PROVE Held(s)'
  <2>1. PICK i \in DOMAIN edits : edits[i].key.id = s.id /\ s.col \in DOMAIN edits[i].data /\ edits[i].data[s.col] = s.value
    BY <1>9 DEF StagedRight, Held
  <2>2. OwnsCell(own, count.next, s)
    BY DEF Owners
  <2>3. s.id \in Nat /\ s.id # Null /\ own[s.id] = s.oid
    BY <1>9, <2>2 DEF OwnsCell, WellFormed
  <2>4. CASE edits[i].key # key
    <3>1. PICK k \in DOMAIN edits' : edits'[k] = edits[i]
      BY <1>7, <2>4
    <3> QED BY <1>9, <2>1, <3>1 DEF Held
  <2>5. CASE edits[i].key = key
    <3>1. s.id = row.id /\ s.oid = row.oid /\ row.id # Null
      <4>1. s.id = row.id
        BY <1>6, <2>1, <2>5
      <4> QED BY <1>4, <2>3, <4>1 DEF OwnsRow
    <3>2. s.col # col
      BY <1>9, <3>1
    <3>3. IsStaged(key) /\ PlaceOf(key) \in DOMAIN edits /\ edits[PlaceOf(key)].key = key /\ DataOf(key) = edits[PlaceOf(key)].data
      BY <1>7, <2>5, DataOfIs DEF IsStaged
    <3>4. PlaceOf(key) = i
      BY <1>4, <2>5, <3>3 DEF DistinctKeys
    <3>5. s.col \in DOMAIN data /\ data[s.col] = s.value
      BY <1>5, <2>1, <3>2, <3>3, <3>4
    <3>6. PICK k \in DOMAIN edits' : edits'[k] = [key |-> key, data |-> data]
      BY <1>7, <3>5
    <3>7. edits'[k].key.id = s.id /\ edits'[k].data = data
      BY <1>6, <3>1, <3>6
    <3> QED BY <1>9, <3>5, <3>7 DEF Held
  <2> QED BY <2>4, <2>5
<1>10. ASSUME NEW s \in staged' PROVE Held(s)'
  <2>1. CASE s \in staged /\ s.col = "new"
    BY <1>8, <2>1 DEF StagedRight, Held
  <2>2. CASE s \in staged /\ s.col # "new" /\ (row.id # Null => s.oid # row.oid \/ s.col # col)
    BY <1>9, <2>2
  <2>3. CASE row.id # Null /\ s = [oid |-> row.oid, id |-> row.id, col |-> col, value |-> value] /\ col \in DOMAIN data
    <3>1. PICK k \in DOMAIN edits' : edits'[k] = [key |-> key, data |-> data]
      BY <1>7, <2>3
    <3>2. edits'[k].key.id = row.id /\ edits'[k].data = data /\ data[col] = value
      BY <1>5, <1>6, <2>3, <3>1
    <3>3. s.col # "new" /\ s.id = row.id /\ s.col = col /\ s.value = value
      BY <2>3 DEF Columns
    <3> QED BY <2>3, <3>2, <3>3 DEF Held
  <2> QED BY <1>5, <2>1, <2>2, <2>3
<1>11. SavesCover'
  <2> SUFFICES ASSUME NEW s \in staged', NEW j \in DOMAIN jobs', jobs'[j].kind = "save"
               PROVE  \E q \in DOMAIN jobs'[j].todo : Covers(jobs'[j].todo[q], s)
    BY DEF SavesCover, Covers
  <2>1. jobs # <<>>
    BY <1>8
  <2>2. s \in staged
    BY <1>5, <2>1
  <2> QED BY <1>8, <2>2 DEF StagedRight, SavesCover
<1>12. DistinctKeys'
  BY <1>7 DEF DistinctKeys
<1> QED BY <1>10, <1>11, <1>12 DEF StagedRight

LEMMA DraftStaged == ASSUME GridTypes, StagedRight, Draft PROVE StagedRight'
<1>1. drafts \in Seq(Nat) /\ drafts' = Append(drafts, count.next) /\ UNCHANGED <<edits, jobs>>
  BY DEF Draft, GridTypes
<1>2. /\ \A i \in DOMAIN drafts : i \in DOMAIN drafts' /\ drafts'[i] = drafts[i]
      /\ \E i \in DOMAIN drafts' : drafts'[i] = count.next
  <2>1. /\ DOMAIN drafts' = 1 .. Len(drafts) + 1 /\ drafts'[Len(drafts) + 1] = count.next
        /\ \A i \in 1 .. Len(drafts) : drafts'[i] = drafts[i]
    BY <1>1, AppendAny
  <2>2. DOMAIN drafts = 1 .. Len(drafts) /\ Len(drafts) \in Nat
    BY <1>1
  <2>3. Len(drafts) + 1 \in 1 .. Len(drafts) + 1 /\ \A i \in 1 .. Len(drafts) : i \in 1 .. Len(drafts) + 1
    BY <2>2
  <2> QED BY <2>1, <2>2, <2>3
<1>3. \A s \in staged' : s \in staged \/ (jobs = <<>> /\ s = [oid |-> count.next, id |-> Null, col |-> "new", value |-> Null])
  BY DEF Draft
<1>4. ASSUME NEW s \in staged' PROVE Held(s)'
  <2>1. CASE s \in staged
    BY <1>1, <1>2, <2>1 DEF StagedRight, Held
  <2>2. CASE s = [oid |-> count.next, id |-> Null, col |-> "new", value |-> Null]
    BY <1>2, <2>2 DEF Held
  <2> QED BY <1>3, <2>1, <2>2
<1>5. SavesCover'
  <2> SUFFICES ASSUME NEW s \in staged', NEW j \in DOMAIN jobs', jobs'[j].kind = "save"
               PROVE  \E q \in DOMAIN jobs'[j].todo : Covers(jobs'[j].todo[q], s)
    BY DEF SavesCover, Covers
  <2>1. jobs # <<>>
    BY <1>1
  <2> QED BY <1>1, <1>3, <2>1 DEF StagedRight, SavesCover
<1>6. DistinctKeys'
  BY <1>1 DEF StagedRight, DistinctKeys
<1> QED BY <1>4, <1>5, <1>6 DEF StagedRight

\* Whatever is staged is in what a save sends.
LEMMA SavedCovers ==
  ASSUME GridTypes, StagedRight, NEW s \in staged
  PROVE  \E q \in DOMAIN Saved : Covers(Saved[q], s)
<1>1. /\ Len(drafts) \in Nat /\ DOMAIN drafts = 1 .. Len(drafts)
      /\ Len(edits) \in Nat /\ DOMAIN edits = 1 .. Len(edits)
  <2>1. edits \in Seq(Edit) /\ drafts \in Seq(Nat)
    BY DEF GridTypes
  <2> QED BY <2>1
<1>2. DOMAIN Saved = 1 .. Len(drafts) + Len(edits)
  <2>1. Saved \in Seq(Sent) /\ Len(Saved) = Len(drafts) + Len(edits)
    BY SavedIs
  <2> QED BY <2>1
<1>3. CASE s.col = "new"
  <2>1. PICK i \in DOMAIN drafts : drafts[i] = s.oid
    BY <1>3 DEF StagedRight, Held
  <2>2. i \in DOMAIN Saved
    BY <1>1, <1>2
  <2>3. Saved[i] = Request("create", Null, NoData, drafts[i])
    BY <1>1, SavedIs
  <2>4. Covers(Saved[i], s)
    BY <1>3, <2>1, <2>3 DEF Covers, Request
  <2> QED BY <2>2, <2>4
<1>4. CASE s.col # "new"
  <2>1. PICK i \in DOMAIN edits : edits[i].key.id = s.id /\ s.col \in DOMAIN edits[i].data /\ edits[i].data[s.col] = s.value
    BY <1>4 DEF StagedRight, Held
  <2>2. Len(drafts) + i \in DOMAIN Saved
    BY <1>1, <1>2
  <2>3. Saved[Len(drafts) + i] = Update(WhereFor(rows, edits[i].key), edits[i].data)
    BY <1>1, SavedIs
  <2>4. edits[i] \in Edit
    BY DEF GridTypes
  <2>5. WhereFor(rows, edits[i].key) \in {s.id, Null}
    BY <2>1, <2>4, WhereForIs DEF Edit, GridTypes
  <2>6. Covers(Saved[Len(drafts) + i], s)
    BY <1>4, <2>1, <2>3, <2>5 DEF Covers, Update, Request
  <2> QED BY <2>2, <2>6
<1> QED BY <1>3, <1>4

LEMMA StartStaged ==
  ASSUME GridTypes, StagedRight, NEW kind \in {"save", "delete", "sheet"}, NEW list \in Seq(Sent), Start(kind, list),
         kind = "save" => list = Saved
  PROVE  StagedRight'
<1>1. /\ jobs' \in Seq(Job) /\ Len(jobs') = Len(jobs) + 1
      /\ \A j \in 1 .. Len(jobs) : jobs'[j] = jobs[j]
      /\ jobs'[Len(jobs) + 1].todo = list /\ jobs'[Len(jobs) + 1].kind = kind
      /\ UNCHANGED <<db, rows, filter, shown, fetches, edits, drafts, staged, made>>
  BY StartIs DEF GridTypes
<1>2. DOMAIN jobs' = 1 .. Len(jobs) + 1 /\ DOMAIN jobs = 1 .. Len(jobs) /\ Len(jobs) \in Nat
  BY <1>1 DEF GridTypes
<1>3. SavesCover'
  <2> SUFFICES ASSUME NEW s \in staged, NEW j \in DOMAIN jobs', jobs'[j].kind = "save"
               PROVE  \E q \in DOMAIN jobs'[j].todo : Covers(jobs'[j].todo[q], s)
    BY <1>1 DEF SavesCover, Covers
  <2>1. CASE j \in 1 .. Len(jobs)
    BY <1>1, <1>2, <2>1 DEF StagedRight, SavesCover
  <2>2. CASE j = Len(jobs) + 1
    <3>1. jobs'[j].todo = Saved
      BY <1>1, <2>2
    <3> QED BY <3>1, SavedCovers
  <2> QED BY <1>2, <2>1, <2>2, OneMore
<1>4. DistinctKeys' /\ \A s \in staged' : Held(s)'
  BY <1>1 DEF StagedRight, DistinctKeys, Held
<1> QED BY <1>3, <1>4 DEF StagedRight

\* What a request covers is written, or the request is refused.
LEMMA CoveredIsWritten ==
  ASSUME GridTypes, NEW own \in [Nat -> Nat], Owners(own), NEW r, Accepted(r), Reaches(r),
         NEW s \in staged, Covers(r, s)
  PROVE  s \notin staged'
<1>1. CASE r.verb = "create" /\ s.oid = r.n
  BY <1>1 DEF Reaches
<1>2. CASE /\ r.verb = "update" /\ s.col # "new" /\ s.col \in DOMAIN r.data /\ r.data[s.col] = s.value
           /\ r.where \in {Null, s.id}
  <2>1. PICK row \in Named(r.where) : TRUE
    BY <1>2 DEF Accepted
  <2>2. row \in db /\ row.id = r.where /\ r.where # Null
    BY NamedIs
  <2>3. OwnsRow(own, count.next, row) /\ OwnsCell(own, count.next, s)
    BY <2>2 DEF Owners
  <2>4. row.oid = s.oid
    BY <1>2, <2>2, <2>3 DEF OwnsRow, OwnsCell
  <2> QED BY <1>2, <2>1, <2>4 DEF Reaches
<1> QED BY <1>1, <1>2 DEF Covers

LEMMA SendStaged ==
  ASSUME GridTypes, StagedRight, NEW own \in [Nat -> Nat], Owners(own), NEW j \in DOMAIN jobs, Send(j)
  PROVE  StagedRight'
<1> DEFINE r == Head(jobs[j].todo)
<1>1. jobs \in Seq(Job) /\ jobs[j].todo # <<>> /\ jobs' = [jobs EXCEPT ![j].todo = Tail(@)] /\ UNCHANGED <<edits, drafts>>
  BY DEF Send, GridTypes
<1>2. Accepted(r) /\ Reaches(r)
  BY DEF Send
<1>3. staged' \subseteq staged
  BY <1>2 DEF Reaches
<1>4. /\ DOMAIN jobs' = DOMAIN jobs
      /\ \A k \in DOMAIN jobs : jobs'[k].kind = jobs[k].kind /\ (k # j => jobs'[k] = jobs[k])
      /\ r = jobs[j].todo[1]
      /\ \A q \in DOMAIN jobs'[j].todo : jobs'[j].todo[q] = jobs[j].todo[q + 1]
      /\ \A q \in DOMAIN jobs[j].todo : q # 1 => q - 1 \in DOMAIN jobs'[j].todo
  BY <1>1, SentIs
<1>5. SavesCover'
  <2> SUFFICES ASSUME NEW s \in staged', NEW k \in DOMAIN jobs', jobs'[k].kind = "save"
               PROVE  \E q \in DOMAIN jobs'[k].todo : Covers(jobs'[k].todo[q], s)
    BY DEF SavesCover, Covers
  <2>1. k \in DOMAIN jobs /\ jobs[k].kind = "save" /\ s \in staged
    BY <1>3, <1>4
  <2>2. PICK q \in DOMAIN jobs[k].todo : Covers(jobs[k].todo[q], s)
    BY <2>1 DEF StagedRight, SavesCover
  <2>3. CASE k # j
    BY <1>4, <2>1, <2>2, <2>3
  <2>4. CASE k = j
    <3>1. q # 1
      BY <1>2, <1>4, <2>1, <2>2, <2>4, CoveredIsWritten
    <3>2. q - 1 \in DOMAIN jobs'[j].todo /\ jobs'[j].todo[q - 1] = jobs[j].todo[(q - 1) + 1]
      BY <1>4, <2>4, <3>1
    <3>3. (q - 1) + 1 = q
      <4>1. jobs[j] \in Job
        BY <1>1
      <4>2. jobs[j].todo \in Seq(Sent)
        BY <4>1 DEF Job
      <4>3. q \in Nat
        BY <2>4, <4>2
      <4> QED BY <4>3
    <3> QED BY <2>2, <2>4, <3>2, <3>3
  <2> QED BY <2>3, <2>4
<1>6. DistinctKeys' /\ \A s \in staged' : Held(s)'
  BY <1>1, <1>3 DEF StagedRight, DistinctKeys, Held
<1> QED BY <1>5, <1>6 DEF StagedRight

LEMMA FinishStaged == ASSUME GridTypes, StagedRight, NEW j \in DOMAIN jobs, Finish(j) PROVE StagedRight'
<1>1. jobs' = RemoveAt(jobs, j) /\ jobs[j].todo = <<>> /\ UNCHANGED staged
  BY DEF Finish
<1>2. \A k \in DOMAIN jobs' : \E i \in DOMAIN jobs : jobs'[k] = jobs[i]
  <2>1. jobs \in Seq(Job)
    BY DEF GridTypes
  <2> QED BY <1>1, <2>1, LeftIs
<1>3. CASE jobs[j].kind = "save"
  <2>1. edits' = <<>>
    BY <1>3 DEF Finish
  <2>2. staged = {}
    <3>1. DOMAIN jobs[j].todo = {}
      BY <1>1
    <3> QED BY <1>3, <3>1 DEF StagedRight, SavesCover
  <2>3. DOMAIN edits' = {}
    BY <2>1
  <2>4. DistinctKeys'
    BY <2>3 DEF DistinctKeys
  <2> QED BY <1>1, <2>2, <2>4 DEF StagedRight, SavesCover
<1>4. CASE jobs[j].kind # "save"
  <2>1. UNCHANGED <<edits, drafts>>
    BY <1>4 DEF Finish
  <2> QED BY <1>1, <1>2, <2>1, LessStaged
<1> QED BY <1>3, <1>4

LEMMA StagedKept ==
  ASSUME WellFormed, GridTypes, StagedRight, NEW own \in [Nat -> Nat], Owners(own), Next
  PROVE  StagedRight'
<1>1. CASE TypeCell
  BY <1>1, TypingStaged
<1>2. CASE Draft
  BY <1>2, DraftStaged
<1>3. CASE Discard
  <2>1. edits' = <<>> /\ staged' = {}
    BY <1>3 DEF Discard
  <2>2. DOMAIN edits' = {}
    BY <2>1
  <2> QED BY <2>1, <2>2 DEF StagedRight, DistinctKeys, SavesCover
<1>4. CASE saveAll
  <2>1. Saved \in Seq(Sent) /\ Start("save", Saved)
    BY <1>4, SavedIs DEF saveAll, Saved
  <2>2. PICK list \in Seq(Sent) : list = Saved
    BY <2>1
  <2> QED BY <2>1, <2>2, StartStaged
<1>5. CASE deleteRows \/ saveCell \/ ChangeFilter \/ Refresh
  <2>1. CASE deleteRows \/ saveCell
    <3>1. PICK kind, list : kind # "save" /\ Start(kind, list)
      BY <2>1 DEF deleteRows, saveCell
    <3>2. /\ jobs' = Append(jobs, [kind |-> kind, todo |-> list, filter |-> filter])
          /\ UNCHANGED <<edits, drafts, staged>> /\ jobs \in Seq(Job)
      BY <3>1 DEF Start, stage, GridTypes
    <3>3. /\ DOMAIN jobs' = 1 .. Len(jobs) + 1 /\ DOMAIN jobs = 1 .. Len(jobs) /\ Len(jobs) \in Nat
          /\ \A j \in 1 .. Len(jobs) : jobs'[j] = jobs[j]
          /\ jobs'[Len(jobs) + 1].kind # "save"
      BY <3>1, <3>2, AppendAny
    <3>4. SavesCover'
      <4> SUFFICES ASSUME NEW s \in staged, NEW j \in DOMAIN jobs', jobs'[j].kind = "save"
                   PROVE  \E q \in DOMAIN jobs'[j].todo : Covers(jobs'[j].todo[q], s)
        BY <3>2 DEF SavesCover, Covers
      <4>1. j \in 1 .. Len(jobs)
        BY <3>3, OneMore
      <4> QED BY <3>3, <4>1 DEF StagedRight, SavesCover
    <3>5. DistinctKeys' /\ \A s \in staged' : Held(s)'
      BY <3>2 DEF StagedRight, DistinctKeys, Held
    <3> QED BY <3>4, <3>5 DEF StagedRight
  <2>2. CASE ChangeFilter \/ Refresh
    <3>1. UNCHANGED <<edits, drafts, staged, jobs>>
      BY <2>2 DEF ChangeFilter, Refresh, stage
    <3> QED BY <3>1, LessStaged
  <2> QED BY <1>5, <2>1, <2>2
<1>6. ASSUME NEW j \in DOMAIN jobs, Send(j) PROVE StagedRight'
  BY <1>6, SendStaged
<1>7. ASSUME NEW j \in DOMAIN jobs, Refused(j) \/ AnswerLost(j) PROVE StagedRight'
  <2>1. Stops(j) /\ staged' \subseteq staged /\ UNCHANGED <<edits, drafts>>
    BY <1>7 DEF Refused, AnswerLost, Reaches, stage
  <2>2. \A k \in DOMAIN jobs' : \E i \in DOMAIN jobs : jobs'[k] = jobs[i]
    BY <2>1, StopsIs DEF GridTypes
  <2> QED BY <2>1, <2>2, LessStaged
<1>8. ASSUME NEW j \in DOMAIN jobs, Finish(j) PROVE StagedRight'
  BY <1>8, FinishStaged
<1>9. ASSUME NEW k \in DOMAIN fetches, Read(k) \/ Arrive(k) \/ FetchFails(k) PROVE StagedRight'
  <2>1. UNCHANGED <<edits, drafts, staged, jobs>>
    BY <1>9 DEF Read, Arrive, FetchFails, stage
  <2> QED BY <2>1, LessStaged
<1>10. CASE Others \/ Finished
  <2>1. UNCHANGED <<edits, drafts, staged, jobs>>
    BY <1>10 DEF Others, Finished, vars, stage
  <2> QED BY <2>1, LessStaged
<1> QED BY <1>1, <1>2, <1>3, <1>4, <1>5, <1>6, <1>7, <1>8, <1>9, <1>10 DEF Next

---------------------------------------------------------------------------
(* A draft is created once. *)

\* Drafts are numbered, and each is created by one request.
Numbers ==
  /\ 0 < count.next
  /\ \A i \in DOMAIN drafts : drafts[i] < count.next
  /\ \A n \in made.drafts : n < count.next
  /\ \A j \in DOMAIN jobs : \A q \in DOMAIN jobs[j].todo : jobs[j].todo[q].n < count.next
  /\ \A i, k \in DOMAIN drafts : drafts[i] = drafts[k] => i = k
CreatesOnce(job, done) ==
  \A q \in DOMAIN job.todo : job.todo[q].verb = "create" =>
    /\ job.kind = "save" /\ job.todo[q].n \notin done
    /\ \A p \in DOMAIN job.todo : job.todo[p].verb = "create" /\ job.todo[p].n = job.todo[q].n => p = q
Once ==
  /\ made.again = {}
  /\ \A i, k \in DOMAIN jobs : i = k
  /\ \A j \in DOMAIN jobs : CreatesOnce(jobs[j], made.drafts)
  /\ (\A j \in DOMAIN jobs : jobs[j].kind # "save") => \A i \in DOMAIN drafts : drafts[i] \notin made.drafts
DraftsRight == Numbers /\ (~rough.jobs => Once)

LEMMA Below == \A m, n, k \in Nat : m < n /\ n <= k => m < k
OBVIOUS

LEMMA NumbersOn ==
  ASSUME GridTypes, GridTypes', Numbers, count.next <= count'.next,
         drafts' \in {drafts, <<>>},
         \A n \in made'.drafts : n \in made.drafts \/ n < count.next,
         \A j \in DOMAIN jobs' : \A q \in DOMAIN jobs'[j].todo :
           \/ \E i \in DOMAIN jobs : \E p \in DOMAIN jobs[i].todo : jobs'[j].todo[q] = jobs[i].todo[p]
           \/ jobs'[j].todo[q].n < count.next
  PROVE  Numbers'
<1>1. count.next \in Nat /\ count'.next \in Nat /\ \A m \in Nat : m < count.next => m < count'.next
  <2>1. count.next \in Nat /\ count'.next \in Nat
    BY DEF GridTypes, Counts
  <2> QED BY <2>1, Below
<1>2. 0 < count'.next
  BY <1>1 DEF Numbers
<1>3. /\ \A i \in DOMAIN drafts' : drafts'[i] < count'.next
      /\ \A i, k \in DOMAIN drafts' : drafts'[i] = drafts'[k] => i = k
  <2>1. CASE drafts' = <<>>
    <3>1. DOMAIN drafts' = {}
      BY <2>1
    <3> QED BY <3>1
  <2>2. CASE drafts' = drafts
    <3>1. \A i \in DOMAIN drafts : drafts[i] \in Nat
      BY DEF GridTypes
    <3> QED BY <1>1, <2>2, <3>1 DEF Numbers
  <2> QED BY <2>1, <2>2
<1>4. ASSUME NEW n \in made'.drafts PROVE n < count'.next
  <2>1. n \in Nat
    BY DEF GridTypes
  <2> QED BY <1>1, <2>1 DEF Numbers
<1>5. ASSUME NEW j \in DOMAIN jobs', NEW q \in DOMAIN jobs'[j].todo PROVE jobs'[j].todo[q].n < count'.next
  <2>1. jobs'[j].todo[q].n \in Nat
    <3>1. jobs'[j] \in Job
      BY DEF GridTypes
    <3>2. jobs'[j].todo \in Seq(Sent)
      BY <3>1 DEF Job
    <3>3. jobs'[j].todo[q] \in Sent
      BY <3>2
    <3> QED BY <3>3 DEF Sent
  <2>2. jobs'[j].todo[q].n < count.next
    BY DEF Numbers
  <2> QED BY <1>1, <2>1, <2>2
<1> QED BY <1>2, <1>3, <1>4, <1>5 DEF Numbers

\* Nothing is sent, and nothing drafted but what was.
LEMMA QuietDrafts ==
  ASSUME GridTypes, GridTypes', DraftsRight, count.next <= count'.next, drafts' \in {drafts, <<>>},
         UNCHANGED <<jobs, made>>, rough'.jobs = rough.jobs
  PROVE  DraftsRight'
<1>1. Numbers'
  BY NumbersOn DEF DraftsRight
<1>2. ASSUME ~rough.jobs PROVE Once'
  <2>1. Once
    BY <1>2 DEF DraftsRight
  <2>2. CASE drafts' = <<>>
    <3>1. DOMAIN drafts' = {}
      BY <2>2
    <3> QED BY <2>1, <3>1 DEF Once, CreatesOnce
  <2>3. CASE drafts' = drafts
    BY <2>1, <2>3 DEF Once, CreatesOnce
  <2> QED BY <2>2, <2>3
<1> QED BY <1>1, <1>2 DEF DraftsRight

LEMMA DraftDrafts == ASSUME GridTypes, DraftsRight, Draft PROVE DraftsRight'
<1>1. drafts \in Seq(Nat) /\ drafts' = Append(drafts, count.next) /\ UNCHANGED <<jobs, made, rough>> /\ Gesture(1)
  BY DEF Draft, GridTypes
<1>2. count.next \in Nat /\ count'.next = count.next + 1 /\ count.next < count'.next /\ \A m \in Nat : m < count.next => m < count'.next
  <2>1. count \in Counts /\ count' \in Counts /\ count'.next = count.next + 1
    BY <1>1, GestureIs DEF GridTypes
  <2>2. count.next \in Nat /\ count'.next \in Nat
    BY <2>1 DEF Counts
  <2> QED BY <2>1, <2>2, OneMore, Below
<1>3. /\ DOMAIN drafts' = 1 .. Len(drafts) + 1 /\ drafts'[Len(drafts) + 1] = count.next
      /\ \A i \in 1 .. Len(drafts) : drafts'[i] = drafts[i]
      /\ DOMAIN drafts = 1 .. Len(drafts) /\ Len(drafts) \in Nat
  BY <1>1, AppendAny
<1>4. \A i \in DOMAIN drafts' : (i \in DOMAIN drafts /\ drafts'[i] = drafts[i]) \/ (i = Len(drafts) + 1 /\ drafts'[i] = count.next)
  <2> TAKE i \in DOMAIN drafts'
  <2>1. i \in 1 .. Len(drafts) \/ i = Len(drafts) + 1
    BY <1>3, OneMore
  <2>2. CASE i \in 1 .. Len(drafts)
    BY <1>3, <2>2
  <2>3. CASE i = Len(drafts) + 1
    BY <1>3, <2>3
  <2> QED BY <2>1, <2>2, <2>3
<1>5. \A i \in DOMAIN drafts : drafts[i] \in Nat /\ drafts[i] < count.next /\ drafts[i] # count.next
  <2>1. \A i \in DOMAIN drafts : drafts[i] \in Nat
    BY <1>1
  <2> QED BY <1>2, <2>1 DEF DraftsRight, Numbers
<1>6. Numbers'
  <2>1. \A i \in DOMAIN drafts' : drafts'[i] < count'.next
    BY <1>2, <1>4, <1>5
  <2>2. \A i, k \in DOMAIN drafts' : drafts'[i] = drafts'[k] => i = k
    BY <1>4, <1>5 DEF DraftsRight, Numbers
  <2>3. \A n \in made'.drafts : n < count'.next
    <3>1. \A n \in made.drafts : n \in Nat
      BY DEF GridTypes
    <3> QED BY <1>1, <1>2, <3>1 DEF DraftsRight, Numbers
  <2>4. \A j \in DOMAIN jobs' : \A q \in DOMAIN jobs'[j].todo : jobs'[j].todo[q].n < count'.next
    <3>1. \A j \in DOMAIN jobs : \A q \in DOMAIN jobs[j].todo : jobs[j].todo[q].n \in Nat
      BY SentRequests DEF Sent
    <3> QED BY <1>1, <1>2, <3>1 DEF DraftsRight, Numbers
  <2>5. 0 < count'.next
    BY <1>2 DEF DraftsRight, Numbers
  <2> QED BY <2>1, <2>2, <2>3, <2>4, <2>5 DEF Numbers
<1>7. ASSUME ~rough.jobs PROVE Once'
  <2>1. Once
    BY <1>7 DEF DraftsRight
  <2>2. count.next \notin made.drafts
    BY <1>2 DEF DraftsRight, Numbers
  <2>3. (\A j \in DOMAIN jobs : jobs[j].kind # "save") => \A i \in DOMAIN drafts' : drafts'[i] \notin made.drafts
    BY <1>4, <2>1, <2>2 DEF Once
  <2> QED BY <1>1, <2>1, <2>3 DEF Once, CreatesOnce
<1> QED BY <1>1, <1>6, <1>7 DEF DraftsRight

LEMMA StartDrafts ==
  ASSUME GridTypes, GridTypes', DraftsRight, NEW kind \in {"save", "delete", "sheet"}, NEW list \in Seq(Sent), Start(kind, list),
         count.next <= count'.next,
         \A q \in DOMAIN list : list[q].n < count.next,
         \A q \in DOMAIN list : list[q].verb = "create" =>
           /\ kind = "save" /\ \E i \in DOMAIN drafts : list[q].n = drafts[i]
           /\ \A p \in DOMAIN list : list[p].verb = "create" /\ list[p].n = list[q].n => p = q
  PROVE  DraftsRight'
<1>1. /\ jobs' \in Seq(Job) /\ Len(jobs') = Len(jobs) + 1
      /\ \A j \in 1 .. Len(jobs) : jobs'[j] = jobs[j]
      /\ jobs'[Len(jobs) + 1].todo = list /\ jobs'[Len(jobs) + 1].kind = kind
      /\ rough'.jobs <=> rough.jobs \/ jobs # <<>>
      /\ UNCHANGED <<db, rows, filter, shown, fetches, edits, drafts, staged, made>>
  BY StartIs DEF GridTypes
<1>2. DOMAIN jobs' = 1 .. Len(jobs) + 1 /\ DOMAIN jobs = 1 .. Len(jobs) /\ Len(jobs) \in Nat
  BY <1>1 DEF GridTypes
<1>3. \A j \in DOMAIN jobs' : (j \in DOMAIN jobs /\ jobs'[j] = jobs[j]) \/ j = Len(jobs) + 1
  BY <1>1, <1>2, OneMore
<1>4. Numbers'
  <2>1. ASSUME NEW j \in DOMAIN jobs', NEW q \in DOMAIN jobs'[j].todo
        PROVE  \/ \E i \in DOMAIN jobs : \E p \in DOMAIN jobs[i].todo : jobs'[j].todo[q] = jobs[i].todo[p]
               \/ jobs'[j].todo[q].n < count.next
    BY <1>1, <1>3
  <2> QED BY <1>1, <2>1, NumbersOn DEF DraftsRight
<1>5. ASSUME ~rough'.jobs PROVE Once'
  <2>1. Once /\ DOMAIN jobs = {} /\ made' = made /\ drafts' = drafts
    <3>1. jobs = <<>> /\ ~rough.jobs
      BY <1>1, <1>5
    <3> QED BY <1>1, <3>1 DEF DraftsRight
  <2>2. \A j \in DOMAIN jobs' : j = Len(jobs) + 1
    BY <1>3, <2>1
  <2>3. \A i \in DOMAIN drafts : drafts[i] \notin made.drafts
    BY <2>1 DEF Once
  <2>4. \A j \in DOMAIN jobs' : CreatesOnce(jobs'[j], made.drafts)
    BY <1>1, <2>2, <2>3 DEF CreatesOnce
  <2> QED BY <2>1, <2>2, <2>3, <2>4 DEF Once, CreatesOnce
<1> QED BY <1>4, <1>5 DEF DraftsRight

LEMMA SaveDrafts == ASSUME GridTypes, GridTypes', DraftsRight, saveAll PROVE DraftsRight'
<1>1. Saved \in Seq(Sent) /\ Start("save", Saved) /\ count.next <= count'.next
  BY SavedIs, GestureOn DEF saveAll, Saved
<1>2. /\ Len(drafts) \in Nat /\ DOMAIN drafts = 1 .. Len(drafts)
      /\ Len(edits) \in Nat /\ DOMAIN edits = 1 .. Len(edits)
  <2>1. edits \in Seq(Edit) /\ drafts \in Seq(Nat)
    BY DEF GridTypes
  <2> QED BY <2>1
<1>3. DOMAIN Saved = 1 .. Len(drafts) + Len(edits)
  <2>1. Saved \in Seq(Sent) /\ Len(Saved) = Len(drafts) + Len(edits)
    BY SavedIs
  <2> QED BY <2>1
<1>4. ASSUME NEW q \in DOMAIN Saved
      PROVE  \/ q \in DOMAIN drafts /\ Saved[q].verb = "create" /\ Saved[q].n = drafts[q]
             \/ Saved[q].verb # "create" /\ Saved[q].n = 0
  <2>1. CASE q \in 1 .. Len(drafts)
    <3>1. Saved[q] = Request("create", Null, NoData, drafts[q])
      BY <2>1, SavedIs
    <3> QED BY <1>2, <2>1, <3>1 DEF Request
  <2>2. CASE q \notin 1 .. Len(drafts)
    <3>1. q - Len(drafts) \in 1 .. Len(edits) /\ q = Len(drafts) + (q - Len(drafts))
      BY <1>2, <1>3, <2>2, SecondHalf
    <3>2. PICK i \in 1 .. Len(edits) : q = Len(drafts) + i
      BY <3>1
    <3>3. Saved[q] = Update(WhereFor(rows, edits[i].key), edits[i].data)
      BY <3>2, SavedIs
    <3> QED BY <3>3 DEF Update, Request
  <2> QED BY <2>1, <2>2
<1>5. PICK list \in Seq(Sent) : list = Saved
  BY <1>1
<1>6. \A q \in DOMAIN list : list[q].n < count.next
  BY <1>4, <1>5 DEF DraftsRight, Numbers
<1>7. \A q \in DOMAIN list : list[q].verb = "create" => \E i \in DOMAIN drafts : list[q].n = drafts[i]
  BY <1>4, <1>5
<1>8. \A p, q \in DOMAIN list : list[p].verb = "create" /\ list[q].verb = "create" /\ list[p].n = list[q].n => p = q
  BY <1>4, <1>5 DEF DraftsRight, Numbers
<1> QED BY <1>1, <1>5, <1>6, <1>7, <1>8, StartDrafts

LEMMA OtherJobDrafts == ASSUME GridTypes, GridTypes', DraftsRight, deleteRows \/ saveCell PROVE DraftsRight'
<1>0. \E kind \in {"delete", "sheet"} : \E list : /\ Start(kind, list)
                                                /\ \A q \in DOMAIN list : list[q].verb # "create" /\ list[q].n = 0
  <2>1. CASE deleteRows
    <3>1. PICK n, picked :
            Start("delete", [i \in 1 .. n |-> Request("delete", uniqueWhereFor(picked[i]), NoData, 0)])
      BY <2>1 DEF deleteRows
    <3>2. \A q \in DOMAIN [i \in 1 .. n |-> Request("delete", uniqueWhereFor(picked[i]), NoData, 0)] :
            LET r == [i \in 1 .. n |-> Request("delete", uniqueWhereFor(picked[i]), NoData, 0)][q] IN r.verb # "create" /\ r.n = 0
      BY DEF Request
    <3> QED BY <3>1, <3>2
  <2>2. CASE saveCell
    <3>1. PICK where, data : Start("sheet", <<Update(where, data)>>)
      BY <2>2 DEF saveCell
    <3>2. \A q \in DOMAIN <<Update(where, data)>> : <<Update(where, data)>>[q].verb # "create" /\ <<Update(where, data)>>[q].n = 0
      BY DEF Update, Request
    <3> QED BY <3>1, <3>2
  <2> QED BY <2>1, <2>2
<1>9. PICK kind \in {"delete", "sheet"} : \E list : /\ Start(kind, list)
                                                    /\ \A q \in DOMAIN list : list[q].verb # "create" /\ list[q].n = 0
  BY <1>0
<1>1. PICK list : /\ Start(kind, list)
                  /\ \A q \in DOMAIN list : list[q].verb # "create" /\ list[q].n = 0
  BY <1>9
<1>2. count.next <= count'.next
  BY GestureOn DEF deleteRows, saveCell
<1>3. jobs' = Append(jobs, [kind |-> kind, todo |-> list, filter |-> filter]) /\ jobs \in Seq(Job)
  BY <1>1 DEF Start, GridTypes
<1>4. list \in Seq(Sent)
  <2>1. jobs'[Len(jobs) + 1].todo = list /\ DOMAIN jobs' = 1 .. Len(jobs) + 1 /\ Len(jobs) + 1 \in 1 .. Len(jobs) + 1
    BY <1>3, AppendAny
  <2>2. jobs'[Len(jobs) + 1] \in Job
    BY <2>1 DEF GridTypes
  <2> QED BY <2>1, <2>2 DEF Job
<1>5. \A q \in DOMAIN list : list[q].n < count.next
  BY <1>1 DEF DraftsRight, Numbers
<1> QED BY <1>1, <1>2, <1>4, <1>5, StartDrafts

\* The requests left are some of those there were, and a draft is counted when it is created.
LEMMA WrittenNumbers ==
  ASSUME GridTypes, GridTypes', Numbers, NEW j \in DOMAIN jobs, jobs[j].todo # <<>>, Reaches(Head(jobs[j].todo)),
         count'.next = count.next + NewKeys(Head(jobs[j].todo)), UNCHANGED drafts,
         \A i \in DOMAIN jobs' : \A q \in DOMAIN jobs'[i].todo :
           \E n \in DOMAIN jobs : \E p \in DOMAIN jobs[n].todo : jobs'[i].todo[q] = jobs[n].todo[p]
  PROVE  Numbers'
<1> DEFINE r == Head(jobs[j].todo)
<1>1. r \in Sent /\ r = jobs[j].todo[1] /\ 1 \in DOMAIN jobs[j].todo
  BY HeadSent
<1>2. r.n < count.next
  BY <1>1 DEF Numbers
<1>3. count.next <= count'.next
  <2>1. NewKeys(r) \in {0, 1} /\ count.next \in Nat
    BY DEF NewKeys, GridTypes, Counts
  <2> QED BY <2>1, OneMore
<1> HIDE DEF r
<1>4. Reaches(r)
  BY DEF r
<1>5. r.verb \in {"create", "update", "delete"}
  BY <1>1 DEF Sent
<1>6. \A n \in made'.drafts : n \in made.drafts \/ n = r.n
  BY <1>1, <1>4, ReachesIs
<1> QED BY <1>2, <1>3, <1>6, NumbersOn

LEMMA SendDrafts == ASSUME GridTypes, GridTypes', DraftsRight, NEW j \in DOMAIN jobs, Send(j) PROVE DraftsRight'
<1> DEFINE r == Head(jobs[j].todo)
<1>1. jobs \in Seq(Job) /\ jobs[j].todo # <<>> /\ jobs' = [jobs EXCEPT ![j].todo = Tail(@)] /\ UNCHANGED <<drafts, rough>>
  BY DEF Send, GridTypes
<1>2. r \in Sent /\ Reaches(r) /\ count'.next = count.next + NewKeys(r)
  BY HeadSent, CountsOn DEF Send, GridTypes
<1>3. /\ DOMAIN jobs' = DOMAIN jobs
      /\ \A k \in DOMAIN jobs : jobs'[k].kind = jobs[k].kind /\ (k # j => jobs'[k] = jobs[k])
      /\ r = jobs[j].todo[1] /\ 1 \in DOMAIN jobs[j].todo
      /\ \A q \in DOMAIN jobs'[j].todo : q + 1 \in DOMAIN jobs[j].todo /\ jobs'[j].todo[q] = jobs[j].todo[q + 1]
  BY <1>1, SentIs
<1>4. Numbers'
  <2>1. ASSUME NEW i \in DOMAIN jobs', NEW q \in DOMAIN jobs'[i].todo
        PROVE  \E n \in DOMAIN jobs : \E p \in DOMAIN jobs[n].todo : jobs'[i].todo[q] = jobs[n].todo[p]
    BY <1>3
  <2> QED BY <1>1, <1>2, <2>1, WrittenNumbers DEF DraftsRight
<1>5. ASSUME ~rough.jobs PROVE Once'
  <2> HIDE DEF r
  <2>1. Once /\ CreatesOnce(jobs[j], made.drafts)
    BY <1>5 DEF DraftsRight, Once
  <2>2. r.verb = "create" => jobs[j].kind = "save" /\ r.n \notin made.drafts
    BY <1>3, <2>1 DEF CreatesOnce
  <2>3. r.verb \in {"create", "update", "delete"}
    BY <1>2 DEF Sent
  <2>4. IF r.verb = "create" THEN made'.drafts = made.drafts \cup {r.n} /\ made'.again = made.again ELSE made' = made
    BY <1>2, <2>2, ReachesIs
  <2>5. \A k \in DOMAIN jobs : k = j
    BY <2>1 DEF Once
  <2>6. CreatesOnce(jobs'[j], made'.drafts)
    <3> SUFFICES ASSUME NEW q \in DOMAIN jobs'[j].todo, jobs'[j].todo[q].verb = "create"
                 PROVE  /\ jobs'[j].kind = "save" /\ jobs'[j].todo[q].n \notin made'.drafts
                        /\ \A p \in DOMAIN jobs'[j].todo :
                             jobs'[j].todo[p].verb = "create" /\ jobs'[j].todo[p].n = jobs'[j].todo[q].n => p = q
      BY DEF CreatesOnce
    <3>1. \A p \in DOMAIN jobs'[j].todo : /\ p \in Nat /\ p + 1 # 1
                                          /\ p + 1 \in DOMAIN jobs[j].todo /\ jobs'[j].todo[p] = jobs[j].todo[p + 1]
      <4>1. jobs'[j] \in Job
        BY <1>3 DEF GridTypes
      <4>2. jobs'[j].todo \in Seq(Sent)
        BY <4>1 DEF Job
      <4>3. \A p \in DOMAIN jobs'[j].todo : p \in Nat /\ p # 0
        BY <4>2
      <4>4. \A p \in DOMAIN jobs'[j].todo : p + 1 # 1
        BY <4>3
      <4> QED BY <1>3, <4>3, <4>4
    <3>2. jobs'[j].kind = "save" /\ jobs'[j].todo[q].n \notin made.drafts
      BY <1>3, <2>1, <3>1 DEF CreatesOnce
    <3>3. r.verb = "create" => jobs'[j].todo[q].n # r.n
      BY <1>3, <2>1, <3>1 DEF CreatesOnce
    <3>4. ASSUME NEW p \in DOMAIN jobs'[j].todo, jobs'[j].todo[p].verb = "create", jobs'[j].todo[p].n = jobs'[j].todo[q].n
          PROVE  p = q
      <4>1. p + 1 = q + 1
        BY <2>1, <3>1, <3>4 DEF CreatesOnce
      <4>2. p \in Nat /\ q \in Nat
        BY <3>1
      <4> QED BY <4>1, <4>2
    <3> QED BY <2>4, <3>2, <3>3, <3>4
  <2>7. (\A k \in DOMAIN jobs' : jobs'[k].kind # "save") => \A i \in DOMAIN drafts' : drafts'[i] \notin made'.drafts
    BY <1>1, <1>3, <2>1, <2>2, <2>4 DEF Once
  <2>8. made'.again = {} /\ \A i, k \in DOMAIN jobs' : i = k
    BY <1>3, <2>1, <2>4 DEF Once
  <2>9. \A k \in DOMAIN jobs' : CreatesOnce(jobs'[k], made'.drafts)
    BY <1>3, <2>5, <2>6
  <2>10. \A k \in DOMAIN jobs' : CreatesOnce(jobs[k], made.drafts)'
    BY <2>9 DEF CreatesOnce
  <2> QED BY <2>7, <2>8, <2>10 DEF Once
<1> QED BY <1>1, <1>4, <1>5 DEF DraftsRight

LEMMA FinishDrafts == ASSUME GridTypes, GridTypes', DraftsRight, NEW j \in DOMAIN jobs, Finish(j) PROVE DraftsRight'
<1>1. /\ jobs' = RemoveAt(jobs, j) /\ rough'.jobs = rough.jobs /\ UNCHANGED <<count, made>> /\ jobs \in Seq(Job)
  BY FinishIs DEF GridTypes
<1>2. IF jobs[j].kind = "save" THEN edits' = <<>> /\ drafts' = <<>> ELSE UNCHANGED <<edits, drafts>>
  BY DEF Finish
<1>3. \A k \in DOMAIN jobs' : \E i \in DOMAIN jobs : jobs'[k] = jobs[i]
  BY <1>1, LeftIs
<1>4. Numbers'
  <2>1. drafts' \in {drafts, <<>>}
    BY <1>2
  <2>2. count.next <= count'.next
    BY <1>1, OneMore DEF GridTypes, Counts
  <2>3. \A i \in DOMAIN jobs' : \A q \in DOMAIN jobs'[i].todo :
          \E n \in DOMAIN jobs : \E p \in DOMAIN jobs[n].todo : jobs'[i].todo[q] = jobs[n].todo[p]
    BY <1>3
  <2> QED BY <1>1, <2>1, <2>2, <2>3, NumbersOn DEF DraftsRight
<1>5. ASSUME ~rough.jobs PROVE Once'
  <2>1. Once
    BY <1>5 DEF DraftsRight
  <2>2. DOMAIN jobs' = {}
    <3>1. DOMAIN jobs' = 1 .. Len(jobs) - 1 /\ DOMAIN jobs = 1 .. Len(jobs) /\ Len(jobs) \in Nat
      BY <1>1, LeftIs
    <3>2. ~(2 <= Len(jobs))
      <4>1. SUFFICES ASSUME 2 <= Len(jobs) PROVE FALSE
        OBVIOUS
      <4>2. 1 \in DOMAIN jobs /\ 2 \in DOMAIN jobs
        BY <3>1, <4>1
      <4> QED BY <2>1, <4>2 DEF Once
    <3> QED BY <3>1, <3>2
  <2>3. CASE jobs[j].kind = "save"
    <3>1. drafts' = <<>>
      BY <1>2, <2>3
    <3>2. DOMAIN drafts' = {}
      BY <3>1
    <3> QED BY <1>1, <2>1, <2>2, <3>2 DEF Once
  <2>4. CASE jobs[j].kind # "save"
    <3>1. drafts' = drafts
      BY <1>2, <2>4
    <3>2. \A i \in DOMAIN jobs : jobs[i].kind # "save"
      BY <2>1, <2>4 DEF Once
    <3> QED BY <1>1, <2>1, <2>2, <3>1, <3>2 DEF Once
  <2> QED BY <2>3, <2>4
<1> QED BY <1>1, <1>4, <1>5 DEF DraftsRight

LEMMA DraftsKept ==
  ASSUME GridTypes, GridTypes', DraftsRight, Next
  PROVE  DraftsRight'
<1>1. CASE TypeCell \/ Discard \/ ChangeFilter \/ Refresh
  <2>1. drafts' \in {drafts, <<>>} /\ UNCHANGED <<jobs, made>>
    BY <1>1 DEF TypeCell, Discard, ChangeFilter, Refresh, stage
  <2>2. PICK keys \in {0, 1} : Gesture(keys)
    BY <1>1 DEF TypeCell, Discard, ChangeFilter, Refresh
  <2>3. count.next <= count'.next
    BY <2>2, GestureOn
  <2>4. rough'.jobs = rough.jobs
    <3>1. CASE TypeCell \/ Discard
      BY <3>1 DEF TypeCell, Discard
    <3>2. CASE ChangeFilter \/ Refresh
      <4> DEFINE over == rough.answers \/ jobs # <<>>
      <4>1. PICK f, ends, after : after \in {rough, [rough EXCEPT !.answers = over]} /\ Fetch(f, ends, after)
        BY <3>2 DEF ChangeFilter, Refresh
      <4> DEFINE still == after.answers /\ (fetches # <<>> \/ jobs # <<>>)
      <4>2. rough' = [after EXCEPT !.answers = still]
        BY <4>1 DEF Fetch
      <4> HIDE DEF over, still
      <4> QED BY <4>1, <4>2 DEF GridTypes, Roughness
    <3> QED BY <1>1, <3>1, <3>2
  <2> QED BY <2>1, <2>3, <2>4, QuietDrafts
<1>2. CASE Draft
  BY <1>2, DraftDrafts
<1>3. CASE saveAll
  BY <1>3, SaveDrafts
<1>4. CASE deleteRows \/ saveCell
  BY <1>4, OtherJobDrafts
<1>5. ASSUME NEW j \in DOMAIN jobs, Send(j) PROVE DraftsRight'
  BY <1>5, SendDrafts
<1>6. ASSUME NEW j \in DOMAIN jobs, Refused(j) PROVE DraftsRight'
  <2>1. Stops(j) /\ UNCHANGED <<drafts, made>> /\ count.next <= count'.next
    <3>1. count' = count \/ Outside("fault", 0)
      BY <1>6 DEF Refused
    <3>2. count.next <= count.next
      BY OneMore DEF GridTypes, Counts
    <3> QED BY <1>6, <3>1, <3>2, OutsideOn DEF Refused, stage
  <2>2. rough'.jobs /\ \A k \in DOMAIN jobs' : \E i \in DOMAIN jobs : jobs'[k] = jobs[i]
    BY <2>1, StopsIs DEF GridTypes
  <2>3. \A i \in DOMAIN jobs' : \A q \in DOMAIN jobs'[i].todo :
          \E n \in DOMAIN jobs : \E p \in DOMAIN jobs[n].todo : jobs'[i].todo[q] = jobs[n].todo[p]
    BY <2>2
  <2>4. Numbers'
    BY <2>1, <2>3, NumbersOn DEF DraftsRight
  <2> QED BY <2>2, <2>4 DEF DraftsRight
<1>7. ASSUME NEW j \in DOMAIN jobs, AnswerLost(j) PROVE DraftsRight'
  <2>1. /\ jobs[j].todo # <<>> /\ Stops(j) /\ Reaches(Head(jobs[j].todo)) /\ UNCHANGED drafts
        /\ Outside("fault", NewKeys(Head(jobs[j].todo)))
    BY <1>7 DEF AnswerLost
  <2>2. count'.next = count.next + NewKeys(Head(jobs[j].todo))
    <3>1. NewKeys(Head(jobs[j].todo)) \in Nat
      BY DEF NewKeys
    <3> QED BY <2>1, <3>1, OutsideIs DEF GridTypes
  <2>3. rough'.jobs /\ \A k \in DOMAIN jobs' : \E i \in DOMAIN jobs : jobs'[k] = jobs[i]
    BY <2>1, StopsIs DEF GridTypes
  <2>4. \A i \in DOMAIN jobs' : \A q \in DOMAIN jobs'[i].todo :
          \E n \in DOMAIN jobs : \E p \in DOMAIN jobs[n].todo : jobs'[i].todo[q] = jobs[n].todo[p]
    BY <2>3
  <2>5. Numbers'
    BY <2>1, <2>2, <2>4, WrittenNumbers DEF DraftsRight
  <2> QED BY <2>3, <2>5 DEF DraftsRight
<1>8. ASSUME NEW j \in DOMAIN jobs, Finish(j) PROVE DraftsRight'
  BY <1>8, FinishDrafts
<1>9. ASSUME NEW k \in DOMAIN fetches, Read(k) \/ Arrive(k) \/ FetchFails(k) PROVE DraftsRight'
  <2>1. UNCHANGED <<drafts, jobs, made>>
    BY <1>9 DEF Read, Arrive, FetchFails, stage
  <2>2. count.next <= count'.next
    <3>1. count.next <= count.next
      BY OneMore DEF GridTypes, Counts
    <3> QED BY <1>9, <3>1, OutsideOn DEF Read, Arrive, FetchFails
  <2>3. rough'.jobs = rough.jobs
    <3>1. CASE Read(k)
      BY <3>1 DEF Read
    <3>2. CASE Arrive(k)
      BY <3>2, ArriveIs
    <3>3. CASE FetchFails(k)
      BY <3>3 DEF FetchFails, GridTypes, Roughness
    <3> QED BY <1>9, <3>1, <3>2, <3>3
  <2> QED BY <2>1, <2>2, <2>3, QuietDrafts
<1>10. CASE Others \/ Finished
  <2>1. UNCHANGED <<drafts, jobs, made, rough>>
    BY <1>10 DEF Others, Finished, vars, stage
  <2>2. count.next <= count'.next
    <3>1. count.next <= count.next
      BY OneMore DEF GridTypes, Counts
    <3> QED BY <1>10, <3>1, OutsideOn DEF Others, Finished, vars
  <2> QED BY <2>1, <2>2, QuietDrafts
<1> QED BY <1>1, <1>2, <1>3, <1>4, <1>5, <1>6, <1>7, <1>8, <1>9, <1>10 DEF Next

---------------------------------------------------------------------------
(* What is asked last is for the filter of the grid. *)

\* While no answer was overtaken or lost and no job asked with an old filter,
\* what is asked last is for the grid's filter and shows what was written.
AnswersRight ==
  ~rough.answers =>
    /\ \A j \in DOMAIN jobs : jobs[j].filter = filter
    /\ fetches # <<>> => fetches[Len(fetches)].filter = filter
    /\ fetches = <<>> => shown.filter = filter
    /\ jobs = <<>> => IF fetches = <<>> THEN ~shown.unseen ELSE fetches[Len(fetches)].fresh

LEMMA FetchAnswers ==
  ASSUME GridTypes, AnswersRight, NEW f \in Cell,
         fetches' \in Seq(Listing), Len(fetches') = Len(fetches) + 1,
         fetches'[Len(fetches) + 1].filter = f, fetches'[Len(fetches) + 1].fresh,
         ~rough'.answers => filter' = f /\ \A k \in DOMAIN jobs' : jobs'[k].filter = f
  PROVE  AnswersRight'
<1>1. Len(fetches) \in Nat
  BY DEF GridTypes
<1>2. fetches' # <<>> /\ fetches'[Len(fetches')].filter = f /\ fetches'[Len(fetches')].fresh
  BY <1>1
<1> QED BY <1>2 DEF AnswersRight

LEMMA StartAnswers ==
  ASSUME GridTypes, AnswersRight, NEW kind \in {"save", "delete", "sheet"}, NEW list \in Seq(Sent), Start(kind, list)
  PROVE  AnswersRight'
<1>1. /\ jobs' \in Seq(Job) /\ Len(jobs') = Len(jobs) + 1
      /\ \A j \in 1 .. Len(jobs) : jobs'[j] = jobs[j]
      /\ jobs'[Len(jobs) + 1].filter = filter
      /\ rough'.answers = rough.answers
      /\ UNCHANGED <<db, rows, filter, shown, fetches, edits, drafts, staged, made>>
  BY StartIs DEF GridTypes
<1>2. Len(jobs) \in Nat /\ DOMAIN jobs = 1 .. Len(jobs) /\ DOMAIN jobs' = 1 .. Len(jobs) + 1
  BY <1>1 DEF GridTypes
<1>3. jobs' # <<>>
  BY <1>1, <1>2
<1>4. ASSUME ~rough.answers, NEW j \in DOMAIN jobs' PROVE jobs'[j].filter = filter
  <2>1. j \in 1 .. Len(jobs) \/ j = Len(jobs) + 1
    BY <1>2, OneMore
  <2> QED BY <1>1, <1>2, <1>4, <2>1 DEF AnswersRight
<1> QED BY <1>1, <1>3, <1>4 DEF AnswersRight

LEMMA SendAnswers ==
  ASSUME GridTypes, GridTypes', AnswersRight, NEW j \in DOMAIN jobs, Send(j)
  PROVE  AnswersRight'
<1> DEFINE r == Head(jobs[j].todo)
<1>1. r \in Sent /\ Reaches(r) /\ UNCHANGED <<filter, rough>> /\ jobs' = [jobs EXCEPT ![j].todo = Tail(@)]
  BY HeadSent DEF Send
<1>2. /\ fetches' \in Seq(Listing) /\ Len(fetches') = Len(fetches)
      /\ \A k \in DOMAIN fetches : fetches'[k].filter = fetches[k].filter
      /\ shown'.filter = shown.filter
  BY <1>1, ReachesIs
<1> HIDE DEF r
<1>3. jobs \in Seq(Job) /\ jobs' \in Seq(Job) /\ Len(jobs) \in Nat
  BY DEF GridTypes
<1>4. DOMAIN jobs' = DOMAIN jobs /\ \A k \in DOMAIN jobs : jobs'[k].filter = jobs[k].filter
  <2>1. \A k \in DOMAIN jobs : jobs[k] \in Job
    BY <1>3
  <2> QED BY <1>1, <1>3, <2>1 DEF Job
<1>5. jobs' # <<>>
  BY <1>3, <1>4
<1>6. fetches \in Seq(Listing) /\ Len(fetches) \in Nat
  BY DEF GridTypes
<1>7. /\ fetches' = <<>> <=> fetches = <<>>
      /\ fetches # <<>> => fetches'[Len(fetches')].filter = fetches[Len(fetches)].filter
  BY <1>2, <1>6
<1> QED BY <1>1, <1>2, <1>4, <1>5, <1>7 DEF AnswersRight

LEMMA ArriveAnswers ==
  ASSUME GridTypes, AnswersRight, NEW k \in DOMAIN fetches, Arrive(k)
  PROVE  AnswersRight'
<1>1. /\ fetches \in Seq(Listing) /\ k \in 1 .. Len(fetches) /\ Len(fetches) \in Nat
      /\ fetches' = RemoveAt(fetches, k)
  BY ArriveIs DEF GridTypes
<1>2. /\ shown'.filter = fetches[k].filter
      /\ shown'.unseen => shown.unseen /\ ~fetches[k].fresh
      /\ rough'.answers <=> rough.answers \/ k > 1
      /\ UNCHANGED <<filter, jobs>>
  BY ArriveIs
<1>3. ASSUME ~rough'.answers
      PROVE  k = 1 /\ ~rough.answers
  BY <1>1, <1>2, <1>3
<1>4. /\ fetches' \in Seq(Listing) /\ Len(fetches') = Len(fetches) - 1
      /\ \A n \in 1 .. Len(fetches) - 1 : fetches'[n] = fetches[IF n < k THEN n ELSE n + 1]
  BY <1>1, RemovedIs
<1>7. Len(fetches) = 1 \/ Len(fetches) > 1
  <2>1. \A m \in Nat : \A n \in 1 .. m : m = 1 \/ m > 1
    OBVIOUS
  <2> QED BY <1>1, <2>1
<1>5. CASE Len(fetches) = 1
  <2>1. fetches' = <<>> /\ fetches # <<>> /\ k = Len(fetches)
    BY <1>1, <1>4, <1>5
  <2> QED BY <1>2, <1>3, <2>1 DEF AnswersRight
<1>6. CASE Len(fetches) > 1
  <2>1. fetches' # <<>> /\ fetches # <<>>
    BY <1>1, <1>4, <1>6
  <2>2. ASSUME k = 1 PROVE fetches'[Len(fetches')] = fetches[Len(fetches)]
    <3> DEFINE n == Len(fetches) - 1
    <3>1. n \in 1 .. Len(fetches) - 1 /\ Len(fetches') = n /\ n + 1 = Len(fetches) /\ ~(n < k)
      BY <1>1, <1>4, <1>6, <2>2
    <3>2. fetches'[n] = fetches[n + 1]
      BY <1>4, <3>1
    <3> QED BY <3>1, <3>2
  <2> QED BY <1>2, <1>3, <2>1, <2>2 DEF AnswersRight
<1> QED BY <1>5, <1>6, <1>7

LEMMA AnswersKept ==
  ASSUME GridTypes, GridTypes', AnswersRight, Next
  PROVE  AnswersRight'
<1>1. CASE TypeCell \/ Draft \/ Discard
  BY <1>1 DEF TypeCell, Draft, Discard, AnswersRight, grid
<1>2. CASE saveAll
  <2>1. Saved \in Seq(Sent) /\ Start("save", Saved)
    BY <1>2, SavedIs DEF saveAll, Saved
  <2> QED BY <2>1, StartAnswers
<1>3. CASE deleteRows \/ saveCell
  <2>1. \E kind \in {"delete", "sheet"} : \E list : Start(kind, list)
    BY <1>3 DEF deleteRows, saveCell
  <2>2. PICK kind \in {"delete", "sheet"} : \E list : Start(kind, list)
    BY <2>1
  <2>3. PICK list : Start(kind, list)
    BY <2>2
  <2>4. jobs' = Append(jobs, [kind |-> kind, todo |-> list, filter |-> filter]) /\ jobs \in Seq(Job) /\ jobs' \in Seq(Job)
    BY <2>3 DEF Start, GridTypes
  <2>5. list \in Seq(Sent)
    <3>1. jobs'[Len(jobs) + 1].todo = list /\ DOMAIN jobs' = 1 .. Len(jobs) + 1 /\ Len(jobs) + 1 \in 1 .. Len(jobs) + 1
      BY <2>4, AppendAny
    <3>2. jobs'[Len(jobs) + 1] \in Job
      BY <2>4, <3>1
    <3> QED BY <3>1, <3>2 DEF Job
  <2> QED BY <2>3, <2>5, StartAnswers
<1>4. CASE ChangeFilter
  <2> DEFINE over == rough.answers \/ jobs # <<>>
  <2>1. PICK f \in Cell : filter' = f /\ Fetch(f, FALSE, [rough EXCEPT !.answers = over])
    BY <1>4 DEF ChangeFilter, Cell
  <2>2. [rough EXCEPT !.answers = over] \in Roughness /\ ([rough EXCEPT !.answers = over].answers <=> over)
    <3>1. over \in BOOLEAN
      BY DEF GridTypes, Roughness
    <3> HIDE DEF over
    <3> QED BY <3>1 DEF GridTypes, Roughness
  <2> DEFINE after == [rough EXCEPT !.answers = over]
  <2>3. after \in Roughness /\ (after.answers <=> over) /\ Fetch(f, FALSE, after)
    BY <2>1, <2>2
  <2> HIDE DEF after
  <2>4. /\ fetches' \in Seq(Listing) /\ Len(fetches') = Len(fetches) + 1
        /\ fetches'[Len(fetches) + 1].filter = f /\ fetches'[Len(fetches) + 1].fresh
        /\ rough'.answers <=> after.answers /\ (fetches # <<>> \/ jobs # <<>>)
    BY <2>3, FetchIs DEF GridTypes
  <2>5. jobs' = jobs
    BY <1>4 DEF ChangeFilter
  <2>6. ASSUME ~rough'.answers PROVE DOMAIN jobs' = {}
    <3>1. jobs = <<>>
      BY <2>3, <2>4, <2>6
    <3> QED BY <2>5, <3>1
  <2> QED BY <2>1, <2>4, <2>6, FetchAnswers
<1>5. CASE Refresh
  <2>1. Fetch(filter, FALSE, rough) /\ UNCHANGED <<filter, jobs>> /\ filter \in Cell /\ rough \in Roughness
    BY <1>5 DEF Refresh, grid, GridTypes
  <2>2. /\ fetches' \in Seq(Listing) /\ Len(fetches') = Len(fetches) + 1
        /\ fetches'[Len(fetches) + 1].filter = filter /\ fetches'[Len(fetches) + 1].fresh
        /\ rough'.answers <=> rough.answers /\ (fetches # <<>> \/ jobs # <<>>)
    BY <2>1, FetchIs DEF GridTypes
  <2>3. ASSUME ~rough'.answers, NEW k \in DOMAIN jobs' PROVE jobs'[k].filter = filter
    <3>1. jobs # <<>>
      BY <2>1, <2>3
    <3> QED BY <2>1, <2>2, <2>3, <3>1 DEF AnswersRight
  <2> QED BY <2>1, <2>2, <2>3, FetchAnswers
<1>6. ASSUME NEW j \in DOMAIN jobs, Send(j) PROVE AnswersRight'
  BY <1>6, SendAnswers
<1>7. ASSUME NEW j \in DOMAIN jobs, Refused(j) \/ AnswerLost(j) PROVE AnswersRight'
  <2>1. Stops(j)
    BY <1>7 DEF Refused, AnswerLost
  <2> QED BY <2>1 DEF Stops, AnswersRight
<1>8. ASSUME NEW j \in DOMAIN jobs, Finish(j) PROVE AnswersRight'
  <2>1. /\ jobs' = RemoveAt(jobs, j) /\ jobs[j] \in Job
        /\ fetches' \in Seq(Listing) /\ Len(fetches') = Len(fetches) + 1
        /\ fetches'[Len(fetches) + 1].filter = jobs[j].filter /\ fetches'[Len(fetches) + 1].fresh
        /\ rough'.answers = rough.answers /\ UNCHANGED filter
    BY <1>8, FinishIs
  <2>2. jobs[j].filter \in Cell
    BY <2>1 DEF Job
  <2>3. jobs \in Seq(Job) /\ j \in 1 .. Len(jobs)
    BY DEF GridTypes
  <2>4. \A k \in DOMAIN jobs' : \E i \in DOMAIN jobs : jobs'[k] = jobs[i]
    BY <2>1, <2>3, LeftIs
  <2>5. ~rough'.answers => filter' = jobs[j].filter /\ \A k \in DOMAIN jobs' : jobs'[k].filter = jobs[j].filter
    BY <2>1, <2>4 DEF AnswersRight
  <2> QED BY <2>1, <2>2, <2>5, FetchAnswers
<1>9. ASSUME NEW k \in DOMAIN fetches, Read(k) PROVE AnswersRight'
  <2>1. /\ fetches' \in Seq(Listing) /\ Len(fetches') = Len(fetches)
        /\ \A n \in DOMAIN fetches : fetches'[n].filter = fetches[n].filter /\ fetches'[n].fresh = fetches[n].fresh
        /\ UNCHANGED <<filter, shown, jobs, rough>>
    BY <1>9, ReadIs
  <2>2. fetches \in Seq(Listing) /\ Len(fetches) \in Nat
    BY DEF GridTypes
  <2>3. /\ fetches' = <<>> <=> fetches = <<>>
        /\ fetches # <<>> => /\ fetches'[Len(fetches')].filter = fetches[Len(fetches)].filter
                             /\ fetches'[Len(fetches')].fresh = fetches[Len(fetches)].fresh
    BY <2>1, <2>2
  <2> QED BY <2>1, <2>3 DEF AnswersRight
<1>10. ASSUME NEW k \in DOMAIN fetches, Arrive(k) PROVE AnswersRight'
  BY <1>10, ArriveAnswers
<1>11. ASSUME NEW k \in DOMAIN fetches, FetchFails(k) PROVE AnswersRight'
  <2>1. rough'.answers
    BY <1>11 DEF FetchFails, GridTypes, Roughness
  <2> QED BY <2>1 DEF AnswersRight
<1>12. CASE Others
  BY <1>12 DEF Others, AnswersRight, grid
<1>13. CASE Finished
  BY <1>13 DEF Finished, AnswersRight, grid, vars
<1> QED BY <1>1, <1>2, <1>3, <1>4, <1>5, <1>6, <1>7, <1>8, <1>9, <1>10, <1>11, <1>12, <1>13 DEF Next

---------------------------------------------------------------------------
(* The invariant, and the theorem. *)

GridInv ==
  /\ GridTypes /\ StagedRight /\ DraftsRight /\ AnswersRight
  /\ \E own \in [Nat -> Nat] : Owners(own)

LEMMA GridFromTheStart == ASSUME WellFormed, Init PROVE GridInv
<1>1. PICK v \in Values, w \in Values, id \in {2, Null} : db = {[oid |-> 1, id |-> 1, val |-> v], [oid |-> 2, id |-> id, val |-> w]}
  BY DEF Init
<1>2. /\ rows = db /\ filter = Null /\ fetches = <<>> /\ edits = <<>> /\ drafts = <<>> /\ jobs = <<>>
      /\ count = [next |-> 3, events |-> 0, outside |-> {}] /\ staged = {}
      /\ shown = [filter |-> Null, unseen |-> FALSE] /\ made = [drafts |-> {}, again |-> {}]
      /\ rough = [jobs |-> FALSE, answers |-> FALSE]
  BY DEF Init, handleListRows
<1>3. db \in SUBSET Row
  BY <1>1 DEF Row, Cell
<1>4. GridTypes
  BY <1>2, <1>3 DEF GridTypes, Cell, Counts, Roughness
<1>5. DOMAIN fetches = {} /\ DOMAIN edits = {} /\ DOMAIN drafts = {} /\ DOMAIN jobs = {}
  BY <1>2
<1>6. StagedRight
  BY <1>2, <1>5 DEF StagedRight, DistinctKeys, SavesCover
<1>7. DraftsRight
  BY <1>2, <1>5 DEF DraftsRight, Numbers, Once
<1>8. AnswersRight
  BY <1>2, <1>5 DEF AnswersRight
<1>9. \E own \in [Nat -> Nat] : Owners(own)
  <2> DEFINE own == [n \in Nat |-> n]
  <2>1. own \in [Nat -> Nat] /\ own[1] = 1 /\ own[2] = 2
    OBVIOUS
  <2> HIDE DEF own
  <2>2. \A row \in db : OwnsRow(own, 3, row)
    BY <1>1, <2>1 DEF OwnsRow, WellFormed
  <2>3. Owners(own)
    BY <1>2, <1>5, <2>2 DEF Owners
  <2> QED BY <2>1, <2>3
<1> QED BY <1>4, <1>6, <1>7, <1>8, <1>9 DEF GridInv

LEMMA GridGoesOn == ASSUME WellFormed, GridInv, [Next]_vars PROVE GridInv'
<1>1. CASE Next
  <2>1. GridTypes /\ StagedRight /\ DraftsRight /\ AnswersRight /\ DistinctKeys
    BY DEF GridInv, StagedRight
  <2>2. PICK own \in [Nat -> Nat] : Owners(own)
    BY DEF GridInv
  <2>3. GridTypes'
    BY <1>1, <2>1, TypesKept
  <2>4. \E more \in [Nat -> Nat] : Owners(more)'
    BY <1>1, <2>1, <2>2, <2>3, OwnersKept
  <2>5. StagedRight'
    BY <1>1, <2>1, <2>2, StagedKept
  <2>6. DraftsRight'
    BY <1>1, <2>1, <2>3, DraftsKept
  <2>7. AnswersRight'
    BY <1>1, <2>1, <2>3, AnswersKept
  <2> QED BY <2>3, <2>4, <2>5, <2>6, <2>7 DEF GridInv
<1>2. CASE UNCHANGED vars
  <2>1. PICK own \in [Nat -> Nat] : Owners(own)
    BY DEF GridInv
  <2>2. UNCHANGED <<db, rows, filter, shown, fetches, edits, drafts, staged, jobs, saving, count, made, rough>>
    BY <1>2 DEF vars, grid, stage
  <2>3. Owners(own)'
    BY <2>1, <2>2 DEF Owners
  <2>4. GridTypes' /\ AnswersRight'
    BY <2>2 DEF GridInv, GridTypes, AnswersRight
  <2>5. StagedRight'
    BY <2>2 DEF GridInv, StagedRight, DistinctKeys, Held, SavesCover, Covers
  <2>6. DraftsRight'
    BY <2>2 DEF GridInv, DraftsRight, Numbers, Once, CreatesOnce
  <2> QED BY <2>1, <2>3, <2>4, <2>5, <2>6 DEF GridInv
<1> QED BY <1>1, <1>2

LEMMA GridIsRight == ASSUME GridInv PROVE StagedIsKept /\ DraftsMadeOnce /\ ShownIsCurrent
<1>1. StagedIsKept
  BY DEF GridInv, StagedRight, Held, StagedIsKept
<1>2. DraftsMadeOnce
  BY DEF GridInv, DraftsRight, Once, DraftsMadeOnce
<1>3. ASSUME jobs = <<>>, fetches = <<>>, ~rough.answers PROVE shown = [filter |-> filter, unseen |-> FALSE]
  <2>1. shown.filter = filter /\ ~shown.unseen
    BY <1>3 DEF GridInv, AnswersRight
  <2>2. shown \in [filter : Cell, unseen : BOOLEAN]
    BY DEF GridInv, GridTypes
  <2>3. shown.unseen = FALSE
    BY <2>1, <2>2
  <2> QED BY <2>1, <2>2, <2>3
<1> QED BY <1>1, <1>2, <1>3 DEF ShownIsCurrent

\* A cell or row that was staged while no job ran stays staged until it is
\* written or discarded, a draft becomes one row, and at rest the rows shown are
\* those of the filter: for any values, gestures, jobs and list requests.
THEOREM GridIsAlwaysRight == ASSUME WellFormed PROVE Spec => [](StagedIsKept /\ DraftsMadeOnce /\ ShownIsCurrent)
<1>1. Init => GridInv
  BY GridFromTheStart
<1>2. GridInv /\ [Next]_vars => GridInv'
  BY GridGoesOn
<1>3. GridInv => StagedIsKept /\ DraftsMadeOnce /\ ShownIsCurrent
  BY GridIsRight
<1> QED BY <1>1, <1>2, <1>3, PTL DEF Spec
=============================================================================
