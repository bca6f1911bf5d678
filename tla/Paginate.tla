------------------------------ MODULE Paginate ------------------------------
(***************************************************************************)
(* Keyset pagination: a caller walks over a table by the cursors of         *)
(* paginate while others insert, move and delete rows.  Rows are ordered by *)
(* one column and, as a tiebreaker, the primary key; a page is one query of *)
(* take + 1 rows, and a page before a cursor takes a second one to learn    *)
(* whether rows follow it.                                                  *)
(***************************************************************************)
EXTENDS Naturals, Sequences, FiniteSets, SequencesExt

CONSTANTS
  Ids,        \* primary keys, natural numbers
  Ranks,      \* values of the order column, natural numbers
  Grain,      \* what the driver tells apart: 1 every value, 2 every other one
  Takes,      \* page sizes
  NoRow, None,
  MaxWrites   \* bound: writes by others

\* Keys and values are numbers, pages are not empty, and the marks are neither.
WellFormed ==
  /\ Ids \subseteq Nat /\ Ranks \subseteq Nat /\ Takes \subseteq Nat \ {0}
  /\ NoRow \notin Ranks /\ None \notin [rank : Nat, id : Nat]

VARIABLES
  rank,       \* id -> the order column of its row, or NoRow
  descending, take,
  request,    \* after, before: cursors or None
  pc,         \* "ask", "probe" (rows read, probe to come), "page"
  page,       \* what paginate returned last
  start,      \* where the walk in one direction started (history)
  visited,    \* the rows of its pages, as they were read (history)
  steady,     \* the ids nobody has written since (history)
  quiet,      \* nobody has written since the request (history)
  writes

vars == <<rank, descending, take, request, pc, page, start, visited, steady, quiet, writes>>
walk == <<start, visited, steady>>

Row(id) == [rank |-> rank[id], id |-> id]
Rows == {Row(id) : id \in {i \in Ids : rank[i] # NoRow}}

\* The order of resolveOrderSpec: every column in one direction, the key last.
Less(a, b) == a.rank < b.rank \/ (a.rank = b.rank /\ a.id < b.id)
Precedes(a, b) == IF descending THEN Less(b, a) ELSE Less(a, b)

\* A value as JavaScript has it: a timestamp loses what is finer than a millisecond.
Cursor(row) == [row EXCEPT !.rank = @ - (@ % Grain)]

\* Mutant: the cursor names its value only.
WithinRank(after, before) ==
  {row \in Rows : /\ after = None \/ (IF descending THEN row.rank < after.rank ELSE row.rank > after.rank)
                  /\ before = None \/ Precedes(row, before)}

\* compileCursorWhere: (columns) > (cursor), merged with the other bound.
Within(after, before) ==
  {row \in Rows : (after = None \/ Precedes(after, row)) /\ (before = None \/ Precedes(row, before))}

Backward == request.before # None /\ request.after = None
Found == Within(request.after, request.before)

\* ORDER BY, flipped for a page before a cursor.
Sooner(a, b) == IF Backward THEN Precedes(b, a) ELSE Precedes(a, b)

\* LIMIT take + 1: the answers, of which there is one.
Fetched ==
  {rows \in UNION {[1 .. n -> Found] : n \in 0 .. take + 1} :
     /\ \A i, j \in DOMAIN rows : i < j => Sooner(rows[i], rows[j])
     /\ \A row \in Found : (\E i \in DOMAIN rows : rows[i] = row) \/
          (Len(rows) = take + 1 /\ \A i \in DOMAIN rows : Sooner(rows[i], row))}

Empty == [items |-> <<>>, hasMore |-> FALSE, hasPrevious |-> FALSE]

\* The page without the extra row, in the caller's order.
Page(rows) ==
  LET extra == Len(rows) > take
      items == SubSeq(rows, 1, IF extra THEN take ELSE Len(rows))
  IN IF items = <<>> THEN Empty
     ELSE [items |-> IF Backward THEN Reverse(items) ELSE items,
           hasMore |-> extra, hasPrevious |-> IF Backward THEN extra ELSE request.after # None]

nextCursor == IF page.hasMore THEN Cursor(Last(page.items)) ELSE None
prevCursor == IF page.hasPrevious THEN Cursor(Head(page.items)) ELSE None
---------------------------------------------------------------------------
Init ==
  /\ rank \in [Ids -> Ranks \cup {NoRow}]
  /\ descending \in BOOLEAN /\ take \in Takes
  /\ LET cursors == {None} \cup {Cursor(row) : row \in [rank : Ranks, id : Ids]}
     IN request \in [after : cursors, before : cursors]
  /\ start = IF Backward THEN request.before ELSE request.after
  /\ pc = "ask" /\ page = Empty
  /\ visited = <<>> /\ steady = Ids /\ quiet = TRUE /\ writes = 0

Visit(items) == visited' = IF Backward THEN items \o visited ELSE visited \o items

\* paginate up to its first query.
Ask ==
  /\ pc = "ask"
  /\ \E rows \in Fetched :
       /\ page' = Page(rows) /\ Visit(Page(rows).items)
       /\ pc' = IF Backward /\ rows # <<>> THEN "probe" ELSE "page"
  /\ UNCHANGED <<rank, descending, take, request, start, steady, quiet, writes>>

\* Mutant: what was asked before is still to come.
AssumeMore ==
  /\ pc = "probe"
  /\ page' = [page EXCEPT !.hasMore = TRUE]
  /\ pc' = "page"
  /\ UNCHANGED <<rank, descending, take, request, start, visited, steady, quiet, writes>>

\* buildExistsQuery after the last row of a page before a cursor.
Probe ==
  /\ pc = "probe"
  /\ page' = [page EXCEPT !.hasMore = Within(Cursor(Last(page.items)), None) # {}]
  /\ pc' = "page"
  /\ UNCHANGED <<rank, descending, take, request, start, visited, steady, quiet, writes>>

Request(after, before) == request' = [after |-> after, before |-> before] /\ pc' = "ask" /\ quiet' = TRUE
\* The first request of a walk in the other direction.
Turn(from) == start' = from /\ visited' = <<>> /\ steady' = Ids

\* The caller asks for the next page; the far bound of a window goes along.
NextPage ==
  /\ pc = "page" /\ nextCursor # None
  /\ IF Backward THEN Request(nextCursor, None) /\ Turn(nextCursor) ELSE Request(nextCursor, request.before) /\ UNCHANGED walk
  /\ UNCHANGED <<rank, descending, take, page, writes>>

\* The caller asks for the page before.
PreviousPage ==
  /\ pc = "page" /\ prevCursor # None
  /\ Request(None, prevCursor)
  /\ IF Backward THEN UNCHANGED walk ELSE Turn(prevCursor)
  /\ UNCHANGED <<rank, descending, take, page, writes>>

\* Someone else inserts, moves or deletes a row.
Disturb(id) ==
  /\ writes < MaxWrites /\ writes' = writes + 1
  /\ \E value \in (Ranks \cup {NoRow}) \ {rank[id]} : rank' = [rank EXCEPT ![id] = value]
  /\ steady' = steady \ {id} /\ quiet' = FALSE
  /\ UNCHANGED <<descending, take, request, pc, page, start, visited>>

\* The last page, or no row left to ask about.
Finished == pc = "page" /\ nextCursor = None /\ prevCursor = None /\ UNCHANGED vars

Next == Finished \/ Ask \/ Probe \/ NextPage \/ PreviousPage \/ \E id \in Ids : Disturb(id)

Spec == Init /\ [][Next]_vars
---------------------------------------------------------------------------
(* Properties. *)

\* Where the walk has come to: the edge of its last page, or None at the end.
Reached == IF Backward THEN prevCursor ELSE nextCursor
Far == IF Backward THEN None ELSE request.before

\* The rows the walk has passed: from its start to the edge of the last page.
Passed ==
  {row \in IF Backward THEN Within(None, start) ELSE Within(start, Far) :
    Reached # None => row = Reached \/ (IF Backward THEN Precedes(Reached, row) ELSE Precedes(row, Reached))}

\* Whatever the others write, a walk by cursors in one direction visits each row
\* nobody wrote exactly once and in order, and leaves out none that it passed.
WalkVisitsOnce ==
  pc = "page" =>
    /\ \A i, j \in DOMAIN visited :
         i < j /\ {visited[i].id, visited[j].id} \subseteq steady => Precedes(visited[i], visited[j])
    /\ {row \in ToSet(visited) : row.id \in steady} = {row \in Passed : row.id \in steady}

\* On a page nobody wrote behind, hasMore says whether a row follows, and
\* hasPrevious misses no row that goes before; the first page after a cursor
\* always says there are some.
FlagsAreTrue ==
  pc = "page" /\ quiet /\ page.items # <<>> =>
    /\ page.hasMore <=> Within(Last(page.items), Far) # {}
    /\ Within(None, Head(page.items)) # {} => page.hasPrevious \/ (~Backward /\ start = None)
    /\ Backward /\ page.hasPrevious => Within(None, Head(page.items)) # {}
=============================================================================
