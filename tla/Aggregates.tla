----------------------------- MODULE Aggregates -----------------------------
(***************************************************************************)
(* aggregate, groupBy and count.  A call is compiled to a text with         *)
(* placeholders, numbered on through WHERE and HAVING, which is kept under  *)
(* a key; the database answers rows of aliased cells, as numbers or as text *)
(* as its driver does, and they are parsed back into the shape asked for.   *)
(***************************************************************************)
EXTENDS Naturals, Sequences, FiniteSets, SequencesExt, FiniteSetsExt

CONSTANTS
  Tables,      \* what the table may hold: sequences of rows [a, n], of numbers and NULL
  Calls,       \* the calls made
  Null, None,
  MaxCalls     \* bound

VARIABLES
  dialect, table,
  cache,       \* texts kept by the table's index: [key, text]
  call,        \* the call that was made last, or None
  answer,      \* what it answered
  calls

vars == <<dialect, table, cache, call, answer, calls>>

Fields == {"sum", "max"}

Never == [op |-> "never", slots |-> 0, first |-> 0]
Always == [op |-> "always", slots |-> 0, first |-> 0]
---------------------------------------------------------------------------
(* Compilation.  Placeholders are numbered, or told by their place in the   *)
(* text on MySQL; a parameter is a list of values, of one for a comparison. *)

Numbered == dialect # "mysql"

\* compileWhere for the filters used here: no filter, a = value, an impossible one.
compileWhere(where) ==
  CASE where.kind = "any" -> [sql |-> "", params |-> <<>>]
    [] where.kind = "equals" -> [sql |-> "a", params |-> <<<<where.value>>>>]
    [] where.kind = "never" -> [sql |-> "1=0", params |-> <<>>]

\* True is "*", a map the columns it names.
hasStarCount(c) == c.count \cap {"*", "_all"} # {}
\* requireStarCount, requireCountMapField and requireSelectedFieldAgg.
Selected(c, agg) ==
  IF agg.fn # "count" THEN agg.col \in c.fields[agg.fn]
  ELSE IF agg.col \in {"*", "_all"} THEN hasStarCount(c)
  ELSE agg.col \in c.count

\* compileHavingCompare: an empty list is decided here, MySQL takes a placeholder
\* for each value of a list and the others one for the list.
compileHavingCompare(h, next) ==
  LET list == h.op \in {"in", "notIn"}
      params == IF list /\ ~Numbered THEN [i \in DOMAIN h.values |-> <<h.values[i]>>] ELSE <<h.values>>
      sql == [fn |-> h.fn, col |-> h.col, op |-> h.op, slots |-> Len(params), first |-> IF Numbered THEN next ELSE 0]
  IN IF list /\ h.values = <<>>
     THEN [sql |-> IF h.op = "in" THEN Never ELSE Always, params |-> <<>>]
     ELSE [sql |-> sql, params |-> params]

compileHaving(c, start) ==
  FoldLeft(LAMBDA done, h :
             LET one == compileHavingCompare(h, start + Len(done.params))
             IN [sql |-> Append(done.sql, one.sql), params |-> done.params \o one.params],
           [sql |-> <<>>, params |-> <<>>], c.having)

HavingRefused(c) == \E i \in DOMAIN c.having : ~Selected(c, c.having[i])
HavingImpossible(c) == \E i \in DOMAIN c.having : c.having[i].op = "in" /\ c.having[i].values = <<>>

\* compileGroupByOrderBy: by a column of the group, or by what is selected.
OrderRefused(c) ==
  \E i \in DOMAIN c.order :
    IF c.order[i].fn = "by" THEN c.order[i].col \notin Range(c.by) ELSE ~Selected(c, c.order[i])

\* The names the cells of an answer have.
Alias(fn, col) == <<fn, IF fn = "count" /\ col = "_all" THEN "all" ELSE col>>

\* aggregateSelectParts.
aggregateSelectParts(c) ==
  {[fn |-> "count", col |-> col, as |-> Alias("count", col)] : col \in c.count}
  \cup UNION {{[fn |-> f, col |-> col, as |-> Alias(f, col)] : col \in c.fields[f]} : f \in Fields}

\* buildAggregateQuery and buildGroupByQuery.  The columns of the group are
\* selected with the quotes of PostgreSQL whatever the dialect is.
BuildQuery(c, where, having) ==
  [parts |-> aggregateSelectParts(c), by |-> c.by, quotes |-> "postgres", where |-> where, having |-> having,
   order |-> c.order, take |-> c.take, skip |-> c.skip]

aggregateSelectorCacheKey(c) == [count |-> c.count, fields |-> c.fields]

\* Mutant: without the text of HAVING.
CacheKeyWithoutHaving(c, where, having) ==
  <<aggregateSelectorCacheKey(c), c.by, where, c.order, c.take, c.skip>>

\* getCachedAggregateQuery and getCachedGroupByQuery.
CacheKey(c, where, having) ==
  <<aggregateSelectorCacheKey(c), c.by, where, having, c.order, c.take, c.skip>>
---------------------------------------------------------------------------
(* The database. *)

Cell(as, n) == [as |-> as, n |-> n]
NullCell == Cell("null", 0)

NonNull(col, rows) == {i \in rows : table[i][col] # Null}

\* The value of COUNT, SUM or MAX over rows of the table (their places).
Value(fn, col, rows) ==
  IF fn = "count" THEN IF col \in {"*", "_all"} THEN Cardinality(rows) ELSE Cardinality(NonNull(col, rows))
  ELSE LET some == NonNull(col, rows)
       IN IF some = {} THEN Null
          ELSE IF fn = "sum" THEN FoldSet(LAMBDA i, sum : sum + table[i][col], 0, some)
          ELSE Max({table[i][col] : i \in some})

\* A sum is a numeric or a bigint on PostgreSQL and a decimal on MySQL, which
\* drivers give as text; a count was cast to int.
AsRead(fn, value) ==
  IF value = Null THEN NullCell ELSE Cell(IF fn = "sum" /\ dialect # "sqlite" THEN "text" ELSE "number", value)

WhereHolds(sql, row, params) ==
  CASE sql = "" -> TRUE
    [] sql = "a" -> row.a # Null /\ row.a = params[1][1]
    [] sql = "1=0" -> FALSE

\* What a condition of HAVING compares with: its placeholders, by number or by place.
Bound(text, k, params) ==
  LET cond == text.having[k]
      placeholders == FoldLeft(LAMBDA sum, h : sum + h.slots, 0, SubSeq(text.having, 1, k - 1))
      first == IF Numbered THEN cond.first ELSE 1 + (IF text.where = "a" THEN 1 ELSE 0) + placeholders
  IN FlattenSeq([i \in 1 .. cond.slots |-> params[first + i - 1]])

Compares(op, value, values) ==
  value # Null /\ CASE op = "equals" -> value = values[1]
                    [] op = "gt" -> value > values[1]
                    [] op = "lte" -> value <= values[1]
                    [] op = "in" -> value \in Range(values)
                    [] op = "notIn" -> value \notin Range(values)

HavingHolds(text, rows, params) ==
  \A k \in DOMAIN text.having :
    LET cond == text.having[k]
    IN CASE cond.op = "never" -> FALSE
         [] cond.op = "always" -> TRUE
         [] OTHER -> Compares(cond.op, Value(cond.fn, cond.col, rows), Bound(text, k, params))

KeyOf(by, i) == [k \in DOMAIN by |-> table[i][by[k]]]

\* The groups of those rows: one, even of no rows, if there is nothing to group by.
Groups(by, rows) ==
  IF by = <<>> THEN {rows} ELSE {{j \in rows : KeyOf(by, j) = KeyOf(by, i)} : i \in rows}

SortValue(o, rows) == IF o.fn = "by" THEN table[Min(rows)][o.col] ELSE Value(o.fn, o.col, rows)

\* NULL is the largest value on PostgreSQL and the smallest elsewhere.
Less(x, y) ==
  IF x = Null \/ y = Null THEN x # y /\ (IF dialect = "postgres" THEN y = Null ELSE x = Null) ELSE x < y

\* Whether one group comes before another by the first k entries of ORDER BY.
Before(order, g, h) ==
  \E k \in DOMAIN order :
    /\ \A j \in 1 .. k - 1 : SortValue(order[j], g) = SortValue(order[j], h)
    /\ LET x == SortValue(order[k], g) y == SortValue(order[k], h)
       IN IF order[k].desc THEN Less(y, x) ELSE Less(x, y)

Sorted(groups, order) ==
  {s \in SetToSeqs(groups) : \A i, j \in DOMAIN s : i < j => ~Before(order, s[j], s[i])}

Window(s, take, skip) ==
  LET rest == IF skip = None THEN s ELSE SubSeq(s, skip + 1, Len(s))
  IN IF take = None THEN rest ELSE SubSeq(rest, 1, IF take < Len(rest) THEN take ELSE Len(rest))

\* A row of the answer.  Where double quotes make a string, a column in them is its name.
RowRead(text, rows) ==
  [by |-> [k \in DOMAIN text.by |->
             LET value == table[Min(rows)][text.by[k]]
             IN IF dialect = "mysql" /\ text.quotes = "postgres" THEN Cell("string", 0)
                ELSE IF value = Null THEN NullCell ELSE Cell("number", value)],
   cells |-> [as \in {p.as : p \in text.parts} |->
                LET p == CHOOSE q \in text.parts : q.as = as IN AsRead(p.fn, Value(p.fn, p.col, rows))]]

\* The answers the database may give: ties come in any order.
Executed(text, params) ==
  LET rows == {i \in DOMAIN table : WhereHolds(text.where, table[i], params)}
      kept == {g \in Groups(text.by, rows) : HavingHolds(text, g, params)}
  IN {[i \in DOMAIN w |-> RowRead(text, w[i])] : w \in {Window(s, text.take, text.skip) : s \in Sorted(kept, text.order)}}

\* OFFSET without LIMIT is no SQL of MySQL and SQLite.
SyntaxError(text) == dialect # "postgres" /\ text.skip # None /\ text.take = None
---------------------------------------------------------------------------
(* Answers. *)

coerceAggregateNumber(cell) == IF cell.as = "text" THEN Cell("number", cell.n) ELSE cell

\* Mutant: what is no count is given as the driver read it.
parseAsRead(c, row) ==
  [by |-> row.by,
   count |-> [col \in c.count |-> row.cells[Alias("count", col)]],
   fields |-> [f \in Fields |-> [col \in c.fields[f] |-> row.cells[Alias(f, col)]]]]

parseAggregateRow(c, row) ==
  [by |-> row.by,
   count |-> [col \in c.count |-> row.cells[Alias("count", col)]],
   fields |-> [f \in Fields |-> [col \in c.fields[f] |-> coerceAggregateNumber(row.cells[Alias(f, col)])]]]

Rows(rows) == [status |-> "rows", rows |-> rows]
Refused == [status |-> "refused", rows |-> <<>>]
Failed == [status |-> "failed", rows |-> <<>>]

\* The text of a call is the one kept under its key, or a new one, kept.
Query(c, where, having, params) ==
  LET key == CacheKey(c, where, having)
      kept == {e \in cache : e.key = key}
      text == IF kept # {} THEN (CHOOSE e \in kept : TRUE).text ELSE BuildQuery(c, where, having)
  IN /\ cache' = cache \cup {[key |-> key, text |-> text]}
     /\ IF SyntaxError(text) THEN answer' = Failed
        ELSE \E rows \in Executed(text, params) : answer' = Rows([i \in DOMAIN rows |-> parseAggregateRow(c, rows[i])])

Init ==
  /\ dialect \in {"postgres", "mysql", "sqlite"} /\ table \in Tables
  /\ cache = {} /\ call = None /\ answer = Refused /\ calls = 0

Asked(c) == calls < MaxCalls /\ calls' = calls + 1 /\ call' = c /\ UNCHANGED <<dialect, table>>

\* isSimpleStarCount: COUNT(*) as it is, which PostgreSQL gives as text, read by coerceStarCount.
isSimpleStarCount(c) == c.kind = "aggregate" /\ c.count = {"*"} /\ (\A f \in Fields : c.fields[f] = {}) /\ c.where.kind = "any"

CountAll(c) ==
  /\ Asked(c) /\ isSimpleStarCount(c)
  /\ LET read == Cell(IF dialect = "postgres" THEN "text" ELSE "number", Len(table))
     IN answer' = Rows(<<[by |-> <<>>, count |-> [col \in {"*"} |-> coerceAggregateNumber(read)],
                          fields |-> [f \in Fields |-> [col \in {} |-> NullCell]]]>>)
  /\ UNCHANGED cache

aggregateRecords(c) ==
  /\ Asked(c) /\ c.kind = "aggregate" /\ ~isSimpleStarCount(c)
  /\ LET where == compileWhere(c.where)
     IN IF aggregateSelectParts(c) = {} THEN answer' = Refused /\ UNCHANGED cache
        ELSE Query(c, where.sql, <<>>, where.params)

\* Mutant: the placeholders of HAVING are numbered from 1.
groupByFromOne(c) ==
  /\ Asked(c) /\ c.kind = "groupBy"
  /\ LET where == compileWhere(c.where)
         having == compileHaving(c, 1)
     IN IF where.sql = "1=0" THEN answer' = Rows(<<>>) /\ UNCHANGED cache
        ELSE IF HavingRefused(c) THEN answer' = Refused /\ UNCHANGED cache
        ELSE IF HavingImpossible(c) THEN answer' = Rows(<<>>) /\ UNCHANGED cache
        ELSE IF OrderRefused(c) THEN answer' = Refused /\ UNCHANGED cache
        ELSE Query(c, where.sql, having.sql, where.params \o having.params)

\* A filter that cannot match is answered before HAVING and ORDER BY are looked at.
groupByRecords(c) ==
  /\ Asked(c) /\ c.kind = "groupBy"
  /\ LET where == compileWhere(c.where)
         having == compileHaving(c, Len(where.params) + 1)
     IN IF where.sql = "1=0" THEN answer' = Rows(<<>>) /\ UNCHANGED cache
        ELSE IF HavingRefused(c) THEN answer' = Refused /\ UNCHANGED cache
        ELSE IF HavingImpossible(c) THEN answer' = Rows(<<>>) /\ UNCHANGED cache
        ELSE IF OrderRefused(c) THEN answer' = Refused /\ UNCHANGED cache
        ELSE Query(c, where.sql, having.sql, where.params \o having.params)

\* buildCountQuery: select counts columns like _count does, distinct the values of one.
buildCountQuery(c, rows) ==
  IF c.distinct # None THEN [col \in {"*"} |-> Cell("number", Cardinality({table[i][c.distinct] : i \in NonNull(c.distinct, rows)}))]
  ELSE [col \in IF c.count = {} THEN {"*"} ELSE c.count |-> Cell("number", Value("count", col, rows))]

\* countRecords keeps no text, and takes distinct or select.
countRecords(c) ==
  /\ Asked(c) /\ c.kind = "count" /\ UNCHANGED cache
  /\ LET where == compileWhere(c.where)
         rows == {i \in DOMAIN table : WhereHolds(where.sql, table[i], where.params)}
     IN answer' = IF c.distinct # None /\ c.count # {} THEN Refused
                  ELSE Rows(<<[by |-> <<>>, count |-> buildCountQuery(c, rows), fields |-> [f \in Fields |-> [col \in {} |-> NullCell]]]>>)

Finished == calls = MaxCalls /\ UNCHANGED vars

Next == (\E c \in Calls : CountAll(c) \/ aggregateRecords(c) \/ groupByRecords(c) \/ countRecords(c)) \/ Finished

Spec == Init /\ [][Next]_vars
---------------------------------------------------------------------------
(* Properties. *)

\* What the call means, said of the rows of the table.
Meets(c, i) == c.where.kind = "any" \/ (c.where.kind = "equals" /\ table[i].a = c.where.value)
Kept(c, rows) == \A k \in DOMAIN c.having : Compares(c.having[k].op, Value(c.having[k].fn, c.having[k].col, rows), c.having[k].values)
Plain(value) == IF value = Null THEN NullCell ELSE Cell("number", value)
Meant(c, rows) ==
  [by |-> [k \in DOMAIN c.by |-> Plain(table[Min(rows)][c.by[k]])],
   count |-> [col \in c.count |-> Plain(Value("count", col, rows))],
   fields |-> [f \in Fields |-> [col \in c.fields[f] |-> Plain(Value(f, col, rows))]]]
MeantBy(c) ==
  LET groups == {g \in Groups(c.by, {i \in DOMAIN table : Meets(c, i)}) : Kept(c, g)}
  IN {[i \in DOMAIN w |-> Meant(c, w[i])] : w \in {Window(s, c.take, c.skip) : s \in Sorted(groups, c.order)}}

\* On MySQL the columns of the group are left out of the comparison.
Comparable(rows) == [i \in DOMAIN rows |-> IF dialect = "mysql" THEN [rows[i] EXCEPT !.by = <<>>] ELSE rows[i]]

\* Whatever was asked before, aggregate and groupBy answer the groups of the
\* rows their filter names that meet having, with numbers, sorted and cut as
\* asked; what is compared or sorted by has to be selected, or the call is refused.
AnswersAsAsked ==
  call # None /\ call.kind # "count" /\ answer.status = "rows" =>
    Comparable(answer.rows) \in {Comparable(rows) : rows \in MeantBy(call)}
=============================================================================
