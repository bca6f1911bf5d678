--------------------------- MODULE AggregateCalls ---------------------------
(***************************************************************************)
(* The tables and calls Aggregates is checked with.  A groupBy differs from *)
(* the plain one in at most two of its parts.                               *)
(***************************************************************************)
EXTENDS Naturals, Sequences, FiniteSets

CONSTANTS Null, None

Row(a, n) == [a |-> a, n |-> n]
GroupedTables == {<<>>, <<Row(1, 1), Row(1, 2), Row(2, 3), Row(Null, Null)>>}

Filter(kind, value) == [kind |-> kind, value |-> value]
Columns(sum, max) == [f \in {"sum", "max"} |-> IF f = "sum" THEN sum ELSE max]
Comparison(fn, col, op, values) == [fn |-> fn, col |-> col, op |-> op, values |-> values]
OrderBy(fn, col, desc) == [fn |-> fn, col |-> col, desc |-> desc]

Wheres == {Filter("any", 0), Filter("equals", 1), Filter("never", 0)}
Selections ==
  {<<{"*"}, Columns({"n"}, {})>>, <<{"_all", "n"}, Columns({"n"}, {"n"})>>,
   <<{"*"}, Columns({}, {})>>, <<{}, Columns({}, {})>>}
Havings ==
  {<<>>, <<Comparison("count", "*", "gt", <<1>>)>>,
   <<Comparison("sum", "n", "in", <<2, 3>>), Comparison("count", "*", "lte", <<2>>)>>,
   <<Comparison("sum", "n", "in", <<>>)>>,
   <<Comparison("sum", "n", "notIn", <<>>), Comparison("sum", "n", "equals", <<3>>)>>}
Orders ==
  {<<>>, <<OrderBy("by", "a", TRUE)>>, <<OrderBy("sum", "n", FALSE)>>,
   <<OrderBy("count", "*", TRUE), OrderBy("by", "a", FALSE)>>}
Windows == {<<None, None>>, <<1, 1>>, <<None, 1>>}

PlainParts == <<Filter("any", 0), <<{"*"}, Columns({"n"}, {})>>, <<>>, <<>>, <<None, None>>>>
Call(kind, by, parts) ==
  [kind |-> kind, by |-> by, where |-> parts[1], count |-> parts[2][1], fields |-> parts[2][2], distinct |-> None,
   having |-> parts[3], order |-> parts[4], take |-> parts[5][1], skip |-> parts[5][2]]

GroupByCalls ==
  {Call("groupBy", <<"a">>, parts) :
     parts \in {p \in Wheres \X Selections \X Havings \X Orders \X Windows :
                  Cardinality({i \in 1 .. 5 : p[i] # PlainParts[i]}) <= 2}}
AggregateOnly == {Call("aggregate", <<>>, <<w, s, <<>>, <<>>, <<None, None>>>>) : w \in Wheres, s \in Selections}
Counts ==
  {[Call("count", <<>>, <<w, <<count, Columns({}, {})>>, <<>>, <<>>, <<None, None>>>>) EXCEPT !.distinct = d] :
     w \in Wheres, count \in {{}, {"n"}}, d \in {None, "n"}}
AllCalls == GroupByCalls \cup AggregateOnly \cup Counts
=============================================================================
