------------------------------- MODULE Where -------------------------------
(***************************************************************************)
(* How a where object becomes SQL, and the cache of that SQL.  A where is a *)
(* sequence of entries, in the order its keys were inserted; its compiled   *)
(* form is a tree with numbered placeholders and the values for them.       *)
(* findMany, updateMany and deleteMany keep the tree under a key made of    *)
(* the where's shape and collect only the values when the key comes again.  *)
(***************************************************************************)
EXTENDS Naturals, Sequences, FiniteSets, SequencesExt, TLC

CONSTANTS
  Null,
  Capacity    \* of the cache (CACHE_MAX_SIZE)

VARIABLES
  shells,     \* the cache, oldest first: [shape, clause, filledBy]
  asked,      \* the where of the last query
  got,        \* the clause it was answered with
  filledBy    \* the where that clause was compiled for (history)

vars == <<shells, asked, got, filledBy>>

\* One key of a where.  form: undefined, null, value, ops (an operator object),
\* group (AND, OR, NOT) or the mode of a relation filter.
Entry(key, form, ops, inner) == [key |-> key, form |-> form, ops |-> ops, inner |-> inner]
Column(key, ops) == Entry(key, "ops", ops, <<>>)
Op(name, values) == [name |-> name, values |-> values]
---------------------------------------------------------------------------
(* compileWhere.  A node: what it is, its column, operator or relation, the  *)
(* number of its first placeholder, and the nodes below it.                 *)

Node(is, of, n, parts) == [is |-> is, of |-> of, n |-> n, parts |-> parts]
Compiled(sql, params, impossible) == [sql |-> sql, params |-> params, impossible |-> impossible]

Paramless(op) == op.name = "isNull" \/ (op.name \in {"in", "notIn"} /\ op.values = {})

OpNode(key, op, n) ==
  CASE op.name = "in" /\ op.values = {} -> Node("false", key, n, <<>>)
    [] op.name = "notIn" /\ op.values = {} -> Node("true", key, n, <<>>)
    [] OTHER -> Node(op.name, key, n, <<>>)

\* compileColumnCondition.
CompileColumn(e, n) ==
  IF e.form = "null" THEN Compiled(<<Node("isNull", e.key, n, <<>>)>>, <<>>, FALSE)
  ELSE LET bound(i) == SelectSeq(SubSeq(e.ops, 1, i), LAMBDA op : ~Paramless(op))
       IN Compiled([i \in DOMAIN e.ops |-> OpNode(e.key, e.ops[i], n + Len(bound(i - 1)))],
                   [i \in DOMAIN bound(Len(e.ops)) |-> bound(Len(e.ops))[i].values],
                   \E i \in DOMAIN e.ops : e.ops[i].name = "in" /\ e.ops[i].values = {})

\* Mutant: an impossible branch makes the whole disjunction impossible.
SomeBranchImpossible(mode, parts) ==
  CASE mode = "OR" -> \E i \in DOMAIN parts : parts[i].impossible
    [] mode \in {"AND", "one", "some"} -> \E i \in DOMAIN parts : parts[i].impossible
    [] OTHER -> FALSE

\* Which groups pass on that what is below them matches no row.
GroupImpossible(mode, parts) ==
  CASE mode = "OR" -> \A i \in DOMAIN parts : parts[i].impossible
    [] mode \in {"AND", "one", "some"} -> \E i \in DOMAIN parts : parts[i].impossible
    [] OTHER -> FALSE

RECURSIVE CompileNode(_, _), CompileEach(_, _)

\* compileWhereNode: the conditions of its keys; undefined is passed over.
CompileNode(where, n) ==
  IF where = <<>> THEN Compiled(<<>>, <<>>, FALSE)
  ELSE LET e == Head(where)
           below == CompileEach(e.inner, n)
           parts == [i \in DOMAIN below |-> Node("and", "", n, below[i].sql)]
           first == IF e.form = "undefined" THEN Compiled(<<>>, <<>>, FALSE)
                    ELSE IF e.form \in {"null", "value", "ops"} THEN CompileColumn(e, n)
                    ELSE Compiled(<<Node(e.form, e.key, n, parts)>>,
                                  FlattenSeq([i \in DOMAIN below |-> below[i].params]), GroupImpossible(e.form, below))
           rest == CompileNode(Tail(where), n + Len(first.params))
       IN Compiled(first.sql \o rest.sql, first.params \o rest.params, first.impossible \/ rest.impossible)

CompileEach(wheres, n) ==
  IF wheres = <<>> THEN <<>>
  ELSE LET first == CompileNode(Head(wheres), n)
       IN <<first>> \o CompileEach(Tail(wheres), n + Len(first.params))

compileWhere(where) ==
  LET result == CompileNode(where, 1) IN [result EXCEPT !.sql = Node("and", "", 1, @)]
---------------------------------------------------------------------------
(* The database: SQL's three-valued logic over one row, [column -> value] and *)
(* [relation -> the rows it leads to].                                       *)

Truth(b) == IF b THEN "true" ELSE "false"
Compare(value, test) == IF value = Null THEN "unknown" ELSE Truth(test)
Not(t) == CASE t = "true" -> "false" [] t = "false" -> "true" [] OTHER -> t
And3(truths) == IF "false" \in truths THEN "false" ELSE IF "unknown" \in truths THEN "unknown" ELSE "true"
Or3(truths) == Not(And3({Not(t) : t \in truths}))

RECURSIVE Eval(_, _, _)
Eval(node, params, row) ==
  LET parts == {Eval(node.parts[i], params, row) : i \in DOMAIN node.parts}
      value == row[node.of]
      given == params[node.n]
      related == {r \in row[node.of] : Eval(node.parts[1], params, r) = "true"}
  IN CASE node.is = "true" -> "true"
       [] node.is = "false" -> "false"
       [] node.is = "isNull" -> Truth(value = Null)
       [] node.is \in {"equals", "in"} -> Compare(value, value \in given)
       [] node.is = "notIn" -> Compare(value, value \notin given)
       [] node.is = "gt" -> IF value = Null THEN "unknown" ELSE Truth(\E v \in given : value > v)
       [] node.is \in {"and", "AND"} -> And3(parts)
       [] node.is = "OR" -> Or3(parts)
       [] node.is = "NOT" -> Not(And3(parts))
       [] node.is \in {"one", "some"} -> Truth(related # {})
       [] node.is = "none" -> Truth(related = {})
       [] node.is = "every" -> Truth(\A r \in row[node.of] : Eval(node.parts[1], params, r) # "false")

RECURSIVE Placeholders(_)
Placeholders(node) ==
  IF node.is \in {"equals", "in", "notIn", "gt"} THEN 1
  ELSE FoldSeq(LAMBDA part, sum : sum + Placeholders(part), 0, node.parts)

\* What a statement with this clause does to a row: matches it, or not, or the
\* driver refuses values it has no placeholder for.
Selects(clause, row) ==
  IF clause.impossible THEN "no"
  ELSE IF Len(clause.params) # Placeholders(clause.sql) THEN "refused"
  ELSE IF Eval(clause.sql, clause.params, row) = "true" THEN "yes" ELSE "no"
---------------------------------------------------------------------------
(* The cache. *)

Joined(parts, comma) == FoldLeft(LAMBDA text, part : IF text = <<>> THEN part ELSE text \o <<comma>> \o part, <<>>, parts)

RECURSIVE whereShapeKey(_)

\* Mutant: operators are named in one order, whatever the order they bind in.
OpsShapeSorted(key, ops) ==
  LET lists == SelectSeq(ops, LAMBDA op : op.name \in {"in", "notIn"})
  IN IF lists # <<>> THEN <<key, ":", lists[1].name, ToString(Cardinality(lists[1].values))>>
     ELSE <<key, ":">> \o Joined(<<<<"equals">>, <<"gt">>>>, ",")

\* The operators of a condition; a list stands for all of them.
OpsShape(key, ops) ==
  LET lists == SelectSeq(ops, LAMBDA op : op.name \in {"in", "notIn"})
  IN IF lists # <<>> THEN <<key, ":", lists[1].name, ToString(Cardinality(lists[1].values))>>
     ELSE <<key, ":">> \o Joined([i \in DOMAIN ops |-> <<ops[i].name>>], ",")

\* The key, token by token: a part has no end mark, a null and a missing value
\* look like a value, and a to-one filter only names its columns.
EntryShape(e) ==
  CASE e.form = "ops" -> OpsShape(e.key, e.ops)
    [] e.form \in {"undefined", "null", "value"} -> <<e.key, ":eq">>
    [] e.form \in {"AND", "OR"} -> IF e.inner = <<>> THEN <<e.key, ":empty">>
                                   ELSE <<e.key, ":">> \o Joined([i \in DOMAIN e.inner |-> whereShapeKey(e.inner[i])], ",")
    [] e.form = "NOT" -> <<e.key, ":">> \o whereShapeKey(e.inner[1])
    [] e.form = "one" -> <<e.key, ":">> \o Joined([i \in DOMAIN e.inner[1] |-> <<e.inner[1][i].key>>], ",")
    [] OTHER -> <<e.key, ":rel:", e.form, ":">> \o whereShapeKey(e.inner[1])

whereShapeKey(where) == Joined([i \in DOMAIN where |-> EntryShape(where[i])], "&")

RECURSIVE collectWhereParams(_)
\* The values alone; what compileWhere passes over has one here.
collectWhereParams(where) ==
  FlattenSeq([i \in DOMAIN where |->
    LET e == where[i]
    IN CASE e.form = "undefined" -> <<Null>>
         [] e.form \in {"null", "value", "ops"} -> CompileColumn(e, 1).params
         [] e.form \in {"AND", "OR", "NOT"} -> FlattenSeq([j \in DOMAIN e.inner |-> collectWhereParams(e.inner[j])])
         [] OTHER -> CompileNode(<<e>>, 1).params])

Cached(shape) == SelectSeq(shells, LAMBDA shell : shell.shape = shape)

\* CappedMap.set of a new key.
Remember(shell) == Append(IF Len(shells) = Capacity THEN Tail(shells) ELSE shells, shell)
---------------------------------------------------------------------------
(* The wheres asked for. *)

a(ops) == Column("a", ops)
Value(key, v) == Entry(key, "value", <<Op("equals", {v})>>, <<>>)
One == Op("equals", {1})
Above == Op("gt", {1})
Conditions ==
  {Value("a", 1), Entry("a", "null", <<>>, <<>>), Entry("a", "undefined", <<>>, <<>>), a(<<Op("isNull", {})>>)}
    \cup {a(<<op>>) : op \in {One, Above, Op("in", {}), Op("in", {1}), Op("in", {2}), Op("notIn", {}), Op("notIn", {1})}}
    \cup {a(<<One, Above>>), a(<<Above, One>>), a(<<Op("gt", {2}), One>>), a(<<Op("in", {1}), Above>>)}
B == Value("b", 1)
Group(mode, inner) == Entry(mode, mode, <<>>, inner)
Related(mode, inner) == Entry(IF mode = "one" THEN "owner" ELSE "posts", mode, <<>>, <<inner>>)

Small == {<<c>> : c \in Conditions} \cup {<<c, B>> : c \in Conditions} \cup {<<>>}
Wheres ==
  Small \cup {<<Group(mode, inner)>> : mode \in {"AND", "OR"}, inner \in {<<>>} \cup {<<w, <<B>>>> : w \in Small} \cup {<<<<B>>, <<c>>>> : c \in Conditions}}
    \cup {<<Group("NOT", <<w>>)>> : w \in Small}
    \cup {<<Group("OR", <<<<B>>, <<c>>>>), B>> : c \in Conditions}
    \cup {<<Group("NOT", <<<<c>>>>), B>> : c \in Conditions}
    \cup {<<Related(mode, <<c>>)>> : mode \in {"one", "some", "every", "none"}, c \in Conditions}
    \cup {<<Group("NOT", <<<<Related(mode, <<a(<<Op("in", {})>>)>>)>>>>)>> : mode \in {"one", "some", "every", "none"}}

ColumnValues == {1, 2, Null}
Leaf(v) == [x \in {"a", "b", ""} |-> IF x = "a" THEN v ELSE 1]
Rows ==
  {[a |-> va, b |-> vb, owner |-> owner, posts |-> posts] :
     va \in ColumnValues, vb \in {1, Null}, owner \in {{}} \cup {{Leaf(v)} : v \in {1, 2}},
     posts \in {{}, {Leaf(1)}, {Leaf(2), Leaf(Null)}}}
---------------------------------------------------------------------------
Init == shells = <<>> /\ asked = <<>> /\ got = compileWhere(<<>>) /\ filledBy = <<>>

\* getCachedWhereClause: a shell with the values of this where, or a new clause.
Hit(where) ==
  LET found == Cached(whereShapeKey(where))
  IN /\ where # <<>> /\ found # <<>>
     /\ asked' = where /\ filledBy' = found[1].filledBy
     /\ got' = [found[1].clause EXCEPT !.params = collectWhereParams(where)]
     /\ UNCHANGED shells

\* A new clause.  The second cache, by shape and values, can answer nothing here:
\* both are set together, once for each new shape, and drop their oldest entry
\* at one size, so a shape that has no shell has no entry there either.
Miss(where) ==
  /\ where # <<>> /\ Cached(whereShapeKey(where)) = <<>>
  /\ asked' = where /\ filledBy' = where /\ got' = compileWhere(where)
  /\ shells' = Remember([shape |-> whereShapeKey(where), clause |-> got', filledBy |-> where])

Unfiltered == asked' = <<>> /\ filledBy' = <<>> /\ got' = compileWhere(<<>>) /\ UNCHANGED shells

Next == (\E where \in Wheres : Hit(where) \/ Miss(where)) \/ Unfiltered

Spec == Init /\ [][Next]_vars
---------------------------------------------------------------------------
(* Properties. *)

\* A clause that is answered without asking the database matches no row.
ImpossibleIsEmpty ==
  got.impossible /\ filledBy = asked => \A row \in Rows : Eval(got.sql, got.params, row) # "true"

\* Every query selects the rows its own where compiles to.
CacheIsTransparent == \A row \in Rows : Selects(got, row) = Selects(compileWhere(asked), row)

\* A where whose key leaves nothing out: no null, no missing value, no list
\* beside another operator, a group or to-many filter only in the last place
\* and with single conditions, no to-one filter.
Keyed(where) ==
  LET single(w) == Len(w) = 1 /\ w[1].form \in {"value", "ops"} /\ (Len(w[1].ops) = 1 \/ ~\E op \in Range(w[1].ops) : op.name = "in")
  IN \A i \in DOMAIN where :
       IF where[i].form \in {"value", "ops"} THEN single(<<where[i]>>)
       ELSE i = Len(where) /\ where[i].form \notin {"undefined", "null", "one"} /\ \A j \in DOMAIN where[i].inner : single(where[i].inner[j])

\* Wheres with such keys never get each other's clause or each other's values.
KeyedIsTransparent == Keyed(asked) /\ Keyed(filledBy) => CacheIsTransparent

\* "the shape key has to match or permuted operator objects would hit a cached
\* shell whose placeholders bind the wrong values": a query that is not refused
\* selects the rows of its own where.
CacheSelectsOwnRows == \A row \in Rows : Selects(got, row) \in {"refused", Selects(compileWhere(asked), row)}
=============================================================================
