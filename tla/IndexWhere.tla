----------------------------- MODULE IndexWhere -----------------------------
(***************************************************************************)
(* The predicate of a partial index on its way from schema.ts to the        *)
(* database and, by db pull, back into schema.ts.  A where object compiles  *)
(* to SQL, here a sequence of tokens; pull reads the SQL of the catalog as  *)
(* a tree, and writes the tree as a where object.  A predicate it cannot    *)
(* read is left out of the index.                                           *)
(***************************************************************************)
EXTENDS Naturals, Sequences, FiniteSets, SequencesExt, Functions, TLC

CONSTANTS
  Providers,   \* SUBSET {"sqlite", "postgres"}
  Wheres,      \* the where objects of schema.ts that are tried
  Whole,       \* no predicate: the index covers the whole table
  MaxPulls

VARIABLES provider, declared, where, index, pulls

vars == <<provider, declared, where, index, pulls>>

\* A where object is a sequence of entries.  An entry is a column with its
\* operators, a function of their names, or a group of where objects.
Column(col, ops) == [is |-> "column", col |-> col, ops |-> ops, parts |-> <<>>]
Group(is, parts) == [is |-> is, col |-> "", ops |-> <<>>, parts |-> parts]
---------------------------------------------------------------------------
(* compileIndexWhere.  A token is a parenthesis, a word or a condition. *)

Token(is) == [is |-> is, col |-> "", op |-> "", val |-> "", fold |-> FALSE]
Paren(tokens) == <<Token("(")>> \o tokens \o <<Token(")")>>
Joined(parts, word) ==
  FlattenSeq([i \in DOMAIN parts |-> IF i = 1 THEN parts[i] ELSE <<Token(word)>> \o parts[i]])

Literal(val) ==
  CASE provider = "sqlite" /\ val = "true" -> "1"
    [] provider = "sqlite" /\ val = "false" -> "0"
    [] OTHER -> val

\* mode applies to the operators on strings and to no other.
Folding == {"equals", "contains", "search"}
Condition(col, op, val, fold) ==
  [is |-> "atom", col |-> col, op |-> IF op = "equals" /\ val = "null" THEN "isNull" ELSE op,
   val |-> Literal(val), fold |-> fold /\ op \in Folding]
Conditions(e) ==
  {Condition(e.col, op, e.ops[op], "mode" \in DOMAIN e.ops) : op \in DOMAIN e.ops \ {"mode"}}

RECURSIVE Sql(_)
\* Mutant: the branches of a combinator are not parenthesised.
BareEntry(e) ==
  CASE e.is = "column" -> Joined([i \in 1..Cardinality(Conditions(e)) |-> <<SetToSeq(Conditions(e))[i]>>], "AND")
    [] e.is = "NOT" -> <<Token("NOT")>> \o Paren(Sql(e.parts[1]))
    [] OTHER -> Joined([i \in DOMAIN e.parts |-> Sql(e.parts[i])], e.is)
EntrySql(e) ==
  CASE e.is = "column" -> Joined([i \in 1..Cardinality(Conditions(e)) |-> <<SetToSeq(Conditions(e))[i]>>], "AND")
    [] e.is = "NOT" -> <<Token("NOT")>> \o Paren(Sql(e.parts[1]))
    [] OTHER -> Paren(Joined([i \in DOMAIN e.parts |-> Paren(Sql(e.parts[i]))], e.is))
Sql(w) == Joined([i \in DOMAIN w |-> EntrySql(w[i])], "AND")

\* What the catalog answers: SQLite the text of the statement, PostgreSQL the
\* expression with every condition in parentheses.
Stored(tokens) ==
  IF provider = "sqlite" THEN tokens
  ELSE FlattenSeq([i \in DOMAIN tokens |-> IF tokens[i].is = "atom" THEN Paren(<<tokens[i]>>) ELSE <<tokens[i]>>])
---------------------------------------------------------------------------
(* parseIndexWhere *)

Depth(t, i) == Cardinality({j \in 1..i : t[j].is = "("}) - Cardinality({j \in 1..i : t[j].is = ")"})

RECURSIVE stripOuterParens(_)
stripOuterParens(t) ==
  IF t[1].is = "(" /\ \A i \in 1..(Len(t) - 1) : Depth(t, i) > 0
  THEN stripOuterParens(SubSeq(t, 2, Len(t) - 1))
  ELSE t

splitTopLevel(t, word) ==
  LET cuts == {0, Len(t) + 1} \cup {i \in DOMAIN t : t[i].is = word /\ Depth(t, i) = 0}
      at == SetToSortSeq(cuts, <)
  IN [k \in 1..(Len(at) - 1) |-> SubSeq(t, at[k] + 1, at[k + 1] - 1)]

\* What a literal is read as: a bare 1 or 0 compared with = is taken for a boolean.
Read(a) ==
  CASE a.op = "isNull" -> "null"
    [] a.op = "equals" /\ a.val = "1" -> "true"
    [] a.op = "equals" /\ a.val = "0" -> "false"
    [] OTHER -> a.val

\* parseIndexLiteralList, likePatternToOp and, on PostgreSQL, casts: what is not read.
Unreadable(a) ==
  \/ a.op = "in" /\ a.val = "bits"
  \/ a.op = "contains" /\ a.val = "percent"
  \/ provider = "postgres" /\ a.val \in {"word", "words", "percent"}

parseIndexAtom(a) ==
  LET op == IF a.op = "isNull" THEN "equals" ELSE a.op
  IN Column(a.col, (op :> Read(a)) @@ IF a.fold THEN "mode" :> "insensitive" ELSE <<>>)

RECURSIVE parseIndexConjunction(_)
parseIndexConjunction(tokens) ==
  LET t == stripOuterParens(tokens)
      ors == splitTopLevel(t, "OR")
      ands == splitTopLevel(t, "AND")
  IN CASE Len(ors) > 1 -> Group("OR", [i \in DOMAIN ors |-> parseIndexConjunction(ors[i])])
       [] Len(ands) > 1 -> Group("AND", [i \in DOMAIN ands |-> parseIndexConjunction(ands[i])])
       [] t[1].is = "NOT" -> Group("NOT", <<parseIndexConjunction(Tail(t))>>)
       [] OTHER -> parseIndexAtom(t[1])
---------------------------------------------------------------------------
(* renderIndexPredicate.  A tree is a nesting of entries. *)

Failed == <<>>   \* undefined; no object has no entry
Adjoin(body, item) ==
  IF \E i \in DOMAIN body : body[i].col = item.col
  THEN [i \in DOMAIN body |-> IF body[i].col = item.col THEN Column(item.col, body[i].ops @@ item.ops) ELSE body[i]]
  ELSE Append(body, item)
Clashes(body, item) ==
  \E i \in DOMAIN body : body[i].col = item.col /\ DOMAIN body[i].ops \cap DOMAIN item.ops # {}

\* conjunctBodies: the columns between two groups go into one object, those of
\* the same name into one entry.
Runs(items) == {r \in [from : DOMAIN items, to : DOMAIN items] :
  /\ r.from <= r.to /\ \A i \in r.from..r.to : items[i].is = "column"
  /\ r.from = 1 \/ items[r.from - 1].is # "column"
  /\ r.to = Len(items) \/ items[r.to + 1].is # "column"}
RunFrom(items, i) == CHOOSE r \in Runs(items) : r.from = i
Body(items, r) == FoldLeft(Adjoin, <<>>, SubSeq(items, r.from, r.to))
Clash(items) == \E r \in Runs(items) : \E i \in r.from..r.to :
  Clashes(Body(items, [r EXCEPT !.to = i - 1]), items[i])

RECURSIVE renderIndexPredicate(_), conjunctBodies(_)
conjunctBodies(items) ==
  LET starts == SetToSortSeq({i \in DOMAIN items : items[i].is # "column" \/ \E r \in Runs(items) : r.from = i}, <)
  IN IF Clash(items) THEN <<Failed>>
     ELSE [k \in DOMAIN starts |->
            IF items[starts[k]].is = "column" THEN Body(items, RunFrom(items, starts[k]))
            ELSE renderIndexPredicate(items[starts[k]])]
renderIndexPredicate(node) ==
  LET bodies ==
        CASE node.is = "AND" -> conjunctBodies(node.parts)
          [] node.is = "OR" -> FlattenSeq([i \in DOMAIN node.parts |->
               IF node.parts[i].is = "AND" THEN conjunctBodies(node.parts[i].parts)
               ELSE <<renderIndexPredicate(node.parts[i])>>])
          [] node.is = "NOT" -> <<renderIndexPredicate(node.parts[1])>>
          [] OTHER -> <<<<node>>>>
  IN CASE Failed \in Range(bodies) -> Failed
       [] node.is \in {"AND", "column"} /\ Len(bodies) = 1 -> bodies[1]
       [] OTHER -> <<Group(node.is, bodies)>>

Atoms(t) == {a \in Range(t) : a.is = "atom"}
parseIndexWhere(t) ==
  IF \E a \in Atoms(t) : Unreadable(a) THEN Failed ELSE renderIndexPredicate(parseIndexConjunction(t))
---------------------------------------------------------------------------
Init ==
  /\ provider \in Providers
  /\ declared = Whole /\ where = Whole /\ index = Whole /\ pulls = 0

\* The index is declared and pushed.
Declare(w) ==
  /\ declared = Whole
  /\ declared' = w /\ where' = w /\ index' = Stored(Sql(w))
  /\ UNCHANGED <<provider, pulls>>

\* emitTableExtras: .where(...) is written when the predicate was understood.
Pull ==
  /\ declared # Whole /\ pulls < MaxPulls
  /\ pulls' = pulls + 1
  /\ where' = IF index = Whole \/ parseIndexWhere(index) = Failed THEN Whole ELSE parseIndexWhere(index)
  /\ UNCHANGED <<provider, declared, index>>

\* The pulled schema is pushed to a database of its own.
Push ==
  /\ pulls > 0
  /\ index' = IF where = Whole THEN Whole ELSE Stored(Sql(where))
  /\ UNCHANGED <<provider, declared, where, pulls>>

Next == (\E w \in Wheres : Declare(w)) \/ Pull \/ Push

Spec == Init /\ [][Next]_vars
---------------------------------------------------------------------------
(* Properties. *)

RECURSIVE Selects(_, _), SqlHolds(_, _)
\* Whether a where object, and whether SQL, is true of a row, given by the conditions true of it.
Selects(w, row) == \A i \in DOMAIN w :
  CASE w[i].is = "column" -> Conditions(w[i]) \subseteq row
    [] w[i].is = "NOT" -> ~Selects(w[i].parts[1], row)
    [] w[i].is = "OR" -> \E j \in DOMAIN w[i].parts : Selects(w[i].parts[j], row)
    [] OTHER -> \A j \in DOMAIN w[i].parts : Selects(w[i].parts[j], row)
SqlHolds(tokens, row) ==
  LET t == stripOuterParens(tokens)
      ors == splitTopLevel(t, "OR")
      ands == splitTopLevel(t, "AND")
  IN CASE Len(ors) > 1 -> \E i \in DOMAIN ors : SqlHolds(ors[i], row)
       [] Len(ands) > 1 -> \A i \in DOMAIN ands : SqlHolds(ands[i], row)
       [] t[1].is = "NOT" -> ~SqlHolds(Tail(t), row)
       [] OTHER -> t[1] \in row

\* What pull does not carry over, each by itself: a predicate that is not read
\* at all, or an operator used twice for a column, so that the index is pulled
\* without its predicate; an AND of several objects below an OR, which becomes
\* branches of the OR; LOWER on one condition of a column, which spreads to the
\* others; 1 and 0 of a number on PostgreSQL, which become booleans.
RECURSIVE Nodes(_)
Nodes(node) == {node} \cup UNION {Nodes(node.parts[i]) : i \in DOMAIN node.parts}
Merged(node) == {Body(node.parts, r) : r \in Runs(node.parts)}
Known(t) ==
  LET nodes == Nodes(parseIndexConjunction(t))
  IN \/ \E a \in Atoms(t) : Unreadable(a)
     \/ \E n \in nodes : n.is = "AND" /\ Clash(n.parts)
     \/ \E n \in nodes : n.is = "OR" /\ \E i \in DOMAIN n.parts :
          n.parts[i].is = "AND" /\ Len(conjunctBodies(n.parts[i].parts)) > 1
     \/ \E n \in nodes : n.is = "AND" /\ \E body \in Merged(n) : \E i \in DOMAIN body :
          "mode" \in DOMAIN body[i].ops /\ Cardinality(DOMAIN body[i].ops \cap Folding) > 1
     \/ provider = "postgres" /\ \E a \in Atoms(t) : a.op = "equals" /\ a.val \in {"0", "1"}

\* A partial index covers the rows its where selects; pulled and pushed again,
\* any number of times, it still does, but for what pull is known not to carry over.
IndexCoversItsRows ==
  declared # Whole /\ (pulls > 0 => ~Known(Stored(Sql(declared)))) =>
    /\ index # Whole
    /\ \A row \in SUBSET (Atoms(Sql(declared)) \cup Atoms(index)) : SqlHolds(index, row) = Selects(declared, row)
=============================================================================
