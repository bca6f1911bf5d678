----------------------------- MODULE Introspect -----------------------------
(***************************************************************************)
(* One column of schema.ts and the column of the database it stands for.    *)
(* db push reads the catalog back as a column, compares the two and alters  *)
(* the database; db pull writes what it reads as schema.ts.  Each database  *)
(* has its own types, its own text of a default, and its own losses.        *)
(***************************************************************************)
EXTENDS Naturals, Sequences, SequencesExt, TLC

CONSTANTS
  Dialects,   \* SUBSET {"postgres", "sqlite", "mysql"}
  Absent,     \* the database has no such column
  MaxSteps    \* bound: pushes, pulls and edits

VARIABLES dialect, schema, catalog, said, gap, steps

vars == <<dialect, schema, catalog, said, gap, steps>>
---------------------------------------------------------------------------
(* The columns of schema.ts. *)

Js(is, val) == [is |-> is, val |-> val]
NoDefault == Js("none", "")
Now == Js("now", "")
Numbers == {"1", "-1", "1.5"}

ColumnKinds == {"id", "text", "int", "bool", "decimal", "double", "uuid", "timestamp", "jsonb", "enum", "serial", "fk"}
Available == IF dialect = "sqlite" THEN ColumnKinds \ {"double"} ELSE ColumnKinds
DefaultsOf(kind) == {NoDefault} \cup
  CASE kind = "text" -> {Js("string", val) : val \in {"word", "it's", "", "1"}}
    [] kind = "int" -> {Js("number", "1"), Js("number", "-1")}
    [] kind = "double" -> {Js("number", "1.5")}
    [] kind = "decimal" -> {Js("string", "1.5")}
    [] kind = "bool" -> {Js("bool", "true")}
    [] kind = "timestamp" -> {Now}
    [] kind = "jsonb" -> {Js("object", "{}")}
    [] OTHER -> {}
IsKey(kind) == kind \in {"id", "serial"}

\* check is the text of .check(), or "quoted" for .min(1), whose SQL quotes the column.
ColumnsOf(kind) ==
  [kind : {kind}, primary : {IsKey(kind)},
   size : IF kind = "text" THEN {"", "20"} ELSE IF kind = "decimal" THEN {"", "10,2"} ELSE {""},
   null : IF IsKey(kind) THEN {FALSE} ELSE BOOLEAN, unique : IF IsKey(kind) THEN {FALSE} ELSE BOOLEAN,
   default : DefaultsOf(kind), check : IF kind = "int" THEN {"", "age > 0", "(age > 0)", "quoted"} ELSE {""},
   onDelete : IF kind = "fk" THEN {"no action", "cascade"} ELSE {"no action"},
   deferrable : IF kind = "fk" /\ dialect # "mysql" THEN {"", "deferred"} ELSE {""}]
---------------------------------------------------------------------------
(* columnToManifest and the DDL of the dialects. *)

\* In SQLite maxLength is a CHECK.
compileColumnCheckConstraints(s) ==
  {c \in {s.check} : c # ""} \cup {c \in {"length"} : dialect = "sqlite" /\ s.kind = "text" /\ s.size # ""}

PgType ==
  "id" :> "TEXT" @@ "text" :> "TEXT" @@ "int" :> "INTEGER" @@ "bool" :> "BOOLEAN" @@ "decimal" :> "NUMERIC"
  @@ "double" :> "DOUBLE PRECISION" @@ "uuid" :> "UUID" @@ "timestamp" :> "TIMESTAMPTZ" @@ "jsonb" :> "JSONB"
  @@ "enum" :> "mood" @@ "serial" :> "INTEGER GENERATED BY DEFAULT AS IDENTITY" @@ "fk" :> "TEXT"
SqliteType(kind) ==
  CASE kind \in {"int", "serial"} -> "INTEGER" [] kind = "bool" -> "BOOLEAN" [] OTHER -> "TEXT"
MysqlType ==
  "text" :> "TEXT" @@ "int" :> "INT" @@ "bool" :> "TINYINT(1)" @@ "decimal" :> "DECIMAL"
  @@ "double" :> "DOUBLE" @@ "uuid" :> "CHAR(36)" @@ "timestamp" :> "DATETIME(6)" @@ "jsonb" :> "JSON"
  @@ "enum" :> "ENUM" @@ "serial" :> "INT NOT NULL AUTO_INCREMENT"

needsIndexedVarchar(s) == s.primary \/ s.unique
\* A foreign key has the type of the id() it points to.
familyColumnType(s) ==
  CASE s.kind \in {"id", "fk"} -> <<"VARCHAR", "191">>
    [] s.kind = "text" /\ s.size # "" -> <<"VARCHAR", s.size>>
    [] s.kind = "text" /\ s.size = "" /\ needsIndexedVarchar(s) -> <<"VARCHAR", "191">>
    [] s.kind = "decimal" -> <<"DECIMAL", IF s.size = "" THEN "65,30" ELSE s.size>>
    [] OTHER -> <<MysqlType[s.kind], "">>
columnType(s) ==
  CASE dialect = "postgres" -> <<IF s.kind = "text" /\ s.size # "" THEN "VARCHAR" ELSE PgType[s.kind], s.size>>
    [] dialect = "sqlite" -> <<SqliteType(s.kind), "">>
    [] dialect = "mysql" -> familyColumnType(s)

\* The text of a default: bare, in quotes, an expression, now() or none.
Doubled(val) == IF val = "it's" THEN "it''s" ELSE val
formatDefaultValue(s) ==
  CASE s.default.is \in {"none", "now"} -> s.default
    [] s.kind = "jsonb" /\ s.default.is \in {"string", "object"} ->
         Js(IF dialect = "mysql" THEN "expression" ELSE "quoted", IF s.default.is = "object" THEN s.default.val ELSE "a string")
    [] s.kind # "jsonb" /\ s.default.is = "string" -> Js("quoted", Doubled(s.default.val))
    [] OTHER -> Js("bare", s.default.val)

\* The default as the catalog prints it: PostgreSQL prints a constant in its own
\* form, MySQL the value without its quotes.
InCatalog(s) ==
  LET text == formatDefaultValue(s)
  IN CASE dialect = "postgres" /\ text.is \in {"bare", "quoted"} /\ s.kind \in {"int", "decimal", "double"} ->
            Js(IF text.val = "-1" THEN "quoted" ELSE "bare", text.val)
       [] dialect = "mysql" /\ text.is \in {"bare", "quoted"} ->
            Js("bare", CASE text.val = "true" -> "1" [] text.val = "it''s" -> "it's" [] OTHER -> text.val)
       [] OTHER -> text

\* PostgreSQL keeps the parsed expression of a check, whatever was written.
CheckInCatalog(s) ==
  LET check == compileColumnCheckConstraints(s)
  IN IF dialect = "postgres" /\ check # {} THEN {"age > 0"} ELSE check

columnFkClause(s) == [fk |-> s.kind = "fk", onDelete |-> s.onDelete, deferrable |-> s.deferrable]
\* The column CREATE TABLE makes.
Created(s) ==
  [type |-> IF dialect = "postgres" /\ s.kind = "serial" THEN <<"INTEGER", "">> ELSE columnType(s),
   identity |-> s.kind = "serial", primary |-> s.primary, null |-> s.null,
   unique |-> IF ~s.unique THEN "" ELSE IF dialect = "mysql" THEN "c" ELSE "t_c_key",
   default |-> InCatalog(s), check |-> CheckInCatalog(s)] @@ columnFkClause(s)
\* MySQL has no literal default for TEXT and no index on all of it.
Refused(c) ==
  dialect = "mysql" /\ c.type[1] = "TEXT" /\ (c.default.is \in {"bare", "quoted"} \/ c.unique # "")
---------------------------------------------------------------------------
(* Introspection: the column the catalog is read as. *)

pgStorageSqlType(type) ==
  CASE type[1] = "NUMERIC" -> <<"NUMERIC", "">> [] type[1] = "mood" -> <<"MOOD", "">> [] OTHER -> type
resolvePgColumnKind(c) ==
  CASE c.fk -> "fk"
    [] c.primary /\ c.type[1] = "TEXT" -> "id"
    [] c.type[1] = "VARCHAR" -> "text"
    [] OTHER -> CHOOSE kind \in DOMAIN PgType \ {"id", "fk", "serial"} : PgType[kind] = c.type[1]
sqliteTypeToKind(c) ==
  CASE c.fk -> "fk"
    [] c.type[1] = "INTEGER" -> IF c.primary THEN "serial" ELSE "int"
    [] c.type[1] = "BOOLEAN" -> "bool"
    [] OTHER -> IF c.default = Now THEN "timestamp" ELSE "text"
mysqlTypeToKind(c) ==
  CASE c.fk -> "fk"
    [] c.type[1] = "VARCHAR" -> "text"
    [] c.type[1] = "INT" /\ c.identity -> "serial"
    [] OTHER -> CHOOSE kind \in DOMAIN MysqlType : MysqlType[kind] = c.type[1]

\* parseDefaultValue of PostgreSQL, by the kind of the column.
PgDefault(kind, text) ==
  CASE text.is = "now" -> Now
    [] text.is = "bare" /\ kind = "bool" -> Js("bool", text.val)
    [] text.is = "bare" /\ kind = "int" -> Js("number", text.val)
    [] text.is = "bare" /\ kind \in {"decimal", "double"} -> Js("string", text.val)
    [] text.is = "quoted" /\ text.val = "" -> NoDefault
    [] text.is = "quoted" /\ text.val # "" ->
         IF kind = "jsonb" THEN Js("object", text.val)
         ELSE Js("string", IF text.val = "it''s" THEN "it's" ELSE text.val)
    [] OTHER -> NoDefault
\* parseDefaultValue of SQLite and MySQL, by the text alone.
TextDefault(text) ==
  CASE text.is \in {"none", "now"} -> text
    [] text.is = "bare" /\ text.val = "true" -> Js("bool", text.val)
    [] text.is = "bare" /\ text.val \in Numbers -> Js("number", text.val)
    [] OTHER -> Js("string", text.val)

\* pg_get_constraintdef prints CHECK ((age > 0)).
Definition(c) == [parens |-> 2, expr |-> CHOOSE expr \in c.check : TRUE]
\* Mutant: only the parentheses of CHECK itself are taken off.
parseCheckOnce(definition) ==
  IF definition.parens > 1 THEN "(age > 0)" ELSE definition.expr
parseCheckDefinition(definition) == definition.expr
applyCheckConstraints(c) ==
  IF dialect = "postgres" /\ c.check # {} /\ c.type[1] # "mood" THEN {parseCheckDefinition(Definition(c))}
  ELSE IF dialect = "mysql" /\ c.check # {} THEN {"canonical"}
  ELSE {}

\* The one foreign key of the column.  SQLite answers no DEFERRABLE, and the
\* expression that looks for it in the statement stops at the first parenthesis.
ReadFk(c) == [onDelete |-> c.onDelete, deferrable |-> IF dialect = "sqlite" THEN "" ELSE c.deferrable]
Column(c, kind, size, default) ==
  [kind |-> kind, primary |-> c.primary, null |-> c.null, unique |-> c.unique # "", size |-> size, default |-> default,
   check |-> applyCheckConstraints(c)] @@ ReadFk(c)
introspectTable(c) ==
  LET kind == resolvePgColumnKind(c)
  IN Column(c, kind, IF kind = "text" THEN c.type[2] ELSE "", PgDefault(kind, c.default))
introspectSqliteTable(c) == Column(c, sqliteTypeToKind(c), "", TextDefault(c.default))
introspectMysqlTable(c) ==
  LET kind == mysqlTypeToKind(c)
  IN Column(c, kind, IF kind \in {"text", "decimal"} THEN c.type[2] ELSE "", TextDefault(c.default))
Live(c) ==
  CASE dialect = "postgres" -> introspectTable(c)
    [] dialect = "sqlite" -> introspectSqliteTable(c)
    [] dialect = "mysql" -> introspectMysqlTable(c)
\* PostgreSQL and SQLite keep the type of the catalog, MySQL works it out from the kind.
LiveType(c) ==
  CASE dialect = "postgres" -> pgStorageSqlType(c.type)
    [] dialect = "sqlite" -> c.type
    [] dialect = "mysql" -> IF c.type[1] = "ENUM" THEN <<"TEXT", "">> ELSE columnType(Live(c))
---------------------------------------------------------------------------
(* diffColumns and db push. *)

effectiveNullable(s) == ~s.primary /\ s.null
buildColumnAlter(c) ==
  LET live == Live(c)
  IN {do \in {"type", "null", "default", "unique", "check", "fk"} :
        CASE do = "type" -> LiveType(c) # columnType(schema)
          [] do = "null" -> effectiveNullable(live) # effectiveNullable(schema)
          [] do = "default" -> live.default # schema.default
          [] do = "unique" -> live.unique # schema.unique
          [] do = "check" -> live.check # compileColumnCheckConstraints(schema)
          [] do = "fk" -> \/ (live.kind = "fk") # (schema.kind = "fk")
                          \/ schema.kind = "fk" /\ <<live.onDelete, live.deferrable>> # <<schema.onDelete, schema.deferrable>>}

canAutoCastType(from, to) ==
  \/ from = to
  \/ {from, to} = {<<"MOOD", "">>, <<"mood", "">>}
  \/ from[1] = "VARCHAR" /\ to[1] = "TEXT"
  \/ from[1] = "TEXT" /\ to[1] = "NUMERIC"
Manual(c) == dialect = "postgres" /\ ~canAutoCastType(LiveType(c), columnType(schema))

\* emitAlterColumn and the foreign keys around it.  An alter to NULL or NOT NULL
\* is in MySQL part of the MODIFY of the type, when there is one.
Statements(alters) ==
  (IF "fk" \in alters /\ catalog.fk THEN <<"dropFk">> ELSE <<>>)
  \o (IF "type" \in alters THEN <<"type">> ELSE <<>>)
  \o (IF "null" \in alters /\ (dialect # "mysql" \/ "type" \notin alters) THEN <<"null">> ELSE <<>>)
  \o (IF "default" \in alters THEN <<"default">> ELSE <<>>)
  \o (IF "unique" \in alters THEN <<IF schema.unique THEN "addUnique" ELSE "dropUnique">> ELSE <<>>)
  \o (IF "check" \in alters THEN <<"check">> ELSE <<>>)
  \o (IF "fk" \in alters /\ schema.kind = "fk" THEN <<"addFk">> ELSE <<>>)

\* MODIFY COLUMN names a type and NOT NULL: the default goes.
Modified(c) == IF dialect = "mysql" THEN [c EXCEPT !.null = schema.null, !.default = NoDefault] ELSE c
Effect(c, do) ==
  CASE do = "dropFk" -> [c EXCEPT !.fk = FALSE]
    [] do = "addFk" -> columnFkClause(schema) @@ c
    [] do = "type" -> [Modified(c) EXCEPT !.type = columnType(schema)]
    [] do = "null" -> [Modified(c) EXCEPT !.null = schema.null]
    [] do = "default" -> [c EXCEPT !.default = InCatalog(schema)]
    [] do = "addUnique" -> [c EXCEPT !.unique = "t_c_key"]
    [] do = "dropUnique" -> [c EXCEPT !.unique = ""]
    [] do = "check" -> [c EXCEPT !.check = CheckInCatalog(schema)]
\* MySQL names the index of an inline UNIQUE after the column and an inline CHECK
\* after the table; the statements name t_c_key and t_c_check.
Fails(c, do) ==
  \/ dialect = "mysql" /\ do = "dropUnique" /\ c.unique # "t_c_key"
  \/ dialect = "mysql" /\ do = "check"
  \/ Refused(Effect(c, do))
Run(statements) ==
  FoldLeft(LAMBDA r, do : IF ~r.ok \/ Fails(r.c, do) THEN [r EXCEPT !.ok = FALSE] ELSE [r EXCEPT !.c = Effect(r.c, do)],
           [c |-> catalog, ok |-> TRUE], statements)

\* What a column cannot have and read back as it was written.
Known(s) ==
  \/ /\ dialect = "postgres"
     /\ \/ s.kind = "enum" \/ s.check \in {"(age > 0)", "quoted"}
        \/ s.default.is = "number" /\ (s.kind = "double" \/ s.default.val = "-1")
  \/ dialect = "sqlite" /\ (s.default.is = "object" \/ s.default.val = "it's")
  \/ /\ dialect = "mysql"
     /\ \/ s.kind = "enum" \/ s.check # ""
        \/ s.default.is = "bool" \/ (s.kind = "jsonb" /\ s.default # NoDefault)
        \/ s.default.is = "string" /\ s.default.val \in Numbers
\* What the database can have and introspection does not see.
Unread(c) ==
  \/ /\ dialect = "postgres"
     /\ c.identity \/ (c.type[1] = "NUMERIC" /\ c.type[2] # "") \/ c.default = Js("quoted", "")
  \/ dialect = "sqlite" /\ (c.check # {} \/ c.deferrable # "")

CreateColumn ==
  /\ catalog = Absent
  /\ IF Refused(Created(schema)) THEN said' = "failed" /\ UNCHANGED catalog
     ELSE said' = "pushed" /\ catalog' = Created(schema)
  /\ gap' = (Known(schema) \/ Unread(Created(schema)))
AlterColumn(accept) ==
  /\ catalog # Absent
  /\ LET alters == buildColumnAlter(catalog)
         blocked == Manual(catalog) \/ (~accept /\ "fk" \in alters)
         kept == IF ~blocked THEN alters ELSE IF accept THEN alters \ {"type"}
                 ELSE IF Manual(catalog) THEN {} ELSE alters \ {"fk"}
         run == Run(Statements(kept))
     IN /\ said' = IF ~(dialect = "sqlite" \/ run.ok) THEN "failed" ELSE IF blocked THEN "blocked" ELSE "pushed"
        /\ catalog' = CASE dialect = "sqlite" -> IF kept = {} THEN catalog ELSE Created(schema)
                        [] dialect = "postgres" -> IF run.ok THEN run.c ELSE catalog
                        [] dialect = "mysql" -> run.c
        /\ gap' = \/ Known(schema) \/ Unread(catalog')
                  \/ dialect = "mysql" /\ kept \cap {"type", "null"} # {} /\ "default" \notin kept /\ schema.default # NoDefault
dbPush ==
  /\ steps < MaxSteps /\ steps' = steps + 1
  /\ CreateColumn \/ \E accept \in BOOLEAN : AlterColumn(accept)
  /\ UNCHANGED <<dialect, schema>>
---------------------------------------------------------------------------
(* db pull. *)

emitPostgresColumn(live) ==
  [live EXCEPT !.check = IF @ = {} THEN "" ELSE CHOOSE c \in live.check : TRUE, !.null = effectiveNullable(live)]
sqliteColumnDef(live) ==
  [emitPostgresColumn(live) EXCEPT !.default = IF @ = Now THEN Now ELSE NoDefault, !.unique = @ /\ live.kind # "fk"]
\* What introspection sees and db pull does not write.
Lost(c) ==
  \/ dialect = "sqlite" /\ (c.default.is \notin {"none", "now"} \/ (c.fk /\ c.unique # ""))
  \/ dialect = "mysql" /\ c.default.is = "expression"
dbPull ==
  /\ steps < MaxSteps /\ steps' = steps + 1
  /\ catalog # Absent
  /\ schema' = IF dialect = "sqlite" THEN sqliteColumnDef(Live(catalog)) ELSE emitPostgresColumn(Live(catalog))
  /\ said' = "pulled" /\ gap' = (Known(schema') \/ Unread(catalog) \/ Lost(catalog))
  /\ UNCHANGED <<dialect, catalog>>

\* Somebody changes one thing about a column that is no key.
Edit ==
  /\ steps < MaxSteps /\ steps' = steps + 1
  /\ ~schema.primary
  /\ \E f \in DOMAIN schema : \E val \in {s[f] : s \in ColumnsOf(schema.kind)} \ {schema[f]} :
       schema' = [schema EXCEPT ![f] = val]
  /\ said' = "edited"
  /\ UNCHANGED <<dialect, catalog, gap>>

Init ==
  /\ dialect \in Dialects
  /\ schema \in UNION {ColumnsOf(kind) : kind \in Available}
  /\ catalog = Absent /\ said = "edited" /\ gap = FALSE /\ steps = 0
Rest == steps = MaxSteps /\ UNCHANGED vars
Next == dbPush \/ dbPull \/ Edit \/ Rest
Spec == Init /\ [][Next]_vars
---------------------------------------------------------------------------
\* After a db push that was not refused or blocked, and after a db pull, the
\* database has the column CREATE TABLE would make of schema.ts and the next push
\* has nothing to do: introspection reads what the DDL writes, whichever
\* alterations the column has been through.  Stated without the known gaps.
SchemaIsDatabase ==
  said \in {"pushed", "pulled"} /\ ~gap =>
    /\ buildColumnAlter(catalog) = {}
    /\ [catalog EXCEPT !.unique = @ # ""] = [Created(schema) EXCEPT !.unique = @ # ""]
=============================================================================
