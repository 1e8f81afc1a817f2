----------------------------- MODULE SqlTables -----------------------------
(***************************************************************************)
(* What the migration scripts need of PostgreSQL and of alembic's `op`:    *)
(* tables with required and optional columns, foreign keys, indexes, CHECK *)
(* constraints and rows, and the statements that change them.  PostgreSQL  *)
(* checks constraints at the end of each statement, none being deferred.   *)
(*                                                                         *)
(* A database is a record of its schema (tables, indexes and checks by     *)
(* name) and its rows (by table).  A row is a record of columns whose      *)
(* values matter to a script; among the columns that scripts add and drop  *)
(* those are Tracked.  What a statement does to the schema depends on the  *)
(* schema alone, what it does to the rows on the rows alone.               *)
(***************************************************************************)
EXTENDS Naturals, Sequences, SequencesExt

Null == "NULL"

Tracked == {"is_starter", "is_active", "unlock_cost_credits", "category",
            "family_id", "display_code", "payout_multiplier",
            "settlement_multiplier", "cargo_type_id", "item_type_id"}

\* The tracked columns whose value may be Null.
Nullable == {"category", "family_id", "display_code", "aircraft_type_id"}

\* The column other tables refer to.
KeyOf(t) ==
  CASE t = "airports" -> "icao4"
    [] t = "aircraft_types" -> "icao_type_code"
    [] t \in {"aircraft_families", "item_types", "cargo_types"} -> "code"
    [] OTHER -> "id"

NoFields == [c \in {} |-> {}]

EmptyDb == [schema |-> [tables |-> NoFields, indexes |-> NoFields, checks |-> NoFields],
            rows |-> NoFields]

\* The function f, computed once: TLC would evaluate a nest of function
\* constructors anew at each application, but keeps one that it has compared.
Fixed(f) == CHOOSE g \in {f} : g = f

\* Both functions, f where both have a value.
Over(f, g) ==
  Fixed([x \in DOMAIN f \cup DOMAIN g |-> IF x \in DOMAIN f THEN f[x] ELSE g[x]])

Plus(f, key, value) ==
  Fixed([x \in DOMAIN f \cup {key} |-> IF x \in DOMAIN f THEN f[x] ELSE value])

Without(f, keys) == Fixed([x \in DOMAIN f \ keys |-> f[x]])

Renamed(f, old, new) ==
  IF old \in DOMAIN f THEN Plus(Without(f, {old}), new, f[old]) ELSE f

-----------------------------------------------------------------------------
(* Statements.                                                             *)

CreateTable(t, required, optional, refs) ==
  [op |-> "create_table", table |-> t,
   body |-> [required |-> required, optional |-> optional, refs |-> refs]]
DropTable(t) == [op |-> "drop_table", table |-> t]
RenameTable(t, new) == [op |-> "rename_table", table |-> t, new |-> new]

AddColumn(t, c, required, default, refs) ==
  [op |-> "add_column", table |-> t, column |-> c, required |-> required, default |-> default,
   refs |-> refs]
AddRequired(t, c, default) == AddColumn(t, c, TRUE, default, NoFields)
AddOptional(t, c) == AddColumn(t, c, FALSE, Null, NoFields)
AddReference(t, c, target) == AddColumn(t, c, FALSE, Null, c :> target)
DropColumn(t, c) == [op |-> "drop_column", table |-> t, column |-> c]
RenameColumn(t, c, new) == [op |-> "rename_column", table |-> t, column |-> c, new |-> new]
SetNotNull(t, c) == [op |-> "set_not_null", table |-> t, column |-> c]

CreateIndex(name, t) == [op |-> "create_index", name |-> name, table |-> t]
DropIndex(name) == [op |-> "drop_index", name |-> name]
RenameIndex(name, new) == [op |-> "rename_index", name |-> name, new |-> new]

\* The rows of t that agree with `when` have one of these values in column c.
AddCheckWhen(name, t, c, values, when) ==
  [op |-> "add_check", name |-> name,
   body |-> [table |-> t, column |-> c, values |-> values, when |-> when]]
AddCheck(name, t, c, values) == AddCheckWhen(name, t, c, values, NoFields)
DropCheck(name) == [op |-> "drop_check", name |-> name]
RenameCheck(name, new) == [op |-> "rename_check", name |-> name, new |-> new]

Insert(t, new) == [op |-> "insert", table |-> t, new |-> new]
Delete(t, c, values) == [op |-> "delete", table |-> t, column |-> c, values |-> values]
\* One UPDATE for each value k of c, with set[k]: they touch different rows,
\* so that their order does not matter.
UpdateEach(t, c, set) == [op |-> "update", table |-> t, column |-> c, set |-> set]
\* UPDATE t SET set WHERE c IN values.
Update(t, c, values, set) == UpdateEach(t, c, [v \in values |-> set])
\* Every row gets a value of its own in c, which is its key here.
FillUnique(t, c) == [op |-> "fill_unique", table |-> t, column |-> c]
\* INSERT INTO t SELECT: one row for each pair of a row of `from` and a value.
InsertCross(t, from, c1, c2, values, rest) ==
  [op |-> "insert_cross", table |-> t, from |-> from, c1 |-> c1, c2 |-> c2,
   values |-> values, rest |-> rest]

-----------------------------------------------------------------------------
(* Execution.                                                              *)

HasColumn(schema, t, c) ==
  t \in DOMAIN schema.tables /\ c \in schema.tables[t].required \cup schema.tables[t].optional

\* What a statement needs besides the constraints: the things it names.
Applicable(schema, s) ==
  CASE s.op = "create_table" -> s.table \notin DOMAIN schema.tables
    [] s.op \in {"drop_table", "update", "delete", "insert", "create_index"} ->
         s.table \in DOMAIN schema.tables
    [] s.op = "insert_cross" -> {s.table, s.from} \subseteq DOMAIN schema.tables
    [] s.op = "rename_table" ->
         s.table \in DOMAIN schema.tables /\ s.new \notin DOMAIN schema.tables
    [] s.op = "add_column" ->
         s.table \in DOMAIN schema.tables /\ ~HasColumn(schema, s.table, s.column)
    [] s.op \in {"drop_column", "set_not_null", "fill_unique"} ->
         HasColumn(schema, s.table, s.column)
    [] s.op = "rename_column" ->
         HasColumn(schema, s.table, s.column) /\ ~HasColumn(schema, s.table, s.new)
    [] s.op \in {"drop_index", "rename_index"} -> s.name \in DOMAIN schema.indexes
    [] s.op = "add_check" -> s.name \notin DOMAIN schema.checks
    [] s.op \in {"drop_check", "rename_check"} -> s.name \in DOMAIN schema.checks

\* A table's columns after an ALTER TABLE on one of them.
Altered(table, s) ==
  CASE s.op = "add_column" ->
         [required |-> IF s.required THEN table.required \cup {s.column} ELSE table.required,
          optional |-> IF s.required THEN table.optional ELSE table.optional \cup {s.column},
          refs |-> Over(table.refs, s.refs)]
    [] s.op = "drop_column" ->
         [required |-> table.required \ {s.column}, optional |-> table.optional \ {s.column},
          refs |-> Without(table.refs, {s.column})]
    [] s.op = "rename_column" ->
         LET Moved(cols) == IF s.column \in cols THEN (cols \ {s.column}) \cup {s.new} ELSE cols
         IN [required |-> Moved(table.required), optional |-> Moved(table.optional),
             refs |-> Renamed(table.refs, s.column, s.new)]
    [] s.op = "set_not_null" ->
         [table EXCEPT !.required = @ \cup {s.column}, !.optional = @ \ {s.column}]

SchemaEffect(schema, s) ==
  CASE s.op = "create_table" -> [schema EXCEPT !.tables = Plus(@, s.table, s.body)]
    [] s.op = "drop_table" ->
         [tables |-> Without(schema.tables, {s.table}),
          indexes |-> Fixed(RestrictValues(schema.indexes, LAMBDA t : t # s.table)),
          checks |-> Fixed(RestrictValues(schema.checks, LAMBDA c : c.table # s.table))]
    [] s.op = "rename_table" ->
         LET Follow(t) == IF t = s.table THEN s.new ELSE t
             moved == Renamed(schema.tables, s.table, s.new)
         IN [tables |-> Fixed([t \in DOMAIN moved |-> [moved[t] EXCEPT !.refs =
                                 Fixed([c \in DOMAIN @ |-> Follow(@[c])])]]),
             indexes |-> Fixed([i \in DOMAIN schema.indexes |-> Follow(schema.indexes[i])]),
             checks |-> Fixed([c \in DOMAIN schema.checks |->
                                 [schema.checks[c] EXCEPT !.table = Follow(@)]])]
    [] s.op \in {"add_column", "drop_column", "set_not_null"} ->
         [schema EXCEPT !.tables = Fixed([@ EXCEPT ![s.table] = Altered(@, s)])]
    [] s.op = "rename_column" ->
         [schema EXCEPT !.tables = Fixed([@ EXCEPT ![s.table] = Altered(@, s)]),
                        !.checks = Fixed([n \in DOMAIN @ |->
                           IF @[n].table = s.table /\ @[n].column = s.column
                           THEN [@[n] EXCEPT !.column = s.new] ELSE @[n]])]
    [] s.op = "create_index" -> [schema EXCEPT !.indexes = Plus(@, s.name, s.table)]
    [] s.op = "drop_index" -> [schema EXCEPT !.indexes = Without(@, {s.name})]
    [] s.op = "rename_index" -> [schema EXCEPT !.indexes = Renamed(@, s.name, s.new)]
    [] s.op = "add_check" -> [schema EXCEPT !.checks = Plus(@, s.name, s.body)]
    [] s.op = "drop_check" -> [schema EXCEPT !.checks = Without(@, {s.name})]
    [] s.op = "rename_check" -> [schema EXCEPT !.checks = Renamed(@, s.name, s.new)]
    [] OTHER -> schema

Keys(rows, t) == {r[KeyOf(t)] : r \in rows[t]}

\* A row under a statement that changes every row of its table.
Rewritten(s, r) ==
  CASE s.op = "add_column" ->
         IF s.column \in Tracked THEN Plus(r, s.column, s.default) ELSE r
    [] s.op = "drop_column" -> Without(r, {s.column})
    [] s.op = "rename_column" -> Renamed(r, s.column, s.new)
    [] s.op = "update" -> IF r[s.column] \in DOMAIN s.set THEN Over(s.set[r[s.column]], r) ELSE r
    [] s.op = "fill_unique" -> [r EXCEPT ![s.column] = r[KeyOf(s.table)]]

Crossed(s, k, v) ==
  Over([x \in {s.c1, s.c2} |-> IF x = s.c1 THEN k ELSE v], s.rest)

RowsEffect(rows, s) ==
  CASE s.op = "create_table" -> Plus(rows, s.table, {})
    [] s.op = "drop_table" -> Without(rows, {s.table})
    [] s.op = "rename_table" -> Renamed(rows, s.table, s.new)
    [] s.op \in {"add_column", "drop_column", "rename_column", "update", "fill_unique"} ->
         [rows EXCEPT ![s.table] = {Rewritten(s, r) : r \in @}]
    [] s.op = "insert" -> [rows EXCEPT ![s.table] = @ \cup s.new]
    [] s.op = "delete" -> [rows EXCEPT ![s.table] = {r \in @ : r[s.column] \notin s.values}]
    [] s.op = "insert_cross" ->
         [rows EXCEPT ![s.table] =
            @ \cup {Crossed(s, k, v) : k \in Keys(rows, s.from), v \in s.values}]
    [] OTHER -> rows

Effect(d, s) == [schema |-> SchemaEffect(d.schema, s), rows |-> RowsEffect(d.rows, s)]

\* The table whose rows a statement may bring in conflict with a constraint.
Touched(s) ==
  CASE s.op = "add_check" -> s.body.table
    [] s.op \in {"drop_table", "set_not_null", "insert", "insert_cross", "delete", "update",
                 "fill_unique"} -> s.table
    [] OTHER -> Null

Matches(row, fields) == \A c \in DOMAIN fields \cap DOMAIN row : row[c] = fields[c]

\* Row r of table t keeps the foreign keys, the NOT NULLs and the CHECKs of t.
Obeys(d, t, r) ==
  LET table == d.schema.tables[t] IN
  /\ \A c \in DOMAIN table.refs \cap DOMAIN r :
       r[c] \in Keys(d.rows, table.refs[c]) \cup {Null}
  /\ \A c \in DOMAIN r \cap Nullable \cap table.required : r[c] # Null
  /\ \A n \in DOMAIN d.schema.checks :
       LET check == d.schema.checks[n] IN
       check.table = t /\ check.column \in DOMAIN r /\ Matches(r, check.when) =>
         r[check.column] \in check.values

\* Table t, unless it has been dropped, and those that refer to it.
Concerned(schema, t) ==
  {u \in DOMAIN schema.tables :
     u = t \/ \E c \in DOMAIN schema.tables[u].refs : schema.tables[u].refs[c] = t}

\* What a statement on table t may break holds.
Consistent(d, t) ==
  \A u \in Concerned(d.schema, t) :
    /\ \A c \in DOMAIN d.schema.tables[u].refs :
         d.schema.tables[u].refs[c] \in DOMAIN d.schema.tables
    /\ \A r \in d.rows[u] : Obeys(d, u, r)

\* Rows are inserted under keys that are not there yet.
FreshKeys(d, s) ==
  s.op = "insert" => \A r \in s.new : r[KeyOf(s.table)] \notin Keys(d.rows, s.table)

Legal(d, s) ==
  /\ Applicable(d.schema, s) /\ FreshKeys(d, s)
  /\ Touched(s) # Null => Consistent(Effect(d, s), Touched(s))

Step(done, s) ==
  IF done.ok /\ Legal(done.db, s) THEN [ok |-> TRUE, db |-> Effect(done.db, s)]
  ELSE [done EXCEPT !.ok = FALSE]

\* A sequence of statements of one transaction, after each of them: the first
\* that is refused aborts it.
Executing(d, statements) ==
  LET done[n \in 0 .. Len(statements)] ==
        IF n = 0 THEN [ok |-> TRUE, db |-> d] ELSE Step(done[n - 1], statements[n])
  IN done

Execute(d, statements) == Executing(d, statements)[Len(statements)]

=============================================================================
