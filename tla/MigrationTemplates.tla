------------------------- MODULE MigrationTemplates -------------------------
(***************************************************************************)
(* The scripts of Migrations on templates.  The rows that players leave    *)
(* differ in who the player is and in nothing else that a script reads, so *)
(* that one row of a template, with Player in the place of the player,     *)
(* stands for those of all of them.  A template of a revision holds its    *)
(* catalogue and every row a player may have left: what the scripts make   *)
(* of the 22 templates says what they make of any database.                *)
(***************************************************************************)
EXTENDS Migrations

Player == "player"
PlayerColumns == {"id", "user_id", "display_code"}

\* The row of player u that a row of a template stands for.
Filled(q, u) ==
  [c \in DOMAIN q |-> IF c \in PlayerColumns /\ q[c] = Player THEN u ELSE q[c]]

-----------------------------------------------------------------------------
(* The templates.                                                          *)

Reasons(revision) ==
  {"signup_bonus", "license_purchase", PaidFor(revision), PaidOut(revision)}
  \cup (IF revision < 19 THEN {} ELSE {"crew_hire"})

\* RESOLVED is a bet's last status, and stays so for those of before 0011.
Statuses(revision) == {Underway(revision), "RESOLVED", Settled(revision)}

\* What the players can have in table t.
PlayerRows(revision, t) ==
  LET fresh == Fresh[revision + 1] IN
  CASE t = "users" -> {UserRow(Player)}
    [] t = "wallet_ledger" -> {LedgerRow(Player, x) : x \in Reasons(revision)}
    [] t = "tracked_flights" -> {FlightRow(Player, a) : a \in Served(fresh)}
    [] t = Renting(revision) -> {RentalRow(revision, Player, x) : x \in Statuses(revision)}
    [] t = "user_airport_unlocks" -> {UnlockRow(Player, a) : a \in Locked(fresh)}
    [] t = Licensing(revision) -> {LicenceRow(revision, Player, l) : l \in Licensed(fresh, revision)}
    [] t = "user_airport_crew" -> {CrewRow(Player, a, n) : a \in CrewAirports, n \in {1, 2}}
    [] OTHER -> {}

Template(revision) ==
  LET fresh == Fresh[revision + 1] IN
  [schema |-> fresh.schema,
   rows |-> [t \in DOMAIN fresh.rows |->
               IF t \in CatalogueTables THEN fresh.rows[t] ELSE PlayerRows(revision, t)]]

\* The rows for which KnownRefusal says that an upgrade is refused.
Refusable(revision, t, q) ==
  \/ t = "wallet_ledger" /\ revision \in 1 .. 4 /\ q.reason \in {"bet_stake", "bet_payout"}
  \/ t = "tracked_flights" /\ revision \in 1 .. 13 /\ q.origin_airport_id \in DOMAIN DroppedAirports

Acceptable(revision) ==
  [Template(revision) EXCEPT !.rows =
     [t \in DOMAIN @ |-> {q \in @[t] : ~Refusable(revision, t, q)}]]

\* Template rows Q stand for rows R of table t, whose players are P: for just
\* these in the catalogue, for these and others in the rest.
Shows(t, Q, R, P) ==
  IF t \in CatalogueTables THEN {Visible(t, r) : r \in R} = {Visible(t, q) : q \in Q}
  ELSE R \subseteq {Filled(q, u) : q \in Q, u \in P}

RowsFit(R, Q, P) ==
  /\ R = [t \in DOMAIN Q |-> R[t]]
  /\ \A t \in DOMAIN Q : Shows(t, Q[t], R[t], P)
  /\ "users" \in DOMAIN Q => R["users"] = {UserRow(u) : u \in P}

\* Database d has the schema and the catalogue of template T, and its players,
\* P, have rows of T.
Fits(d, T, P) ==
  d = [schema |-> T.schema, rows |-> d.rows] /\ RowsFit(d.rows, T.rows, P)

-----------------------------------------------------------------------------
(* Statements that treat all players alike.                                *)

\* A column that a statement may read: rows of t have it, and neither the
\* player nor what the catalogue leaves open is in it.
Open(T, t, c) ==
  /\ c \notin PlayerColumns \cup Hidden(t)
  /\ \A q \in T.rows[t] : c \in DOMAIN q

\* A statement names no player, reads columns that are the same for all of
\* them, and leaves the users alone.
Tidy(T, s) ==
  CASE s.op = "create_table" -> s.table # "users"
    [] s.op = "rename_table" ->
         /\ "users" \notin {s.table, s.new} /\ Hidden(s.table) = Hidden(s.new)
         /\ s.table \in CatalogueTables <=> s.new \in CatalogueTables
    [] s.op = "add_column" ->
         s.table # "users" /\ s.column \notin Hidden(s.table)
         /\ (s.column \in PlayerColumns => s.default = Null)
    [] s.op = "drop_column" -> s.table # "users"
    [] s.op = "rename_column" ->
         s.table # "users" /\ {s.column, s.new} \cap (PlayerColumns \cup Hidden(s.table)) = {}
    [] s.op = "update" ->
         /\ s.table # "users"
         /\ \/ /\ s.table \in CatalogueTables
               /\ \A k \in DOMAIN s.set : DOMAIN s.set[k] \subseteq Hidden(s.table)
            \/ /\ Open(T, s.table, s.column)
               /\ \A k \in DOMAIN s.set : DOMAIN s.set[k] \cap PlayerColumns = {}
    [] s.op = "fill_unique" ->
         /\ s.table \notin CatalogueTables \cup {"users"} /\ KeyOf(s.table) = "id"
         /\ s.column \in PlayerColumns
         /\ \A q \in T.rows[s.table] : {"id", s.column} \subseteq DOMAIN q /\ q.id = Player
    [] s.op = "insert" -> s.table \in CatalogueTables /\ Open(T, s.table, KeyOf(s.table))
    [] s.op = "delete" -> s.table # "users" /\ Open(T, s.table, s.column)
    [] s.op = "insert_cross" ->
         /\ s.table \notin CatalogueTables \cup {"users"} /\ s.from = "users"
         /\ T.rows["users"] = {UserRow(Player)}
         /\ s.c1 \in PlayerColumns
         /\ (DOMAIN s.rest \cup {s.c2}) \cap PlayerColumns = {}
    [] OTHER -> TRUE

\* The constraints treat all players alike, too: a row of a player refers to
\* that player or to the catalogue, and no CHECK is about who that is.
Impartial(T) ==
  /\ DOMAIN T.rows = DOMAIN T.schema.tables
  /\ "users" \in DOMAIN T.rows => T.rows["users"] = {UserRow(Player)}
  /\ \A t \in DOMAIN T.rows :
       LET refs == T.schema.tables[t].refs IN
       /\ DOMAIN refs \cap Hidden(t) = {}
       /\ \A c \in DOMAIN refs, q \in T.rows[t] : c \in DOMAIN q =>
            /\ refs[c] \in DOMAIN T.rows
            /\ IF t \notin CatalogueTables /\ c \in PlayerColumns
               THEN refs[c] = "users" /\ q[c] = Player
               ELSE refs[c] \in CatalogueTables /\ Open(T, refs[c], KeyOf(refs[c]))
  /\ \A n \in DOMAIN T.schema.checks :
       LET check == T.schema.checks[n]
       IN ({check.column} \cup DOMAIN check.when) \cap (PlayerColumns \cup Hidden(check.table)) = {}

\* The template once a statement has been accepted: the players' rows that
\* keep the constraints it may break.
Narrowed(T, s) ==
  LET made == Effect(T, s) IN
  [made EXCEPT !.rows =
     [t \in DOMAIN @ |->
        IF \/ Touched(s) = Null \/ t \in CatalogueTables
           \/ t \notin Concerned(made.schema, Touched(s))
        THEN @[t] ELSE {q \in @[t] : Obeys(made, t, q)}]]

-----------------------------------------------------------------------------
(* Statements that take nothing from a player.                             *)

RowStatements ==
  {"create_table", "drop_table", "rename_table", "add_column", "drop_column", "rename_column",
   "update", "fill_unique", "insert", "delete", "insert_cross"}

\* A statement may change the rows of table t.
Writes(s, t) ==
  s.op \in RowStatements /\ (s.table = t \/ (s.op = "rename_table" /\ s.new = t))

\* A CHECK of the table says that no row may come out of this UPDATE.
Forbidden(schema, s) ==
  \E n \in DOMAIN schema.checks :
    LET check == schema.checks[n] IN
    /\ check.table = s.table /\ check.column = s.column /\ check.when = NoFields
    /\ \A k \in DOMAIN s.set : s.column \in DOMAIN s.set[k] /\ s.set[k][s.column] \notin check.values

SparesLedger(schema, s) ==
  Writes(s, "wallet_ledger") =>
    \/ s.op = "rename_column" /\ {s.column, s.new} \cap {"user_id", "reason"} = {}
    \/ s.op = "update" /\ s.column = "reason" /\ Forbidden(schema, s)

SparesRentals(s) ==
  Writes(s, "bets") \/ Writes(s, "rentals") =>
    CASE s.op = "rename_table" -> s.table = "bets" /\ s.new = "rentals"
      [] s.op \in {"add_column", "fill_unique"} -> s.column \notin {"id", "status"}
      [] s.op = "rename_column" -> {s.column, s.new} \cap {"id", "status"} = {}
      [] s.op = "update" ->
           /\ s.column = "status"
           /\ \A k \in DOMAIN s.set : /\ DOMAIN s.set[k] = {"status"}
                                     /\ CurrentStatus(s.set[k].status) = CurrentStatus(k)
      [] OTHER -> FALSE

SparesUnlocks(s) ==
  Writes(s, "user_airport_unlocks") =>
    s.op = "delete" /\ s.column = "airport_id" /\ s.values \subseteq DOMAIN DroppedAirports

\* What HistoryKept says of an upgrade from template T, of one statement.
Spares(T, schema, s) ==
  /\ SparesLedger(schema, s) /\ SparesRentals(s)
  /\ "user_airport_unlocks" \in DOMAIN T.rows => SparesUnlocks(s)
  /\ \A t \in {"users", "user_aircraft_family_unlocks", "user_airport_crew"} \cap DOMAIN T.rows :
       ~Writes(s, t)

\* The statement gives each user a crew member at both airports.
GivesCrew(s) ==
  /\ s.op = "insert_cross" /\ s.table = "user_airport_crew" /\ s.from = "users"
  /\ s.c1 = "user_id" /\ s.c2 = "airport_id" /\ s.values = CrewAirports
  /\ s.rest = [crew_count |-> 1]

-----------------------------------------------------------------------------
(* Scripts on templates.                                                   *)

\* One statement after some others of an upgrade or downgrade from T: whether
\* all were tidy, whether they were accepted, whether they spared what
\* players have, and whether the crew has been given.
Pace(T, before, s) ==
  IF /\ before.tidy /\ Applicable(before.db.schema, s) /\ Tidy(before.db, s)
     /\ Impartial(Effect(before.db, s))
  THEN [tidy |-> TRUE,
        legal |-> before.legal /\ Legal(before.db, s),
        spares |-> before.spares /\ Spares(T, before.db.schema, s),
        crewed |-> GivesCrew(s) \/ (before.crewed /\ ~Writes(s, "user_airport_crew")),
        db |-> Narrowed(before.db, s)]
  ELSE [before EXCEPT !.tidy = FALSE]

\* A script on template T, after each of its statements.
Walking(T, script) ==
  LET after[n \in 0 .. Len(script)] ==
        IF n = 0
        THEN [tidy |-> TRUE, legal |-> TRUE, spares |-> TRUE, crewed |-> FALSE, db |-> T]
        ELSE Pace(T, after[n - 1], script[n])
  IN after

Outcome(T, script) == Walking(T, script)[Len(script)]

\* Template T holds no more than template U.
Within(T, U) ==
  /\ T.schema = U.schema /\ DOMAIN T.rows = DOMAIN U.rows
  /\ \A t \in DOMAIN T.rows :
       IF t \in CatalogueTables
       THEN {Visible(t, q) : q \in T.rows[t]} = {Visible(t, q) : q \in U.rows[t]}
       ELSE T.rows[t] \subseteq U.rows[t]

\* A new database reaches the head, and so does one that players have used
\* unless it has a row that is known to be refused.
NewFits ==
  LET done == Execute(EmptyDb, UpgradesFrom(0))
  IN Fresh[1] = EmptyDb /\ done.ok /\ Fits(done.db, Template(HeadRevision), {})

UpgradeFits(revision) ==
  LET script == UpgradesFrom(revision)
      all == Outcome(Template(revision), script)
      acceptable == Outcome(Acceptable(revision), script)
  IN /\ Len(script) \in Nat
     /\ all.tidy /\ Within(all.db, Template(HeadRevision))
     /\ all.spares /\ (revision < 19 => all.crewed)
     /\ acceptable.tidy /\ acceptable.legal

DowngradeFits(revision) ==
  LET script == Downgrades[revision]
      all == Outcome(Template(revision), script)
  IN /\ Len(script) \in Nat
     /\ all.tidy /\ Within(all.db, Template(revision - 1))
     /\ revision > 19 => \A n \in 1 .. Len(script) :
          ~Writes(script[n], "users") /\ ~Writes(script[n], "user_airport_crew")

\* The tables that players read and write at a revision are there.
TablesFit(revision) ==
  LET tables == DOMAIN Fresh[revision + 1].rows IN
  /\ {"users", "wallet_ledger", "tracked_flights", "airports", Renting(revision)}
       \cup (IF revision < 3 THEN {} ELSE {"user_airport_unlocks", Licensing(revision), "aircraft_types"})
       \cup (IF revision < 15 THEN {} ELSE {"aircraft_families"})
       \cup (IF revision < 19 THEN {} ELSE {"user_airport_crew"})
     \subseteq tables
  /\ "bets" \in tables <=> revision < 5
  /\ \A t \in tables \cap CatalogueTables : Open(Template(revision), t, KeyOf(t))

RevisionFits(revision) ==
  /\ Fits(Fresh[revision + 1], Template(revision), {}) /\ Impartial(Template(revision))
  /\ revision = 0 => NewFits
  /\ revision > 0 => TablesFit(revision) /\ DowngradeFits(revision)
  /\ revision \in 1 .. HeadRevision - 1 => UpgradeFits(revision)
  /\ revision = HeadRevision => MatchesModels(Fresh[revision + 1].schema)

\* The revisions whose scripts do on templates what they should.
Fitting == {revision \in 0 .. HeadRevision : RevisionFits(revision)}

-----------------------------------------------------------------------------
(* Properties.                                                             *)

\* The scripts to and from every revision, run on its template, lead to the
\* template of the revision they should, name no player, take nothing from
\* one on the way up, and are refused for the rows of KnownRefusal only.
ScriptsFit == version \in Fitting

\* What a database contains depends on its revision, up to who has which of
\* the rows that players can have there.
ContentFits == \E P \in SUBSET Users : Fits(content, Template(version), P)

=============================================================================
