----------------------------- MODULE Migrations -----------------------------
(***************************************************************************)
(* StartUp over the real scripts: the database of MigrationScripts, the    *)
(* rows that players leave in it at each revision, and what holds of it    *)
(* whichever way it came to its revision.                                  *)
(***************************************************************************)
EXTENDS StartUp, ModelTables, MigrationScripts

CONSTANT Users  \* the players

ASSUME UsersAssumption == Users # {} /\ Null \notin Users

-----------------------------------------------------------------------------
(* Scripts run on a content.                                               *)

\* The statements of the upgrades that a database at a revision needs.
UpgradesFrom(revision) == FlattenSeq(SubSeq(Upgrades, revision + 1, HeadRevision))

RunUpgrades(db, from) == Execute(db, UpgradesFrom(from))
RunDowngrade(db, revision) == Execute(db, Downgrades[revision])

\* The database at each revision when nobody has used it.
Fresh ==
  FoldLeft(LAMBDA chain, script : Append(chain, Execute(Last(chain), script).db),
           <<EmptyDb>>, Upgrades)

-----------------------------------------------------------------------------
(* What players leave.  The programs of the earlier revisions are not in   *)
(* the repository: these are the rows their tables admit, one request at a *)
(* time.  From 0019 on they are the rows that the services write.          *)

Renting(revision) == IF revision < 5 THEN "bets" ELSE "rentals"
PaidFor(revision) == IF revision < 5 THEN "bet_stake" ELSE "rental_fee"
PaidOut(revision) == IF revision < 5 THEN "bet_payout" ELSE "settlement"
Underway(revision) == IF revision < 20 THEN "PENDING" ELSE "FLYING"
Settled(revision) == IF revision < 11 THEN "RESOLVED" ELSE "CLAIMED"
Licensing(revision) ==
  IF revision < 15 THEN "user_aircraft_type_unlocks" ELSE "user_aircraft_family_unlocks"

UserRow(u) == [id |-> u]
LedgerRow(u, reason) == [user_id |-> u, reason |-> reason]
FlightRow(u, a) == [id |-> u, origin_airport_id |-> a]
RentalRow(revision, u, status) ==
  IF revision < 18 THEN [id |-> u, user_id |-> u, status |-> status]
  ELSE [id |-> u, user_id |-> u, status |-> status, display_code |-> u]
UnlockRow(u, a) == [user_id |-> u, airport_id |-> a]
LicenceRow(revision, u, l) ==
  IF revision < 15 THEN [user_id |-> u, aircraft_type_id |-> l] ELSE [user_id |-> u, family_id |-> l]
CrewRow(u, a, n) == [user_id |-> u, airport_id |-> a, crew_count |-> n]

With(db, t, rows) == [db EXCEPT !.rows[t] = @ \cup rows]
Pays(db, u, reason) == With(db, "wallet_ledger", {LedgerRow(u, reason)})

SignUp(db, revision, u) ==
  LET joined == Pays(With(db, "users", {UserRow(u)}), u, "signup_bonus") IN
  IF revision < 19 THEN joined
  ELSE With(joined, "user_airport_crew", {CrewRow(u, a, 1) : a \in CrewAirports})

\* A rental of a flight that took off at airport a, one of each user.
Rent(db, revision, u, a) ==
  Pays(With(With(db, "tracked_flights", {FlightRow(u, a)}),
            Renting(revision), {RentalRow(revision, u, Underway(revision))}),
       u, PaidFor(revision))

\* The flight of u has landed: a bet is paid out, from 0011 on a reward is
\* claimed.
Settle(db, revision, u) ==
  Pays([db EXCEPT !.rows[Renting(revision)] =
          {IF r.id = u THEN RentalRow(revision, u, Settled(revision)) ELSE r : r \in @}],
       u, PaidOut(revision))

UnlockAirport(db, u, a) ==
  Pays(With([db EXCEPT !.rows["airports"] =
               {IF r.icao4 = a THEN [r EXCEPT !.is_active = TRUE] ELSE r : r \in @}],
            "user_airport_unlocks", {UnlockRow(u, a)}),
       u, "license_purchase")

UnlockAircraft(db, revision, u, l) ==
  Pays(With(db, Licensing(revision), {LicenceRow(revision, u, l)}), u, "license_purchase")

HireCrew(db, u) ==
  Pays([db EXCEPT !.rows["user_airport_crew"] =
          {IF r.user_id = u /\ r.airport_id = "OMDB" THEN CrewRow(u, "OMDB", 2) ELSE r : r \in @}],
       u, "crew_hire")

\* An airport that 0014 drops and one that stays, when they are there: those
\* to fly from and those to unlock; an aircraft, or its family, to license.
Served(db) == {"KLAX", "EDDF"} \cap Keys(db.rows, "airports")
Locked(db) == {"KLAX", "KJFK"} \cap Keys(db.rows, "airports")
Licensed(db, revision) ==
  IF revision < 3 THEN {}
  ELSE IF revision < 15 THEN {"B788"} \cap Keys(db.rows, "aircraft_types")
  ELSE {"B787_FAMILY"} \cap Keys(db.rows, "aircraft_families")

\* The users whose rental is under way.
Renters(db, revision) ==
  {r.id : r \in {x \in db.rows[Renting(revision)] : x.status \in {"PENDING", "FLYING"}}}

Requests(db, revision) ==
  IF revision = 0 THEN {}
  ELSE LET players == Keys(db.rows, "users") IN
       {SignUp(db, revision, u) : u \in Users \ players}
       \cup {Rent(db, revision, u, a) :
               u \in players \ Keys(db.rows, Renting(revision)), a \in Served(db)}
       \cup {Settle(db, revision, u) : u \in Renters(db, revision)}
       \cup {UnlockAirport(db, u, a) : u \in players, a \in IF revision < 3 THEN {} ELSE Locked(db)}
       \cup {UnlockAircraft(db, revision, u, l) : u \in players, l \in Licensed(db, revision)}
       \cup {HireCrew(db, u) : u \in IF revision < 19 THEN {} ELSE players}

\* A run starts with one player signed up.
FirstContent(revision) ==
  IF revision = 0 THEN EmptyDb
  ELSE SignUp(Fresh[revision + 1], revision, CHOOSE u \in Users : TRUE)

-----------------------------------------------------------------------------
(* Properties.                                                             *)

\* Tables, columns, foreign keys, indexes and CHECKs depend on the revision
\* alone: every downgrade undoes what its upgrade did, whatever was added or
\* dropped around it by other revisions.
SchemaByRevision == content.schema = Fresh[version + 1].schema

CatalogueTables == {"airports", "aircraft_types", "aircraft_families", "item_types", "cargo_types"}

\* The rows of the catalogue, but for the flags and boxes that a downgrade
\* does not restore (is_active of an airport, which unlock_airport sets, and
\* the boxes of airports below 0007, which 0002 and 0004 have since changed).
Hidden(t) == IF t = "airports" THEN {"is_active", "bbox_margin"} ELSE {}
Visible(t, r) == Without(r, Hidden(t))
Catalogue(db) ==
  [t \in DOMAIN db.rows \cap CatalogueTables |-> {Visible(t, r) : r \in db.rows[t]}]

\* Prices, multipliers, families and the roster of a revision are the same
\* whether it was reached by upgrades only or from above.
CatalogueByRevision == Catalogue(content) = Catalogue(Fresh[version + 1])

MatchesModels(schema) ==
  /\ schema.tables = Metadata
  /\ schema.checks["ck_rentals_status"].values = RentalStatus
  /\ schema.checks["ck_tracked_flights_status"].values = TrackedFlightStatus
  /\ schema.checks["ck_wallet_ledger_reason"].values = LedgerReason
  /\ schema.checks["ck_item_types_category"].values = ItemCategory

\* At the head the tables have the columns, the NOT NULLs and the foreign
\* keys of the model classes, and the CHECKs admit exactly the members of the
\* enums, so that no INSERT of the services can fail on them.
HeadMatchesModels == version = HeadRevision => MatchesModels(content.schema)

\* Why an upgrade may be refused: 0005 rewrites the ledger's reasons while
\* the old CHECK is still there, so that it fails on a database with a bet,
\* and 0014 deletes airports that flights refer to.
KnownRefusal ==
  \/ version \in 1 .. 4 /\ \E r \in content.rows["wallet_ledger"] : r.reason \in {"bet_stake", "bet_payout"}
  \/ version \in 1 .. 13 /\ \E r \in content.rows["tracked_flights"] :
                         r.origin_airport_id \in DOMAIN DroppedAirports

\* Every other database, whatever its players have done, upgrades to the head.
RefusalsAreKnown ==
  (\E p \in Processes : thread[p] = "upgrading" /\ seen[p] = version) =>
    KnownRefusal \/ Upgrade(version).ok

\* Statuses under their present names.
CurrentStatus(status) == IF status = "PENDING" THEN "FLYING" ELSE status
Rentals(db, revision) ==
  {<<r.id, CurrentStatus(r.status)>> : r \in db.rows[Renting(revision)]}
AirportUnlocks(db) ==
  {r \in db.rows["user_airport_unlocks"] : r.airport_id \notin DOMAIN DroppedAirports}

\* An upgrade takes nothing from a player but what 0014 and 0015 announce
\* (unlocks of dropped airports, licences for single types): users, ledger,
\* rentals with their outcome, unlocks, families and crew are all still there.
HistoryKept ==
  [][(version \in 1 .. version' - 1) =>
      (/\ content.rows["users"] = content'.rows["users"]
       /\ content.rows["wallet_ledger"] = content'.rows["wallet_ledger"]
       /\ Rentals(content, version) = Rentals(content', version')
       /\ version >= 3 => AirportUnlocks(content) = AirportUnlocks(content')
       /\ \A t \in {"user_aircraft_family_unlocks", "user_airport_crew"} :
            t \in DOMAIN content.rows => content.rows[t] = content'.rows[t])]_vars

\* Whoever signed up at whichever revision has a crew member at both starter
\* airports: 0019 gives them to the users it finds, auth_service to the rest.
StarterCrew ==
  version >= 19 =>
    \A u \in Keys(content.rows, "users"), a \in CrewAirports :
      \E r \in content.rows["user_airport_crew"] :
        r.user_id = u /\ r.airport_id = a /\ r.crew_count >= 1

=============================================================================
