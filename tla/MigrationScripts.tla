-------------------------- MODULE MigrationScripts --------------------------
(***************************************************************************)
(* The 22 revisions under alembic/versions, each as the statements of its  *)
(* upgrade and of its downgrade in the order it issues them.  Column types *)
(* and lengths, and the texts of the seeded rows, are left out; prices,    *)
(* flags, families and multipliers (in hundredths) are kept.               *)
(***************************************************************************)
EXTENDS SqlTables

-----------------------------------------------------------------------------
(* 0001: the initial schema.                                               *)

FlightStatuses == {"AIRBORNE_OPEN", "AIRBORNE_LOCKED", "LANDING_SUSPECTED",
                   "RESOLVED_LANDED", "RESOLVED_TIMEOUT", "RESOLVED_LOST_SIGNAL"}
BetReasons == {"signup_bonus", "bet_stake", "bet_payout", "license_purchase",
               "cargo_purchase", "admin_adjustment"}
BetStatuses == {"PENDING", "IN_PROGRESS", "RESOLVING", "RESOLVED"}

Accounts0001 == <<
  CreateTable("users",
    {"id", "email", "password_hash", "display_name", "is_admin", "created_at"},
    {"last_login_at"}, NoFields),
  CreateIndex("ix_users_email", "users"),
  CreateTable("refresh_tokens", {"id", "user_id", "token_hash", "expires_at", "created_at"},
    {"revoked_at", "replaced_by_token_id"},
    [user_id |-> "users", replaced_by_token_id |-> "refresh_tokens"]),
  CreateIndex("ix_refresh_tokens_user_id", "refresh_tokens"),
  CreateIndex("ix_refresh_tokens_token_hash", "refresh_tokens") >>

Catalogue0001 == <<
  CreateTable("airports",
    {"id", "icao4", "name", "city", "country", "lat", "lon", "bbox_lamin", "bbox_lomin",
     "bbox_lamax", "bbox_lomax", "is_starter", "is_active"}, {"iata"}, NoFields),
  CreateIndex("ix_airports_icao4", "airports"),
  CreateTable("cargo_types",
    {"id", "code", "name", "flavor_text", "payout_multiplier", "base_cost_credits", "is_active"},
    {}, NoFields),
  CreateIndex("ix_cargo_types_code", "cargo_types") >>

Flights0001 == <<
  CreateTable("tracked_flights",
    {"id", "icao24", "origin_airport_id", "first_seen_at", "first_seen_lat", "first_seen_lon",
     "last_seen_at", "status", "bets_open", "created_at"},
    {"callsign", "first_seen_alt", "first_seen_velocity", "first_seen_vertical_rate",
     "last_seen_lat", "last_seen_lon", "last_seen_alt", "last_seen_velocity",
     "last_seen_vertical_rate", "last_seen_on_ground", "landing_suspected_at",
     "resolved_at", "resolution_summary"},
    [origin_airport_id |-> "airports"]),
  AddCheck("ck_tracked_flights_status", "tracked_flights", "status", FlightStatuses),
  CreateIndex("ix_tracked_flights_icao24", "tracked_flights"),
  CreateIndex("ix_tracked_flights_open_icao24", "tracked_flights"),
  CreateTable("flight_state_samples", {"id", "tracked_flight_id", "observed_at"},
    {"lat", "lon", "baro_altitude", "velocity", "vertical_rate", "on_ground", "raw"},
    [tracked_flight_id |-> "tracked_flights"]),
  CreateIndex("ix_flight_state_samples_tracked_flight_id", "flight_state_samples") >>

Money0001 == <<
  CreateTable("wallets", {"user_id", "balance_credits"}, {}, [user_id |-> "users"]),
  AddCheck("ck_wallet_balance_nonneg", "wallets", "balance_credits", {}),
  CreateTable("bets",
    {"id", "user_id", "tracked_flight_id", "cargo_type_id", "stake_credits", "status", "placed_at"},
    {"resolved_at", "payout_credits", "payout_breakdown", "resolution_reason"},
    [user_id |-> "users", tracked_flight_id |-> "tracked_flights", cargo_type_id |-> "cargo_types"]),
  AddCheck("ck_bets_status", "bets", "status", BetStatuses),
  AddCheck("ck_bets_stake_positive", "bets", "stake_credits", {}),
  CreateIndex("ix_bets_user_id", "bets"),
  CreateIndex("ix_bets_tracked_flight_id", "bets"),
  CreateTable("wallet_ledger", {"id", "user_id", "delta_credits", "reason", "created_at"},
    {"related_bet_id"}, [user_id |-> "users", related_bet_id |-> "bets"]),
  AddCheck("ck_wallet_ledger_reason", "wallet_ledger", "reason", BetReasons),
  CreateIndex("ix_wallet_ledger_user_id", "wallet_ledger") >>

Up0001 == Accounts0001 \o Catalogue0001 \o Flights0001 \o Money0001

Down0001 == <<
  DropTable("wallet_ledger"), DropTable("bets"), DropTable("wallets"),
  DropTable("flight_state_samples"), DropIndex("ix_tracked_flights_open_icao24"),
  DropTable("tracked_flights"), DropTable("cargo_types"), DropTable("airports"),
  DropTable("refresh_tokens"), DropTable("users") >>

-----------------------------------------------------------------------------
(* 0002-0004: starter airports and cargo, then aircraft, licences and the  *)
(* airports and types that have to be unlocked.                            *)

StarterAirports == {"EHAM", "EDDF", "EGLL", "KATL", "OMDB"}
\* code -> <<multiplier, minimum fee>>
CargoTypes == [PINEAPPLES |-> <<110, 0>>, FRAGILE_GOODS |-> <<135, 100>>,
               VIP_PASSENGER |-> <<175, 250>>]

\* BBOX_MARGIN, in hundredths of a degree; bbox_margin stands for the four
\* columns bbox_*, which all follow from it.
BboxMargin == 100

AirportRow(code, starter) ==
  [icao4 |-> code, is_starter |-> starter, is_active |-> starter, bbox_margin |-> BboxMargin]
PricedAirports(prices) ==
  {AirportRow(c, FALSE) @@ [unlock_cost_credits |-> prices[c]] : c \in DOMAIN prices}

Up0002 == <<
  Insert("airports", {AirportRow(c, TRUE) : c \in StarterAirports}),
  Insert("cargo_types", {[code |-> c, payout_multiplier |-> CargoTypes[c][1],
                          base_cost_credits |-> CargoTypes[c][2], is_active |-> TRUE]
                         : c \in DOMAIN CargoTypes}) >>
Down0002 == << Delete("cargo_types", "code", DOMAIN CargoTypes),
               Delete("airports", "icao4", StarterAirports) >>

CreateRegistry == <<
  CreateTable("aircraft_registry", {"icao24", "aircraft_type_id", "updated_at"}, {"registration"},
              [aircraft_type_id |-> "aircraft_types"]),
  CreateIndex("ix_aircraft_registry_aircraft_type_id", "aircraft_registry") >>
CreateTypeUnlocks ==
  CreateTable("user_aircraft_type_unlocks", {"user_id", "aircraft_type_id", "unlocked_at"}, {},
              [user_id |-> "users", aircraft_type_id |-> "aircraft_types"])

Up0003 == <<
  CreateTable("aircraft_types",
    {"id", "icao_type_code", "name", "manufacturer", "is_starter", "unlock_cost_credits",
     "is_active"}, {}, NoFields),
  CreateIndex("ix_aircraft_types_icao_type_code", "aircraft_types") >> \o CreateRegistry \o <<
  CreateTable("user_airport_unlocks", {"user_id", "airport_id", "unlocked_at"}, {},
              [user_id |-> "users", airport_id |-> "airports"]),
  CreateTypeUnlocks,
  AddRequired("airports", "unlock_cost_credits", 0),
  AddReference("tracked_flights", "aircraft_type_id", "aircraft_types"),
  CreateIndex("ix_tracked_flights_aircraft_type_id", "tracked_flights") >>
Down0003 == <<
  DropIndex("ix_tracked_flights_aircraft_type_id"),
  DropColumn("tracked_flights", "aircraft_type_id"),
  DropColumn("airports", "unlock_cost_credits"),
  DropTable("user_aircraft_type_unlocks"), DropTable("user_airport_unlocks"),
  DropTable("aircraft_registry"), DropTable("aircraft_types") >>

LockedAirports ==
  [KJFK |-> 400, KLAX |-> 450, CYYZ |-> 350, LFPG |-> 400, LEMD |-> 400, LIRF |-> 450,
   EDDM |-> 350, EKCH |-> 350, LTFM |-> 500, SBGR |-> 600, FAOR |-> 700, VABB |-> 650,
   WSSS |-> 600, RJTT |-> 700, YSSY |-> 800]
StarterTypes == {"A320", "A321", "B738", "B38M", "E190"}
AircraftTypes ==
  [ATR72 |-> 300, B39M |-> 350, B788 |-> 400, B77W |-> 400, A359 |-> 450, A388 |-> 500,
   B744 |-> 500, B748 |-> 550, A124 |-> 650, A339 |-> 600] @@ [c \in StarterTypes |-> 0]

Up0004 == <<
  Insert("airports", PricedAirports(LockedAirports)),
  Insert("aircraft_types",
    {[icao_type_code |-> c, is_starter |-> c \in StarterTypes,
      unlock_cost_credits |-> AircraftTypes[c], is_active |-> TRUE] : c \in DOMAIN AircraftTypes}) >>
Down0004 == << Delete("aircraft_types", "icao_type_code", DOMAIN AircraftTypes),
               Delete("airports", "icao4", DOMAIN LockedAirports) >>

-----------------------------------------------------------------------------
(* 0005-0007: bets become rentals, cargo types become item types; the real *)
(* cargo roster; wider boxes.                                              *)

RentalReasons == {"signup_bonus", "rental_fee", "settlement", "license_purchase",
                  "item_type_purchase", "admin_adjustment"}

Up0005 == <<
  RenameTable("bets", "rentals"),
  RenameColumn("rentals", "cargo_type_id", "item_type_id"),
  RenameColumn("rentals", "stake_credits", "rental_fee_credits"),
  RenameColumn("rentals", "placed_at", "rented_at"),
  RenameColumn("rentals", "payout_credits", "settlement_credits"),
  RenameColumn("rentals", "payout_breakdown", "settlement_breakdown"),
  RenameIndex("ix_bets_user_id", "ix_rentals_user_id"),
  RenameIndex("ix_bets_tracked_flight_id", "ix_rentals_tracked_flight_id"),
  RenameCheck("ck_bets_status", "ck_rentals_status"),
  RenameCheck("ck_bets_stake_positive", "ck_rentals_rental_fee_positive"),
  RenameTable("cargo_types", "item_types"),
  RenameColumn("item_types", "payout_multiplier", "settlement_multiplier"),
  RenameIndex("ix_cargo_types_code", "ix_item_types_code"),
  AddOptional("item_types", "category"),
  Update("item_types", "code", {"VIP_PASSENGER"}, [category |-> "PASSENGER"]),
  Update("item_types", "category", {Null}, [category |-> "CARGO"]),
  SetNotNull("item_types", "category"),
  AddCheck("ck_item_types_category", "item_types", "category", {"CARGO", "PASSENGER"}),
  Update("wallet_ledger", "reason", {"bet_stake"}, [reason |-> "rental_fee"]),
  Update("wallet_ledger", "reason", {"bet_payout"}, [reason |-> "settlement"]),
  Update("wallet_ledger", "reason", {"cargo_purchase"}, [reason |-> "item_type_purchase"]),
  DropCheck("ck_wallet_ledger_reason"),
  AddCheck("ck_wallet_ledger_reason", "wallet_ledger", "reason", RentalReasons),
  RenameColumn("wallet_ledger", "related_bet_id", "related_rental_id"),
  RenameColumn("tracked_flights", "bets_open", "capacity_open") >>
Down0005 == <<
  RenameColumn("tracked_flights", "capacity_open", "bets_open"),
  RenameColumn("wallet_ledger", "related_rental_id", "related_bet_id"),
  DropCheck("ck_wallet_ledger_reason"),
  AddCheck("ck_wallet_ledger_reason", "wallet_ledger", "reason", BetReasons),
  Update("wallet_ledger", "reason", {"rental_fee"}, [reason |-> "bet_stake"]),
  Update("wallet_ledger", "reason", {"settlement"}, [reason |-> "bet_payout"]),
  Update("wallet_ledger", "reason", {"item_type_purchase"}, [reason |-> "cargo_purchase"]),
  DropCheck("ck_item_types_category"),
  DropColumn("item_types", "category"),
  RenameIndex("ix_item_types_code", "ix_cargo_types_code"),
  RenameColumn("item_types", "settlement_multiplier", "payout_multiplier"),
  RenameTable("item_types", "cargo_types"),
  RenameCheck("ck_rentals_rental_fee_positive", "ck_bets_stake_positive"),
  RenameCheck("ck_rentals_status", "ck_bets_status"),
  RenameIndex("ix_rentals_tracked_flight_id", "ix_bets_tracked_flight_id"),
  RenameIndex("ix_rentals_user_id", "ix_bets_user_id"),
  RenameColumn("rentals", "settlement_breakdown", "payout_breakdown"),
  RenameColumn("rentals", "settlement_credits", "payout_credits"),
  RenameColumn("rentals", "rented_at", "placed_at"),
  RenameColumn("rentals", "rental_fee_credits", "stake_credits"),
  RenameColumn("rentals", "item_type_id", "cargo_type_id"),
  RenameTable("rentals", "bets") >>

RetiredItems == {"PINEAPPLES", "FRAGILE_GOODS"}
NewCargoItems == [FRUIT_AND_VEGETABLES |-> <<115, 0>>, ELECTRONICS |-> <<140, 100>>,
                  MEDICAL |-> <<160, 200>>]

ItemRows(items, category) ==
  {[code |-> c, category |-> category, settlement_multiplier |-> items[c][1],
    base_cost_credits |-> items[c][2], is_active |-> TRUE] : c \in DOMAIN items}

Up0006 == << Update("item_types", "code", RetiredItems, [is_active |-> FALSE]),
             Insert("item_types", ItemRows(NewCargoItems, "CARGO")) >>
Down0006 == << Delete("item_types", "code", DOMAIN NewCargoItems),
               Update("item_types", "code", RetiredItems, [is_active |-> TRUE]) >>

OldMargin == 35
SetMargins(margin) == << Update("airports", "bbox_margin", {OldMargin, BboxMargin},
                                [bbox_margin |-> margin]) >>
Up0007 == SetMargins(BboxMargin)
Down0007 == SetMargins(OldMargin)

-----------------------------------------------------------------------------
(* 0008-0014: the poller's heartbeat comes and goes, throttles, claimed    *)
(* rentals, fewer airports.                                                *)

HeartbeatRequired == {"id", "last_tick_at", "updated_at"}
HeartbeatOptional == {"last_success_at", "last_error", "credits_remaining"}

Up0008 == << CreateTable("poller_heartbeats", HeartbeatRequired, HeartbeatOptional, NoFields) >>
Down0008 == << DropTable("poller_heartbeats") >>

Up0009 == << AddOptional("poller_heartbeats", "last_opensky_status"),
             AddOptional("poller_heartbeats", "last_opensky_detail") >>
Down0009 == << DropColumn("poller_heartbeats", "last_opensky_detail"),
               DropColumn("poller_heartbeats", "last_opensky_status") >>

Up0010 == << AddOptional("tracked_flights", "last_status_check_at") >>
Down0010 == << DropColumn("tracked_flights", "last_status_check_at") >>

Up0011 == <<
  AddOptional("rentals", "claimed_at"),
  DropCheck("ck_rentals_status"),
  AddCheck("ck_rentals_status", "rentals", "status", BetStatuses \cup {"CLAIMED"}) >>
Down0011 == <<
  DropCheck("ck_rentals_status"),
  AddCheck("ck_rentals_status", "rentals", "status", BetStatuses),
  DropColumn("rentals", "claimed_at") >>

Up0012 == << AddOptional("airports", "last_polled_at") >>
Down0012 == << DropColumn("airports", "last_polled_at") >>

Up0013 == << DropTable("poller_heartbeats") >>
\* A fault: the downgrade forgets the columns of 0009.
Down0013Fault == <<
  CreateTable("poller_heartbeats", HeartbeatRequired, HeartbeatOptional, NoFields) >>

Down0013 == <<
  CreateTable("poller_heartbeats", HeartbeatRequired,
              HeartbeatOptional \cup {"last_opensky_status", "last_opensky_detail"}, NoFields) >>
DroppedAirports ==
  [KLAX |-> 450, CYYZ |-> 350, LEMD |-> 400, LIRF |-> 450, EDDM |-> 350, EKCH |-> 350,
   SBGR |-> 600, FAOR |-> 700, VABB |-> 650, YSSY |-> 800]

\* A fault: all airports with a price lose their unlocks.
Up0014Fault == << Delete("user_airport_unlocks", "airport_id", DOMAIN LockedAirports),
                  Delete("airports", "icao4", DOMAIN DroppedAirports) >>

Up0014 == << Delete("user_airport_unlocks", "airport_id", DOMAIN DroppedAirports),
             Delete("airports", "icao4", DOMAIN DroppedAirports) >>
Down0014 == << Insert("airports", PricedAirports(DroppedAirports)) >>

-----------------------------------------------------------------------------
(* 0015-0017: licences move from aircraft types to families.               *)

Up0015 == <<
  CreateTable("aircraft_families",
    {"id", "code", "name", "is_starter", "unlock_cost_credits", "is_active"}, {}, NoFields),
  CreateIndex("ix_aircraft_families_code", "aircraft_families"),
  AddReference("aircraft_types", "family_id", "aircraft_families"),
  CreateIndex("ix_aircraft_types_family_id", "aircraft_types"),
  CreateTable("user_aircraft_family_unlocks", {"user_id", "family_id", "unlocked_at"}, {},
              [user_id |-> "users", family_id |-> "aircraft_families"]),
  DropTable("user_aircraft_type_unlocks"),
  DropColumn("aircraft_types", "is_starter"),
  DropColumn("aircraft_types", "unlock_cost_credits") >>

\* ORIGINAL_TYPE_VALUES
OriginalTypeCosts ==
  [A320 |-> 0, A321 |-> 0, B738 |-> 0, B38M |-> 0, E190 |-> 0, ATR72 |-> 300, B39M |-> 350,
   B788 |-> 400, B77W |-> 400, A359 |-> 450, A388 |-> 500, B744 |-> 500, B748 |-> 550,
   A124 |-> 650, A339 |-> 600]
OriginalTypeStarters == {"A320", "A321", "B738", "B38M", "E190"}
RestoreTypeValues ==
  UpdateEach("aircraft_types", "icao_type_code",
    [c \in DOMAIN OriginalTypeCosts |-> [is_starter |-> c \in OriginalTypeStarters,
                                         unlock_cost_credits |-> OriginalTypeCosts[c]]])

Down0015 == <<
  AddRequired("aircraft_types", "unlock_cost_credits", 0),
  AddRequired("aircraft_types", "is_starter", FALSE),
  RestoreTypeValues,
  CreateTypeUnlocks,
  DropIndex("ix_aircraft_types_family_id"),
  DropColumn("aircraft_types", "family_id"),
  DropTable("user_aircraft_family_unlocks"),
  DropIndex("ix_aircraft_families_code"),
  DropTable("aircraft_families") >>

StarterFamilies == {"A320_FAMILY", "B737_FAMILY"}
Families == [A320_FAMILY |-> 0, B737_FAMILY |-> 0, EMBRAER_EJET_FAMILY |-> 350,
             CRJ_FAMILY |-> 350, B777_FAMILY |-> 550, B787_FAMILY |-> 600]

\* REUSED_TYPE_FAMILY, by family.
ReusedTypes ==
  [A320_FAMILY |-> {"A320", "A321"}, B737_FAMILY |-> {"B738", "B38M", "B39M"},
   EMBRAER_EJET_FAMILY |-> {"E190"}, B787_FAMILY |-> {"B788"}, B777_FAMILY |-> {"B77W"}]
RetiredTypes == {"ATR72", "A359", "A388", "B744", "B748", "A124", "A339"}
\* NEW_TYPES, by family.
NewTypes ==
  [A320_FAMILY |-> {"A318", "A319", "A20N", "A21N"},
   B737_FAMILY |-> {"B734", "B735", "B736", "B737", "B739", "B37M"},
   EMBRAER_EJET_FAMILY |-> {"E135", "E145", "E170", "E175", "E195", "E75L", "E75S", "E290", "E295"},
   CRJ_FAMILY |-> {"CRJ2", "CRJ7", "CRJ9", "CRJX", "CL60"},
   B777_FAMILY |-> {"B772", "B773", "B77L"}, B787_FAMILY |-> {"B789", "B78X"}]
TypesOf(byFamily) == UNION {byFamily[f] : f \in DOMAIN byFamily}
AssignFamilies ==
  UpdateEach("aircraft_types", "icao_type_code",
    [c \in TypesOf(ReusedTypes) |->
       [family_id |-> CHOOSE f \in DOMAIN ReusedTypes : c \in ReusedTypes[f]]])

Up0016 == <<
  Insert("aircraft_families",
    {[code |-> c, is_starter |-> c \in StarterFamilies, unlock_cost_credits |-> Families[c],
      is_active |-> TRUE] : c \in DOMAIN Families}),
  AssignFamilies,
  Update("aircraft_types", "icao_type_code", RetiredTypes, [is_active |-> FALSE, family_id |-> Null]),
  Insert("aircraft_types",
    UNION {{[icao_type_code |-> c, family_id |-> f, is_active |-> TRUE] : c \in NewTypes[f]}
           : f \in DOMAIN NewTypes}),
  AddCheckWhen("ck_aircraft_types_active_requires_family", "aircraft_types", "family_id",
               DOMAIN Families, [is_active |-> TRUE]) >>
Down0016 == <<
  DropCheck("ck_aircraft_types_active_requires_family"),
  Delete("aircraft_types", "icao_type_code", TypesOf(NewTypes)),
  Update("aircraft_types", "icao_type_code", RetiredTypes, [is_active |-> TRUE, family_id |-> Null]),
  Update("aircraft_types", "icao_type_code", TypesOf(ReusedTypes), [family_id |-> Null]),
  Delete("aircraft_families", "code", DOMAIN Families) >>

Up0017 == << DropIndex("ix_aircraft_registry_aircraft_type_id"), DropTable("aircraft_registry") >>
Down0017 == CreateRegistry

-----------------------------------------------------------------------------
(* 0018-0022: display codes, crew, FLYING, passenger tiers, prices.        *)

\* A fault: display_code stays nullable.
Up0018Fault == << AddOptional("rentals", "display_code"), FillUnique("rentals", "display_code"),
                  CreateIndex("ix_rentals_display_code", "rentals") >>

\* The backfill finds a rental's flight by an inner join, so that a rental
\* without one would keep NULL; twenty collisions in a row are left out.
Up0018 == << AddOptional("rentals", "display_code"), FillUnique("rentals", "display_code"),
             SetNotNull("rentals", "display_code"),
             CreateIndex("ix_rentals_display_code", "rentals") >>
Down0018 == << DropIndex("ix_rentals_display_code"), DropColumn("rentals", "display_code") >>

CrewAirports == {"OMDB", "EDDF"}

\* A fault: users who signed up before get no crew.
Up0019Fault == <<
  CreateTable("user_airport_crew", {"user_id", "airport_id", "crew_count"}, {},
              [user_id |-> "users", airport_id |-> "airports"]),
  DropCheck("ck_wallet_ledger_reason"),
  AddCheck("ck_wallet_ledger_reason", "wallet_ledger", "reason", RentalReasons \cup {"crew_hire"}) >>

Up0019 == <<
  CreateTable("user_airport_crew", {"user_id", "airport_id", "crew_count"}, {},
              [user_id |-> "users", airport_id |-> "airports"]),
  DropCheck("ck_wallet_ledger_reason"),
  AddCheck("ck_wallet_ledger_reason", "wallet_ledger", "reason", RentalReasons \cup {"crew_hire"}),
  InsertCross("user_airport_crew", "users", "user_id", "airport_id", CrewAirports,
              [crew_count |-> 1]) >>
Down0019 == <<
  DropCheck("ck_wallet_ledger_reason"),
  AddCheck("ck_wallet_ledger_reason", "wallet_ledger", "reason", RentalReasons),
  DropTable("user_airport_crew") >>

FlyingStatuses == {"FLYING", "IN_PROGRESS", "RESOLVING", "RESOLVED", "CLAIMED"}

\* A fault: the rows are rewritten under the old CHECK, as in 0005.
Up0020Fault == <<
  Update("rentals", "status", {"PENDING"}, [status |-> "FLYING"]),
  DropCheck("ck_rentals_status"),
  AddCheck("ck_rentals_status", "rentals", "status", FlyingStatuses) >>

Up0020 == <<
  DropCheck("ck_rentals_status"),
  Update("rentals", "status", {"PENDING"}, [status |-> "FLYING"]),
  AddCheck("ck_rentals_status", "rentals", "status", FlyingStatuses) >>
Down0020 == <<
  DropCheck("ck_rentals_status"),
  Update("rentals", "status", {"FLYING"}, [status |-> "PENDING"]),
  AddCheck("ck_rentals_status", "rentals", "status", BetStatuses \cup {"CLAIMED"}) >>

NewPassengerItems == [ECONOMY_PASSENGER |-> <<120, 0>>, BUSINESS_PASSENGER |-> <<150, 150>>]

Up0021 == << Insert("item_types", ItemRows(NewPassengerItems, "PASSENGER")) >>
Down0021 == << Delete("item_types", "code", DOMAIN NewPassengerItems) >>

SetPrices(airports, families, items) ==
  LET Set(t, key, column, prices) ==
        UpdateEach(t, key, [c \in DOMAIN prices |-> column :> prices[c]])
  IN << Set("airports", "icao4", "unlock_cost_credits", airports),
        Set("aircraft_families", "code", "unlock_cost_credits", families),
        Set("item_types", "code", "base_cost_credits", items) >>

Up0022 == SetPrices(
  [KJFK |-> 800, LFPG |-> 800, LTFM |-> 1000, WSSS |-> 1200, RJTT |-> 1400],
  [EMBRAER_EJET_FAMILY |-> 700, CRJ_FAMILY |-> 700, B777_FAMILY |-> 1100, B787_FAMILY |-> 1200],
  [BUSINESS_PASSENGER |-> 250, MEDICAL |-> 500, VIP_PASSENGER |-> 1000])
\* A fault: one price is not put back.
Down0022Fault == SetPrices(
  [KJFK |-> 400, LFPG |-> 400, LTFM |-> 500, WSSS |-> 600, RJTT |-> 700],
  [EMBRAER_EJET_FAMILY |-> 350, CRJ_FAMILY |-> 350, B777_FAMILY |-> 550, B787_FAMILY |-> 600],
  [BUSINESS_PASSENGER |-> 150, VIP_PASSENGER |-> 250])

Down0022 == SetPrices(
  [KJFK |-> 400, LFPG |-> 400, LTFM |-> 500, WSSS |-> 600, RJTT |-> 700],
  [EMBRAER_EJET_FAMILY |-> 350, CRJ_FAMILY |-> 350, B777_FAMILY |-> 550, B787_FAMILY |-> 600],
  [BUSINESS_PASSENGER |-> 150, MEDICAL |-> 200, VIP_PASSENGER |-> 250])

-----------------------------------------------------------------------------
(* The chain of revisions: revision and down_revision of each script.      *)

HeadRevision == 22

Upgrades == << Up0001, Up0002, Up0003, Up0004, Up0005, Up0006, Up0007, Up0008, Up0009, Up0010,
               Up0011, Up0012, Up0013, Up0014, Up0015, Up0016, Up0017, Up0018, Up0019, Up0020,
               Up0021, Up0022 >>
Downgrades == << Down0001, Down0002, Down0003, Down0004, Down0005, Down0006, Down0007, Down0008,
                 Down0009, Down0010, Down0011, Down0012, Down0013, Down0014, Down0015, Down0016,
                 Down0017, Down0018, Down0019, Down0020, Down0021, Down0022 >>

=============================================================================
