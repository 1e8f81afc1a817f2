---------------------------- MODULE ModelTables ----------------------------
(***************************************************************************)
(* The tables as the classes under app/models declare them: the columns    *)
(* that are NOT NULL, those that may be NULL, and the foreign keys.  The   *)
(* game's code at the head revision reads and writes these.                *)
(***************************************************************************)


LOCAL Table(required, optional, refs) ==
  [required |-> required, optional |-> optional, refs |-> refs]
LOCAL NoRefs == [c \in {} |-> {}]

User == Table({"id", "email", "password_hash", "display_name", "is_admin", "created_at"},
              {"last_login_at"}, NoRefs)

RefreshToken == Table({"id", "user_id", "token_hash", "expires_at", "created_at"},
  {"revoked_at", "replaced_by_token_id"},
  [user_id |-> "users", replaced_by_token_id |-> "refresh_tokens"])

LedgerReason == {"signup_bonus", "rental_fee", "settlement", "license_purchase",
                 "item_type_purchase", "admin_adjustment", "crew_hire"}

Wallet == Table({"user_id", "balance_credits"}, {}, [user_id |-> "users"])

WalletLedgerEntry == Table({"id", "user_id", "delta_credits", "reason", "created_at"},
  {"related_rental_id"}, [user_id |-> "users", related_rental_id |-> "rentals"])

RentalStatus == {"FLYING", "IN_PROGRESS", "RESOLVING", "RESOLVED", "CLAIMED"}

Rental == Table(
  {"id", "user_id", "tracked_flight_id", "item_type_id", "display_code", "rental_fee_credits",
   "status", "rented_at"},
  {"resolved_at", "settlement_credits", "settlement_breakdown", "resolution_reason", "claimed_at"},
  [user_id |-> "users", tracked_flight_id |-> "tracked_flights", item_type_id |-> "item_types"])

TrackedFlightStatus == {"AIRBORNE_OPEN", "AIRBORNE_LOCKED", "LANDING_SUSPECTED",
                        "RESOLVED_LANDED", "RESOLVED_TIMEOUT", "RESOLVED_LOST_SIGNAL"}

TrackedFlight == Table(
  {"id", "icao24", "origin_airport_id", "first_seen_at", "first_seen_lat", "first_seen_lon",
   "last_seen_at", "status", "capacity_open", "created_at"},
  {"callsign", "aircraft_type_id", "first_seen_alt", "first_seen_velocity",
   "first_seen_vertical_rate", "last_seen_lat", "last_seen_lon", "last_seen_alt",
   "last_seen_velocity", "last_seen_vertical_rate", "last_seen_on_ground",
   "landing_suspected_at", "resolved_at", "resolution_summary", "last_status_check_at"},
  [origin_airport_id |-> "airports", aircraft_type_id |-> "aircraft_types"])

FlightStateSample == Table({"id", "tracked_flight_id", "observed_at"},
  {"lat", "lon", "baro_altitude", "velocity", "vertical_rate", "on_ground", "raw"},
  [tracked_flight_id |-> "tracked_flights"])

Airport == Table(
  {"id", "icao4", "name", "city", "country", "lat", "lon", "bbox_lamin", "bbox_lomin",
   "bbox_lamax", "bbox_lomax", "is_starter", "is_active", "unlock_cost_credits"},
  {"iata", "last_polled_at"}, NoRefs)

AircraftType == Table({"id", "icao_type_code", "name", "manufacturer", "is_active"},
                      {"family_id"}, [family_id |-> "aircraft_families"])

AircraftFamily ==
  Table({"id", "code", "name", "is_starter", "unlock_cost_credits", "is_active"}, {}, NoRefs)

ItemCategory == {"CARGO", "PASSENGER"}

ItemType == Table({"id", "code", "name", "category", "flavor_text", "settlement_multiplier",
                   "base_cost_credits", "is_active"}, {}, NoRefs)

UserAirportUnlock == Table({"user_id", "airport_id", "unlocked_at"}, {},
                           [user_id |-> "users", airport_id |-> "airports"])
UserAircraftFamilyUnlock == Table({"user_id", "family_id", "unlocked_at"}, {},
                                  [user_id |-> "users", family_id |-> "aircraft_families"])

UserAirportCrew == Table({"user_id", "airport_id", "crew_count"}, {},
                         [user_id |-> "users", airport_id |-> "airports"])

\* Base.metadata: the class of each table.
Metadata ==
  [users |-> User, refresh_tokens |-> RefreshToken, wallets |-> Wallet,
   wallet_ledger |-> WalletLedgerEntry, rentals |-> Rental, tracked_flights |-> TrackedFlight,
   flight_state_samples |-> FlightStateSample, airports |-> Airport,
   aircraft_types |-> AircraftType, aircraft_families |-> AircraftFamily,
   item_types |-> ItemType, user_airport_unlocks |-> UserAirportUnlock,
   user_aircraft_family_unlocks |-> UserAircraftFamilyUnlock,
   user_airport_crew |-> UserAirportCrew]

=============================================================================
