------------------------------ MODULE AdsbReports ------------------------------
(***************************************************************************)
(* What adsb.fi reports of an aircraft, what the client makes of it, and   *)
(* the two tests that the tracker applies.  Pure operators, no state.      *)
(*                                                                         *)
(* A value that may be None is a set of at most one number.  Lengths are   *)
(* in 1/10000 m, speeds in 1/1000000 m/s, climb rates in 1/100000 m/s, so  *)
(* that the factors of the client are integers.                            *)
(***************************************************************************)
EXTENDS Integers

FEET_TO_M   == 3048
KNOTS_TO_MS == 514444
FPM_TO_MS   == 508

TAKEOFF_MAX_ALTITUDE_M                == 3000 * 10000
TAKEOFF_VERTICAL_RATE_REJECT_BELOW_MS == 0
TAKEOFF_MAX_DISTANCE_KM               == 50
LANDING_MAX_ALTITUDE_M                == 150 * 10000
LANDING_MAX_VELOCITY_MS               == 40 * 1000000
LANDING_MAX_ABS_VERTICAL_RATE_MS      == 2 * 100000

Optional(S) == {{}} \cup {{x} : x \in S}

(* The fields of a record that the tests depend on, with values on either  *)
(* side of each threshold.  alt_baro is a number, missing, or "ground";    *)
(* baro_rate may be missing or null, which the client tells apart.  The    *)
(* distance from the airport stands for lat and lon.                       *)
JsonRecords ==
  [ground : BOOLEAN, alt_baro : Optional({492, 493, 9842, 9843}),
   alt_geom : Optional({492, 9842, 9843}), gs : Optional({77, 78}),
   has_baro_rate : BOOLEAN, baro_rate : Optional({-394, -393, 0, 394}),
   geom_rate : Optional({-1, 393}), distance : Optional({50, 51})]

Scale(value, factor) == {x * factor : x \in value}

(* StateVector.from_adsb_json                                              *)
StateVector(record) ==
  [on_ground     |-> record.ground,
   baro_altitude |-> IF record.ground THEN {} ELSE Scale(record.alt_baro, FEET_TO_M),
   geo_altitude  |-> Scale(record.alt_geom, FEET_TO_M),
   velocity      |-> Scale(record.gs, KNOTS_TO_MS),
   vertical_rate |-> Scale(IF record.has_baro_rate THEN record.baro_rate
                           ELSE record.geom_rate, FPM_TO_MS),
   distance      |-> record.distance]

looks_like_recent_takeoff(state) ==
  LET altitude == IF state.baro_altitude # {} THEN state.baro_altitude
                  ELSE state.geo_altitude
  IN  /\ ~state.on_ground
      /\ state.distance # {} /\ altitude # {}
      /\ \A h \in altitude : h <= TAKEOFF_MAX_ALTITUDE_M
      /\ \A v \in state.vertical_rate : v >= TAKEOFF_VERTICAL_RATE_REJECT_BELOW_MS
      /\ \A d \in state.distance : d <= TAKEOFF_MAX_DISTANCE_KM

looks_like_landing(state) ==
  \/ state.on_ground
  \/ \E h \in state.baro_altitude, s \in state.velocity, v \in state.vertical_rate :
       /\ h <= LANDING_MAX_ALTITUDE_M
       /\ s <= LANDING_MAX_VELOCITY_MS
       /\ v <= LANDING_MAX_ABS_VERTICAL_RATE_MS
       /\ -v <= LANDING_MAX_ABS_VERTICAL_RATE_MS

(* The reports a flight can get, as far as the tests tell them apart.      *)
Reports ==
  {[on_ground |-> s.on_ground, takeoff |-> looks_like_recent_takeoff(s),
    landing |-> looks_like_landing(s)] : s \in {StateVector(r) : r \in JsonRecords}}
===============================================================================
