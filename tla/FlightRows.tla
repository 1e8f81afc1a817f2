------------------------------ MODULE FlightRows ------------------------------
(***************************************************************************)
(* The rows of tracked_flights and rentals, reduced to the columns that    *)
(* the lifecycle reads and writes, and what each lifecycle function of     *)
(* rental_service does to them.  Pure operators, no state.                 *)
(* A definition whose name ends in Fault is a faulty form of the one after *)
(* it, which a check of the properties puts in its place.                  *)
(***************************************************************************)

OpenStatus     == {"AIRBORNE_OPEN", "AIRBORNE_LOCKED", "LANDING_SUSPECTED"}
ResolvedStatus == {"RESOLVED_LANDED", "RESOLVED_TIMEOUT", "RESOLVED_LOST_SIGNAL"}

BusyStatus    == {"FLYING", "IN_PROGRESS", "RESOLVING"}
SettledStatus == {"RESOLVED", "CLAIMED"}

Reason == {"landed_normally", "timeout_fallback", "lost_signal_fallback"}

(* An id whose row has not been inserted has status Absent.  The timestamp *)
(* landing_suspected_at is reduced to whether it is set.                   *)
Absent == "absent"

FlightRow == [status : OpenStatus \cup ResolvedStatus \cup {Absent},
              capacity_open : BOOLEAN, landing_suspected : BOOLEAN]
(* resolution_reason is set exactly on settled rentals.                    *)
RentalRow == [status : BusyStatus \cup {Absent}, resolution_reason : {"null"}]
             \cup [status : SettledStatus, resolution_reason : Reason]

NoFlight == [status |-> Absent, capacity_open |-> FALSE, landing_suspected |-> FALSE]
NoRental == [status |-> Absent, resolution_reason |-> "null"]

-------------------------------------------------------------------------------
(* The row create_tracked_flight and create_rental insert.                 *)
CreatedFlight ==
  [status |-> "AIRBORNE_OPEN", capacity_open |-> TRUE, landing_suspected |-> FALSE]
CreatedRental == [status |-> "FLYING", resolution_reason |-> "null"]

(* create_rental's first check: both columns are tested.                   *)
Rentable(row) == row.capacity_open /\ row.status = "AIRBORNE_OPEN"

(* The attribute assignments each function makes on the loaded flight.     *)
LockedFlight(row) == [row EXCEPT !.status = "AIRBORNE_LOCKED", !.capacity_open = FALSE]
SuspectedFlight(row) ==
  [row EXCEPT !.status = "LANDING_SUSPECTED", !.landing_suspected = TRUE]
RolledBackFlight(row) ==
  [row EXCEPT !.status = "AIRBORNE_LOCKED", !.landing_suspected = FALSE]
ResolvedFlightFault(row, status) == [row EXCEPT !.status = status]
ResolvedFlight(row, status) == [row EXCEPT !.status = status, !.capacity_open = FALSE]

ReasonOfFault(status) ==
  IF status = "RESOLVED_LANDED" THEN "landed_normally" ELSE "timeout_fallback"
ReasonOf(status) ==
  CASE status = "RESOLVED_LANDED"      -> "landed_normally"
    [] status = "RESOLVED_TIMEOUT"     -> "timeout_fallback"
    [] status = "RESOLVED_LOST_SIGNAL" -> "lost_signal_fallback"

(* What happens to a rental of the flight: the WHERE of the SELECT is the  *)
(* condition, the assignment in the loop is the new row.                   *)
Advance(row, from, to) ==
  IF row.status = from THEN [row EXCEPT !.status = to] ELSE row

(* resolve_tracked_flight selects the rentals by status, not all of them.  *)
SettleFault(row, reason) ==
  IF row.status = Absent THEN row
  ELSE [status |-> "RESOLVED", resolution_reason |-> reason]
SettleReasonFault(row, reason) == Advance(row, "RESOLVING", "RESOLVED")
Settle(row, reason) ==
  IF row.status \in BusyStatus
  THEN [status |-> "RESOLVED", resolution_reason |-> reason]
  ELSE row

ClaimedRentalFault(row) == row
ClaimedRental(row) == [row EXCEPT !.status = "CLAIMED"]

(* An UPDATE writes the attributes that differ from the loaded ones over   *)
(* the newest version of the row, whatever that version holds by then.     *)
OverlayFault(current, loaded, assigned) == assigned
Overlay(current, loaded, assigned) ==
  [c \in DOMAIN current |->
     IF assigned[c] = loaded[c] THEN current[c] ELSE assigned[c]]
===============================================================================
