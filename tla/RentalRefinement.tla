--------------------------- MODULE RentalRefinement ---------------------------
(* The concurrent transactions of FlightLifecycle keep the contract of     *)
(* RentalContract, in what they commit.                                    *)
EXTENDS FlightLifecycleInv

StageOf(row) ==
  CASE row.status = Absent                 -> "unseen"
    [] row.status = "AIRBORNE_OPEN"        -> "rentable"
    [] row.status = "AIRBORNE_LOCKED"      -> "locked"
    [] row.status = "LANDING_SUSPECTED"    -> "suspected"
    [] row.status = "RESOLVED_LANDED"      -> "landed_normally"
    [] row.status = "RESOLVED_TIMEOUT"     -> "timeout_fallback"
    [] row.status = "RESOLVED_LOST_SIGNAL" -> "lost_signal_fallback"

ContractOf(row) ==
  CASE row.status = Absent            -> "none"
    [] row.status = "FLYING"          -> "flying"
    [] row.status = "IN_PROGRESS"     -> "in_progress"
    [] row.status = "RESOLVING"       -> "resolving"
    [] row.status \in SettledStatus   -> row.resolution_reason

RC == INSTANCE RentalContract
      WITH stage <- [f \in Flights |-> StageOf(flight[f])],
           contract <- [r \in Rentals |-> ContractOf(rental[r])],
           paid <- [r \in Rentals |-> settlements[r] > 0]

(* A rental goes along with its flight from one commit to the next, is     *)
(* settled once, by the transaction that ends the flight and for the       *)
(* outcome that it commits, and is credited once settled - whatever the    *)
(* sessions had loaded and wherever they fail.                             *)
KeepsContract == RC!Spec
===============================================================================
