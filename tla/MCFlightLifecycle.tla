--------------------------- MODULE MCFlightLifecycle ---------------------------
(* Small instances of FlightLifecycle for TLC.                             *)
EXTENDS RentalRefinement, TLC

CONSTANTS a1, a2, x1, f1, f2, r1, r2, u1, s1, s2

(* One aircraft: flight f1 leaves from a1, flight f2 from a2.  The one     *)
(* user places every rental on f1.                                         *)
MCIcao24   == [f \in Flights |-> x1]
MCOrigin   == [f \in Flights |-> IF f = f1 THEN a1 ELSE a2]
MCFlightOf == [r \in Rentals |-> f1]
MCOwnerOf  == [r \in Rentals |-> u1]
OneCrew    == [c \in Users \X Airports |-> 1]
TwoCrew    == [c \in Users \X Airports |-> 2]

MCSymmetry == Permutations(Sessions) \cup Permutations(Rentals)
===============================================================================
