--------------------------- MODULE MCRequestsInTurn ---------------------------
(* The instances of MCFlightLifecycle, with the history of RequestsInTurn. *)
EXTENDS MCFlightLifecycle, RequestsInTurn
===============================================================================
