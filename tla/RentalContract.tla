---------------------------- MODULE RentalContract ----------------------------
(***************************************************************************)
(* What the player is promised about a rental, without transactions,       *)
(* sessions or locks: a rental goes along with its flight, step by step,   *)
(* is settled once, for the outcome its flight has at that moment, and is  *)
(* then paid out.  A settled rental's contract is the reason it was        *)
(* settled for; a flight that is over is at the stage of its outcome.      *)
(***************************************************************************)
CONSTANTS Flights, Rentals, FlightOf, Reason

VARIABLES stage, contract, paid

contractVars == <<stage, contract, paid>>

UnderWay == {"flying", "in_progress", "resolving"}
Stage == {"unseen", "rentable", "locked", "suspected"} \cup Reason
Contract == {"none"} \cup UnderWay \cup Reason

Init ==
  /\ stage = [f \in Flights |-> "unseen"]
  /\ contract = [r \in Rentals |-> "none"]
  /\ paid = [r \in Rentals |-> FALSE]

(* A flight, once seen, stays seen, and is not rentable twice.             *)
MayPass(old, new) ==
  /\ new = "unseen" => old = "unseen"
  /\ new = "rentable" => old \in {"unseen", "rentable"}

(* What becomes of contract c when its flight is at stage st from now on.  *)
(* Only a rental that has not been taken along yet, still flying, may be   *)
(* left behind.                                                            *)
Fits(c, st) == /\ c = "in_progress" => st = "locked"
               /\ c = "resolving" => st = "suspected"

MayFollow(c, new, st) ==
  /\ Fits(new, st)
  /\ \/ new = c
     \/ c \in UnderWay /\ new \in {"in_progress", "resolving"}
     \/ c \in UnderWay /\ new \in Reason /\ st = new

(* Any flights move on, and their rentals in the same step.                *)
Travel ==
  /\ stage' \in [Flights -> Stage] /\ contract' \in [Rentals -> Contract]
  /\ \A f \in Flights : MayPass(stage[f], stage'[f])
  /\ \A r \in Rentals : MayFollow(contract[r], contract'[r], stage'[FlightOf[r]])
  /\ UNCHANGED paid

(* The flight may have moved on since it was found to be rentable.         *)
Place(r) ==
  /\ contract[r] = "none" /\ stage[FlightOf[r]] # "unseen"
  /\ contract' = [contract EXCEPT ![r] = "flying"]
  /\ UNCHANGED <<stage, paid>>

Pay(r) ==
  /\ contract[r] \in Reason
  /\ paid' = [paid EXCEPT ![r] = TRUE]
  /\ UNCHANGED <<stage, contract>>

Next == Travel \/ \E r \in Rentals : Place(r) \/ Pay(r)

Spec == Init /\ [][Next]_contractVars
===============================================================================
