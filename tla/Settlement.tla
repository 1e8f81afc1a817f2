------------------------------ MODULE Settlement ------------------------------
(***************************************************************************)
(* What a resolved rental pays.  Credits are integers; the multipliers of  *)
(* the code are scaled to integers and the product is rounded as Python's  *)
(* round does, half to even.                                               *)
(***************************************************************************)
EXTENDS Integers

CONSTANTS ShortHaul, MediumHaul   \* upper bounds of the first two buckets

ASSUME BucketsAssumption == ShortHaul \in Nat /\ MediumHaul \in Nat

LANDED_REASON      == "landed_normally"
TIMEOUT_REASON     == "timeout_fallback"
LOST_SIGNAL_REASON == "lost_signal_fallback"
ResolutionReason   == {LANDED_REASON, TIMEOUT_REASON, LOST_SIGNAL_REASON}

(* The fees the API accepts, and the multiplier and least fee of the items *)
(* that are active at the head revision.                                   *)
Fees  == {100, 250, 500, 1000}
Items == {<<115, 0>>, <<120, 0>>, <<140, 100>>, <<150, 250>>, <<160, 500>>, <<175, 1000>>}
Rentals ==
  {r \in [fee : Fees, multiplier : {i[1] : i \in Items}] :
     \E i \in Items : i[1] = r.multiplier /\ r.fee >= i[2]}

(* 1.2, 1.5 and 2.0                                                        *)
DurationBucketMultiplier(duration) ==
  CASE duration < ShortHaul -> 12
    [] duration >= ShortHaul /\ duration < MediumHaul -> 15
    [] duration >= ShortHaul /\ duration >= MediumHaul -> 20

FallbackMultiplier == 105

Round(n, d) ==
  LET q == n \div d
      r == n % d
  IN  IF 2 * r > d \/ (2 * r = d /\ q % 2 = 1) THEN q + 1 ELSE q

AtLeastOne(n) == IF n < 1 THEN 1 ELSE n

compute_settlementFault(rental, duration, reason) ==
  AtLeastOne(Round(rental.fee * DurationBucketMultiplier(duration) * rental.multiplier, 1000))
compute_settlement(rental, duration, reason) ==
  AtLeastOne(
    IF reason = LANDED_REASON
    THEN Round(rental.fee * DurationBucketMultiplier(duration) * rental.multiplier, 1000)
    ELSE Round(rental.fee * FallbackMultiplier, 100))
===============================================================================
