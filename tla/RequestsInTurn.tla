---------------------------- MODULE RequestsInTurn ----------------------------
(***************************************************************************)
(* What the checks of create_rental and claim_rental do promise.  They     *)
(* read, decide and write without a lock, so that requests which overlap   *)
(* break them (BusyWithinCrew and CreditedOnce of FlightLifecycle).  Here  *)
(* a history variable remembers what requests have overlapped about; for   *)
(* all else the checks hold, whatever boards, landing checks and requests  *)
(* about other things do meanwhile.                                        *)
(***************************************************************************)
EXTENDS FlightLifecycleInv

VARIABLE overlapped     \* rentals, and crews by user and airport

(* What session s has read and decided on, and will write without reading  *)
(* it again: the rental of a claim, the crew of a new rental.              *)
Deciding(s) ==
  CASE pc[s] = "claim_credit" -> {item[s]}
    [] pc[s] = "rent_insert"  -> {CrewAtOrigin(item[s])}
    [] OTHER                  -> {}

Contested == {c \in Rentals \cup (Users \X Airports) :
                \E s, t \in Sessions : s # t /\ c \in Deciding(s) \cap Deciding(t)}

Record == overlapped' = overlapped \cup Contested'

HistoryInit == Init /\ overlapped = {}
HistorySpec ==
  /\ HistoryInit
  /\ [][Next /\ Record]_<<vars, overlapped>>
-------------------------------------------------------------------------------
(* A reward is credited once, unless two claims of the rental overlapped:  *)
(* no board or landing check, however stale its objects, makes a claimed   *)
(* rental claimable again.  (claim_rental: "Reward already claimed".)      *)
CreditedOnceInTurn == \A r \in Rentals \ overlapped : settlements[r] <= 1

(* A user never has more rentals under way from an airport than crew       *)
(* there, unless two of his requests there overlapped: neither the end of  *)
(* a flight nor its return by a stale write makes a settled rental busy    *)
(* again.  (count_busy_rentals in create_rental.)                          *)
BusyWithinCrewInTurn ==
  \A c \in (Users \X Airports) \ overlapped :
    Cardinality(BusyRentals(c[1], c[2])) <= CrewCount[c]

-------------------------------------------------------------------------------
(* The inductive invariant: at most one session is deciding on what has    *)
(* not overlapped, and what it has read of it is still so.                 *)
AloneInv ==
  \A c \in (Rentals \cup (Users \X Airports)) \ overlapped :
    \A s, t \in Sessions : c \in Deciding(s) \cap Deciding(t) => s = t

ClaimsInv ==
  \A r \in Rentals \ overlapped :
    /\ settlements[r] <= 1
    /\ \A s \in Sessions : pc[s] = "claim_credit" /\ item[s] = r => settlements[r] = 0

CrewInv ==
  \A c \in (Users \X Airports) \ overlapped :
    /\ Cardinality(BusyRentals(c[1], c[2])) <= CrewCount[c]
    /\ \A s \in Sessions : pc[s] = "rent_insert" /\ CrewAtOrigin(item[s]) = c =>
         Cardinality(BusyRentals(c[1], c[2])) < CrewCount[c]

InTurnInv == AloneInv /\ ClaimsInv /\ CrewInv
===============================================================================
