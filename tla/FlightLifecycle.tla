---------------------------- MODULE FlightLifecycle ----------------------------
(***************************************************************************)
(* Tracked flights and the rentals placed on them, as concurrent requests  *)
(* drive them through the database.                                        *)
(*                                                                         *)
(* A session is one AsyncSession: a database transaction that runs one     *)
(* handler from its first statement to its commit.  Transactions run at    *)
(* READ COMMITTED: a SELECT sees the committed rows and the session's own  *)
(* writes, an UPDATE waits for the row's writer and then writes over the   *)
(* newest version.  Objects a session has loaded are not read again.       *)
(*                                                                         *)
(* Time is left out: whether a timer has run out (the rental window, the   *)
(* grace period, a ceiling, a throttle) is a free choice at each test.     *)
(***************************************************************************)
EXTENDS FlightRows, FiniteSets, Naturals

CONSTANTS
  Airports,      \* rows of airports
  Aircraft,      \* icao24 addresses
  Flights,       \* ids of tracked_flights
  Rentals,       \* ids of rentals
  Users,
  Sessions,      \* request slots; a slot runs one handler after another
  None,
  Icao24,        \* the aircraft a flight id stands for
  Origin,        \* the airport a flight id starts from
  FlightOf,      \* the flight a rental id is placed on
  OwnerOf,       \* the user who places it
  CrewCount      \* crew members of each user at each airport

ASSUME LifecycleAssumption ==
  /\ Icao24 \in [Flights -> Aircraft]
  /\ Origin \in [Flights -> Airports]
  /\ FlightOf \in [Rentals -> Flights]
  /\ OwnerOf \in [Rentals -> Users]
  /\ CrewCount \in [Users \X Airports -> Nat]
  /\ None \notin Sessions \cup Airports \cup Flights \cup Rentals
  /\ Flights \cap Rentals = {}

VARIABLES
  flight,        \* committed row of each flight
  flightVer,     \* newest version of the row: its lock holder's, uncommitted
  lock,          \* session holding the row lock of a flight
  rental,        \* committed row of each rental
  rentalVer,     \* newest version, written under the lock of its flight
  settlements,   \* committed ledger rows with reason SETTLEMENT, per rental
  airportLock,   \* session holding the row lock of an airport
  pc,            \* where each session is
  mem,           \* flight rows in the session's identity map
  item,          \* the flight or rental the current step is about
  due,           \* board: airports still to process
  at,            \* board: the airport being processed
  left           \* aircraft, flights or rentals the current loop has left

dbVars      == <<flight, flightVer, lock, rental, rentalVer, settlements, airportLock>>
sessionVars == <<pc, mem, item, due, at, left>>
vars        == <<dbVars, sessionVars>>

PC == {"idle", "board_airport", "board_states", "board_create", "board_sample",
       "board_sweep", "check_rentals", "check_adsb", "rent_crew", "rent_insert",
       "claim_credit"}

TypeOK ==
  /\ flight \in [Flights -> FlightRow]
  /\ flightVer \in [Flights -> FlightRow]
  /\ lock \in [Flights -> Sessions \cup {None}]
  /\ rental \in [Rentals -> RentalRow]
  /\ rentalVer \in [Rentals -> RentalRow]
  /\ settlements \in [Rentals -> Nat]
  /\ airportLock \in [Airports -> Sessions \cup {None}]
  /\ pc \in [Sessions -> PC]
  /\ mem \in [Sessions -> [Flights -> FlightRow]]
  /\ item \in [Sessions -> Flights \cup Rentals \cup {None}]
  /\ due \in [Sessions -> SUBSET Airports]
  /\ at \in [Sessions -> Airports \cup {None}]
  /\ left \in [Sessions -> SUBSET (Aircraft \cup Flights \cup Rentals)]

Init ==
  /\ flight = [f \in Flights |-> NoFlight]
  /\ flightVer = flight
  /\ lock = [f \in Flights |-> None]
  /\ rental = [r \in Rentals |-> NoRental]
  /\ rentalVer = rental
  /\ settlements = [r \in Rentals |-> 0]
  /\ airportLock = [a \in Airports |-> None]
  /\ pc = [s \in Sessions |-> "idle"]
  /\ mem = [s \in Sessions |-> [f \in Flights |-> NoFlight]]
  /\ item = [s \in Sessions |-> None]
  /\ due = [s \in Sessions |-> {}]
  /\ at = [s \in Sessions |-> None]
  /\ left = [s \in Sessions |-> {}]

-------------------------------------------------------------------------------
(* Transactions and the object-relational mapper.                          *)

Goto(s, from, to) == pc[s] = from /\ pc' = [pc EXCEPT ![s] = to]

(* What a SELECT of session s sees of flight f.                            *)
Visible(s, f) == IF lock[f] = s THEN flightVer[f] ELSE flight[f]

(* Loading a row does not refresh an object that is loaded already.        *)
Loaded(s, f) == IF mem[s][f] = NoFlight THEN Visible(s, f) ELSE mem[s][f]

(* The unique index on icao24 over open flights, which also sees the rows  *)
(* of transactions that are still running.                                 *)
IndexAllowsFault(f, row) == TRUE
IndexAllows(f, row) ==
  row.status \in OpenStatus =>
    \A g \in Flights \ {f} : Icao24[g] = Icao24[f] =>
      flight[g].status \notin OpenStatus /\ flightVer[g].status \notin OpenStatus

(* Session s flushes its object of flight f, with the attributes assigned, *)
(* and the rentals its SELECT found on f, with rows[r].  The row lock of f *)
(* is taken first and kept, so that SELECT and the UPDATEs of the rentals  *)
(* are one step with it.  When the index refuses the row only Rollback is  *)
(* left to s.                                                              *)
Flush(s, f, assigned, rows) ==
  LET new == Overlay(flightVer[f], mem[s][f], assigned)
  IN  /\ lock[f] \in {None, s}
      /\ IndexAllows(f, new)
      /\ lock' = [lock EXCEPT ![f] = s]
      /\ flightVer' = [flightVer EXCEPT ![f] = new]
      /\ mem' = [mem EXCEPT ![s][f] = assigned]
      /\ rentalVer' = [r \in Rentals |-> IF FlightOf[r] = f THEN rows[r] ELSE rentalVer[r]]
      /\ UNCHANGED <<flight, rental, settlements, airportLock>>

EndSession(s) ==
  /\ lock' = [f \in Flights |-> IF lock[f] = s THEN None ELSE lock[f]]
  /\ airportLock' = [a \in Airports |-> IF airportLock[a] = s THEN None ELSE airportLock[a]]
  /\ pc' = [pc EXCEPT ![s] = "idle"]
  /\ mem' = [mem EXCEPT ![s] = [f \in Flights |-> NoFlight]]
  /\ item' = [item EXCEPT ![s] = None]
  /\ due' = [due EXCEPT ![s] = {}]
  /\ at' = [at EXCEPT ![s] = None]
  /\ left' = [left EXCEPT ![s] = {}]

Holds(s, r) == lock[FlightOf[r]] = s

Commit(s) ==
  /\ flight' = [f \in Flights |-> IF lock[f] = s THEN flightVer[f] ELSE flight[f]]
  /\ rental' = [r \in Rentals |-> IF Holds(s, r) THEN rentalVer[r] ELSE rental[r]]
  /\ EndSession(s)
  /\ UNCHANGED <<flightVer, rentalVer, settlements>>

(* Any exception ends the handler and closes its session: an HTTP error    *)
(* status from adsb.fi, a violated index, the victim of a database         *)
(* deadlock, a lost connection, a stopped process.                         *)
Rollback(s) ==
  /\ pc[s] # "idle"
  /\ flightVer' = [f \in Flights |-> IF lock[f] = s THEN flight[f] ELSE flightVer[f]]
  /\ rentalVer' = [r \in Rentals |-> IF Holds(s, r) THEN rental[r] ELSE rentalVer[r]]
  /\ EndSession(s)
  /\ UNCHANGED <<flight, rental, settlements>>

-------------------------------------------------------------------------------
(* The lifecycle functions of rental_service.                              *)

RecordSample(s, f) == Flush(s, f, mem[s][f], rentalVer)

LockCapacity(s, f) ==
  Flush(s, f, LockedFlight(mem[s][f]),
        [r \in Rentals |-> Advance(rentalVer[r], "FLYING", "IN_PROGRESS")])

MarkLandingSuspected(s, f) ==
  Flush(s, f, SuspectedFlight(mem[s][f]),
        [r \in Rentals |-> Advance(rentalVer[r], "IN_PROGRESS", "RESOLVING")])

RollbackLandingSuspected(s, f) ==
  Flush(s, f, RolledBackFlight(mem[s][f]),
        [r \in Rentals |-> Advance(rentalVer[r], "RESOLVING", "IN_PROGRESS")])

ResolveTrackedFlight(s, f, status) ==
  Flush(s, f, ResolvedFlight(mem[s][f], status),
        [r \in Rentals |-> Settle(rentalVer[r], ReasonOf(status))])

-------------------------------------------------------------------------------
(* Board discovery: the background task of GET /flights/board.             *)

BoardBegin(s) ==
  /\ Goto(s, "idle", "board_airport")
  /\ \E airports \in SUBSET Airports \ {{}} : due' = [due EXCEPT ![s] = airports]
  /\ UNCHANGED <<dbVars, mem, item, at, left>>

(* last_polled_at is flushed by the first SELECT that follows, so the row  *)
(* of the airport is locked before any of its flights is read.             *)
BoardAirportFault(s) ==
  \E a \in due[s] :
    /\ Goto(s, "board_airport", "board_states")
    /\ due' = [due EXCEPT ![s] = @ \ {a}]
    /\ at' = [at EXCEPT ![s] = a]
    /\ left' = [left EXCEPT ![s] = Aircraft]
    /\ UNCHANGED <<dbVars, mem, item>>

BoardAirport(s) ==
  \E a \in due[s] :
    /\ Goto(s, "board_airport", "board_states")
    /\ airportLock[a] \in {None, s}
    /\ airportLock' = [airportLock EXCEPT ![a] = s]
    /\ due' = [due EXCEPT ![s] = @ \ {a}]
    /\ at' = [at EXCEPT ![s] = a]
    /\ left' = [left EXCEPT ![s] = Aircraft]
    /\ UNCHANGED <<flight, flightVer, lock, rental, rentalVer, settlements, mem, item>>

(* The query of this airport raised: it is skipped, its sweep with it.     *)
BoardQueryFailed(s) ==
  \E a \in due[s] :
    /\ pc[s] = "board_airport"
    /\ airportLock[a] \in {None, s}
    /\ airportLock' = [airportLock EXCEPT ![a] = s]
    /\ due' = [due EXCEPT ![s] = @ \ {a}]
    /\ UNCHANGED <<flight, flightVer, lock, rental, rentalVer, settlements,
                   pc, mem, item, at, left>>

(* find_open_tracked_flight                                                *)
OpenFlights(s, x) ==
  {f \in Flights : Icao24[f] = x /\ Visible(s, f).status \in OpenStatus}

(* A reported aircraft without an open flight that looks like a takeoff.   *)
BoardTakeoff(s) ==
  \E x \in left[s], f \in Flights :
    /\ Goto(s, "board_states", "board_create")
    /\ x \in Aircraft /\ OpenFlights(s, x) = {}
    /\ Icao24[f] = x /\ Origin[f] = at[s] /\ flightVer[f] = NoFlight
    /\ item' = [item EXCEPT ![s] = f]
    /\ left' = [left EXCEPT ![s] = @ \ {x}]
    /\ UNCHANGED <<dbVars, mem, due, at>>

BoardCreate(s) ==
  LET f == item[s] IN
  /\ Goto(s, "board_create", "board_states")
  /\ flightVer[f] = NoFlight
  /\ Flush(s, f, CreatedFlight, rentalVer)
  /\ item' = [item EXCEPT ![s] = None]
  /\ UNCHANGED <<due, at, left>>

(* A reported aircraft with an open flight; one that another airport       *)
(* tracks is left alone.                                                   *)
BoardFound(s) ==
  \E x \in left[s] : \E f \in OpenFlights(s, x) :
    /\ Origin[f] = at[s]
    /\ Goto(s, "board_states", "board_sample")
    /\ item' = [item EXCEPT ![s] = f]
    /\ mem' = [mem EXCEPT ![s][f] = Loaded(s, f)]
    /\ left' = [left EXCEPT ![s] = @ \ {x}]
    /\ UNCHANGED <<dbVars, due, at>>

BoardSample(s) ==
  LET f == item[s] IN
  /\ Goto(s, "board_sample", "board_states")
  /\ \/ RecordSample(s, f)
     \/ mem[s][f].status = "AIRBORNE_OPEN" /\ LockCapacity(s, f)
     \/ mem[s][f].status = "AIRBORNE_LOCKED" /\ MarkLandingSuspected(s, f)
     \/ mem[s][f].status = "LANDING_SUSPECTED" /\ RollbackLandingSuspected(s, f)
  /\ item' = [item EXCEPT ![s] = None]
  /\ UNCHANGED <<due, at, left>>

(* Aircraft without a report are passed over.                              *)
BoardSweepBegin(s) ==
  LET open == {f \in Flights : Origin[f] = at[s] /\ Visible(s, f).status \in OpenStatus}
  IN  /\ Goto(s, "board_states", "board_sweep")
      /\ left' = [left EXCEPT ![s] = open]
      /\ mem' = [mem EXCEPT ![s] =
                   [f \in Flights |-> IF f \in open THEN Loaded(s, f) ELSE mem[s][f]]]
      /\ UNCHANGED <<dbVars, item, due, at>>

(* _resolve_via_ceiling_or_grace on one flight of the sweep, or no timer   *)
(* has run out for it.                                                     *)
BoardSweep(s) ==
  \E f \in left[s] :
    /\ pc[s] = "board_sweep"
    /\ \/ /\ mem[s][f].status = "LANDING_SUSPECTED" /\ mem[s][f].landing_suspected
          /\ ResolveTrackedFlight(s, f, "RESOLVED_LANDED")
       \/ ResolveTrackedFlight(s, f, "RESOLVED_TIMEOUT")
       \/ ResolveTrackedFlight(s, f, "RESOLVED_LOST_SIGNAL")
       \/ UNCHANGED <<dbVars, mem>>
    /\ left' = [left EXCEPT ![s] = @ \ {f}]
    /\ UNCHANGED <<pc, item, due, at>>

BoardSweepEnd(s) ==
  /\ left[s] = {}
  /\ Goto(s, "board_sweep", "board_airport")
  /\ at' = [at EXCEPT ![s] = None]
  /\ UNCHANGED <<dbVars, mem, item, due, left>>

BoardCommit(s) == pc[s] = "board_airport" /\ due[s] = {} /\ Commit(s)

-------------------------------------------------------------------------------
(* Live landing check: GET /rentals/mine and GET /rentals/{id}.            *)

(* The rentals to refresh: any the query returns (a status filter, or the  *)
(* id of one rental), without those loaded as RESOLVED.                    *)
CheckBegin(s) ==
  \E u \in Users :
    \E listed \in SUBSET {r \in Rentals : OwnerOf[r] = u /\ rental[r].status # Absent} :
      /\ Goto(s, "idle", "check_rentals")
      /\ left' = [left EXCEPT ![s] = {r \in listed : rental[r].status # "RESOLVED"}]
      /\ UNCHANGED <<dbVars, mem, item, due, at>>

(* The flight is resolved as loaded, or was checked within the throttle.   *)
CheckSkip(s) ==
  \E r \in left[s] :
    /\ pc[s] = "check_rentals"
    /\ mem' = [mem EXCEPT ![s][FlightOf[r]] = Loaded(s, FlightOf[r])]
    /\ left' = [left EXCEPT ![s] = @ \ {r}]
    /\ UNCHANGED <<dbVars, pc, item, due, at>>

CheckAsk(s) ==
  \E r \in left[s] :
    LET f == FlightOf[r] IN
    /\ Goto(s, "check_rentals", "check_adsb")
    /\ Loaded(s, f).status \notin ResolvedStatus
    /\ mem' = [mem EXCEPT ![s][f] = Loaded(s, f)]
    /\ item' = [item EXCEPT ![s] = f]
    /\ left' = [left EXCEPT ![s] = @ \ {r}]
    /\ UNCHANGED <<dbVars, due, at>>

(* adsb.fi has answered: on the ground; airborne, where only the duration  *)
(* ceiling can end the flight; or no report, where either ceiling can.  In *)
(* each case the flight's row is flushed.                                  *)
CheckAnswer(s) ==
  LET f == item[s] IN
  /\ Goto(s, "check_adsb", "check_rentals")
  /\ \/ ResolveTrackedFlight(s, f, "RESOLVED_LANDED")
     \/ RecordSample(s, f)
     \/ ResolveTrackedFlight(s, f, "RESOLVED_TIMEOUT")
     \/ ResolveTrackedFlight(s, f, "RESOLVED_LOST_SIGNAL")
  /\ item' = [item EXCEPT ![s] = None]
  /\ UNCHANGED <<due, at, left>>

CheckCommit(s) == pc[s] = "check_rentals" /\ left[s] = {} /\ Commit(s)

-------------------------------------------------------------------------------
(* Placing a rental: POST /rentals.                                        *)

(* The id sequence hands out an id once, so no two sessions place r.       *)
RentBegin(s) ==
  \E r \in Rentals :
    /\ Goto(s, "idle", "rent_crew")
    /\ rental[r].status = Absent /\ \A t \in Sessions : item[t] # r
    /\ Rentable(flight[FlightOf[r]])
    /\ item' = [item EXCEPT ![s] = r]
    /\ UNCHANGED <<dbVars, mem, due, at, left>>

(* count_busy_rentals                                                      *)
BusyRentals(u, a) ==
  {r \in Rentals : /\ OwnerOf[r] = u /\ Origin[FlightOf[r]] = a
                   /\ rental[r].status \in BusyStatus}

CrewAtOrigin(r) == <<OwnerOf[r], Origin[FlightOf[r]]>>

(* Without a free crew member the request is refused: Rollback.            *)
RentCrewFault(s) ==
  LET who == CrewAtOrigin(item[s])
      flown == {r \in BusyRentals(who[1], who[2]) : rental[r].status # "FLYING"} IN
  /\ Goto(s, "rent_crew", "rent_insert")
  /\ Cardinality(flown) < CrewCount[who]
  /\ UNCHANGED <<dbVars, mem, item, due, at, left>>
RentCrew(s) ==
  LET who == CrewAtOrigin(item[s]) IN
  /\ Goto(s, "rent_crew", "rent_insert")
  /\ Cardinality(BusyRentals(who[1], who[2])) < CrewCount[who]
  /\ UNCHANGED <<dbVars, mem, item, due, at, left>>

(* The INSERT, the debit of the fee and the commit; insufficient funds end *)
(* in Rollback.  The new row is on no flight's lock: it is a version of    *)
(* its own, and visible at once when committed.                            *)
RentCommit(s) ==
  /\ pc[s] = "rent_insert"
  /\ rental' = [rental EXCEPT ![item[s]] = CreatedRental]
  /\ rentalVer' = [rentalVer EXCEPT ![item[s]] = CreatedRental]
  /\ EndSession(s)
  /\ UNCHANGED <<flight, flightVer, settlements>>

-------------------------------------------------------------------------------
(* Claiming a reward: POST /rentals/{id}/claim.                            *)

ClaimBegin(s) ==
  \E r \in Rentals :
    /\ Goto(s, "idle", "claim_credit")
    /\ rental[r].status = "RESOLVED"
    /\ item' = [item EXCEPT ![s] = r]
    /\ UNCHANGED <<dbVars, mem, due, at, left>>

(* The ledger entry, the new status and the commit.                        *)
ClaimCommit(s) ==
  LET r == item[s] IN
  /\ pc[s] = "claim_credit"
  /\ settlements' = [settlements EXCEPT ![r] = @ + 1]
  /\ rental' = [rental EXCEPT ![r] = ClaimedRental(@)]
  /\ rentalVer' = [rentalVer EXCEPT ![r] = ClaimedRental(@)]
  /\ EndSession(s)
  /\ UNCHANGED <<flight, flightVer>>

-------------------------------------------------------------------------------
Board(s) ==
  \/ BoardBegin(s) \/ BoardAirport(s) \/ BoardQueryFailed(s) \/ BoardTakeoff(s)
  \/ BoardCreate(s) \/ BoardFound(s) \/ BoardSample(s) \/ BoardSweepBegin(s)
  \/ BoardSweep(s) \/ BoardSweepEnd(s) \/ BoardCommit(s)
Check(s) == CheckBegin(s) \/ CheckSkip(s) \/ CheckAsk(s) \/ CheckAnswer(s) \/ CheckCommit(s)
Rent(s)  == RentBegin(s) \/ RentCrew(s) \/ RentCommit(s)
Claim(s) == ClaimBegin(s) \/ ClaimCommit(s)

Next == \E s \in Sessions : Board(s) \/ Check(s) \/ Rent(s) \/ Claim(s) \/ Rollback(s)

Spec == Init /\ [][Next]_vars
-------------------------------------------------------------------------------
(* Properties.                                                             *)

(* A rental that is under way always agrees with its flight: IN_PROGRESS   *)
(* only on a locked flight, RESOLVING only while a landing is suspected,   *)
(* although sessions act on flight rows that were overwritten since they   *)
(* loaded them.  (lock_capacity, mark_landing_suspected,                   *)
(* rollback_landing_suspected and resolve_tracked_flight move the flight   *)
(* and its rentals in one transaction.)                                    *)
RentalTracksFlight ==
  \A r \in Rentals :
    /\ rental[r].status = "IN_PROGRESS" => flight[FlightOf[r]].status = "AIRBORNE_LOCKED"
    /\ rental[r].status = "RESOLVING" => flight[FlightOf[r]].status = "LANDING_SUSPECTED"

(* A flight under suspicion of having landed has landing_suspected_at set, *)
(* or its grace period could never elapse; and capacity is open exactly    *)
(* on open flights, whichever stale row the last writer had loaded.        *)
ColumnsAgree ==
  \A f \in Flights :
    /\ flight[f].status = "LANDING_SUSPECTED" => flight[f].landing_suspected
    /\ flight[f].capacity_open <=> flight[f].status = "AIRBORNE_OPEN"

(* find_open_tracked_flight expects at most one open flight per aircraft,  *)
(* also when a stale write puts a resolved flight back in the air.         *)
OneOpenFlight ==
  \A f, g \in Flights :
    /\ Icao24[f] = Icao24[g]
    /\ flight[f].status \in OpenStatus /\ flight[g].status \in OpenStatus
    => f = g

(* The reward of a rental is in the ledger exactly when the rental is      *)
(* CLAIMED: never credited and still claimable, never claimed unpaid.      *)
CreditedIffClaimed ==
  \A r \in Rentals : settlements[r] > 0 <=> rental[r].status = "CLAIMED"

(* A settled rental is final: no later transition of its flight, however   *)
(* stale, computes its settlement again or takes it back into the air.     *)
SettledStep ==
  \A r \in Rentals : rental[r].status \in SettledStatus =>
    /\ rental'[r].status \in SettledStatus
    /\ rental'[r].resolution_reason = rental[r].resolution_reason
SettledIsFinal == [][SettledStep]_vars

(* Once its rental window is closed a flight is never rentable again.      *)
WindowStep ==
  \A f \in Flights :
    flight[f].status # Absent /\ ~Rentable(flight[f]) => ~Rentable(flight'[f])
WindowStaysClosed == [][WindowStep]_vars

(* What the code's comments say and concurrent requests break.             *)

(* resolve_tracked_flight settles each rental "still open on this flight". *)
ResolvedFlightIsSettled ==
  \A r \in Rentals :
    flight[FlightOf[r]].status \in ResolvedStatus => rental[r].status \notin BusyStatus

(* resolve_tracked_flight is a "terminal transition": a resolved flight is *)
(* never open again.                                                       *)
ResolutionStep ==
  \A f \in Flights :
    flight[f].status \in ResolvedStatus => flight'[f].status \in ResolvedStatus
ResolutionIsTerminal == [][ResolutionStep]_vars

(* The crew count is "the ceiling on how many of that user's rentals" from *)
(* the airport "can be in progress at once".                               *)
BusyWithinCrew ==
  \A u \in Users, a \in Airports : Cardinality(BusyRentals(u, a)) <= CrewCount[u, a]

(* A second claim is refused: "Reward already claimed".                    *)
CreditedOnce == \A r \in Rentals : settlements[r] <= 1
===============================================================================
