-------------------------- MODULE FlightLifecycleInv --------------------------
(***************************************************************************)
(* The inductive invariant behind the safety properties of                 *)
(* FlightLifecycle: what is true of every flight, rental and session       *)
(* between any two steps, uncommitted row versions and identity maps       *)
(* included.                                                               *)
(***************************************************************************)
EXTENDS FlightLifecycle

BoardPC  == {"board_airport", "board_states", "board_create", "board_sample", "board_sweep"}
ScanPC   == BoardPC \ {"board_airport"}
WriterPC == BoardPC \cup {"check_rentals", "check_adsb"}
RentPC   == {"rent_crew", "rent_insert"}

(* One row of tracked_flights, in any of its versions.                     *)
RowOK(row) ==
  /\ row.status = Absent => row = NoFlight
  /\ row.capacity_open <=> row.status = "AIRBORNE_OPEN"
  /\ row.status = "LANDING_SUSPECTED" => row.landing_suspected
  /\ row.status \in {"AIRBORNE_OPEN", "AIRBORNE_LOCKED"} => ~row.landing_suspected

(* What a transaction may have done to flight f so far.  Only a board      *)
(* session, under the lock of the flight's airport, moves it within the    *)
(* open statuses or changes landing_suspected_at.                          *)
FlightInv(f) ==
  /\ RowOK(flight[f]) /\ RowOK(flightVer[f])
  /\ lock[f] = None => flightVer[f] = flight[f]
  /\ flight[f].status # Absent => flightVer[f].status # Absent
  /\ flight[f].status \notin {Absent, "AIRBORNE_OPEN"} => flightVer[f].status # "AIRBORNE_OPEN"
  /\ \/ flightVer[f].status \notin OpenStatus
     \/ flightVer[f].status = flight[f].status
     \/ airportLock[Origin[f]] = lock[f]
  /\ \/ flightVer[f].landing_suspected = flight[f].landing_suspected
     \/ airportLock[Origin[f]] = lock[f]

(* A rental agrees with its flight.                                        *)
Tracks(frow, rrow) ==
  /\ rrow.status = "IN_PROGRESS" => frow.status = "AIRBORNE_LOCKED"
  /\ rrow.status = "RESOLVING" => frow.status = "LANDING_SUSPECTED"

RentalInv(r) ==
  LET f == FlightOf[r] IN
  /\ lock[f] = None => rentalVer[r] = rental[r]
  /\ rental[r].status \notin BusyStatus => rentalVer[r] = rental[r]
  /\ rental[r].status \in BusyStatus => rentalVer[r].status \in BusyStatus \cup {"RESOLVED"}
  /\ Tracks(flight[f], rental[r]) /\ Tracks(flightVer[f], rentalVer[r])
  /\ rental[r].status # Absent => flight[f].status # Absent
  /\ settlements[r] > 0 <=> rental[r].status = "CLAIMED"

(* What is open, committed or not, the unique index keeps apart.           *)
OpenAnywhere(f) == flight[f].status \in OpenStatus \/ flightVer[f].status \in OpenStatus

IndexInv ==
  \A f, g \in Flights :
    Icao24[f] = Icao24[g] /\ OpenAnywhere(f) /\ OpenAnywhere(g) => f = g

(* A flight as session s loaded it, however long ago: one loaded as closed *)
(* has not been opened since.                                              *)
LoadedInv(s, f, row) ==
  row # NoFlight =>
    /\ RowOK(row) /\ row.status # Absent
    /\ flightVer[f].status # Absent
    /\ lock[f] = s \/ flight[f].status # Absent
    /\ row.status # "AIRBORNE_OPEN" =>
         /\ flightVer[f].status # "AIRBORNE_OPEN"
         /\ lock[f] = s \/ flight[f].status # "AIRBORNE_OPEN"

(* What a board session has loaded can only have been resolved since, as   *)
(* it holds the lock of the flight's airport.                              *)
BoardLoadedInv(s, f, row) ==
  row # NoFlight =>
    /\ airportLock[Origin[f]] = s
    /\ flightVer[f].landing_suspected = row.landing_suspected
    /\ row.status = "AIRBORNE_OPEN" =>
         /\ flightVer[f].status \in {"AIRBORNE_OPEN"} \cup ResolvedStatus
         /\ lock[f] = s \/ flight[f].status \in {"AIRBORNE_OPEN"} \cup ResolvedStatus
    /\ row.status \in ResolvedStatus => lock[f] = s /\ flightVer[f].status \in ResolvedStatus

MemInv(s, f) ==
  /\ LoadedInv(s, f, mem[s][f])
  /\ pc[s] \in BoardPC => BoardLoadedInv(s, f, mem[s][f])

SessionInv(s) ==
  /\ pc[s] \notin WriterPC =>
       /\ \A f \in Flights : lock[f] # s
       /\ \A f \in Flights : mem[s][f] = NoFlight
  /\ pc[s] \in ScanPC => at[s] \in Airports /\ airportLock[at[s]] = s
  /\ pc[s] \in {"board_create", "board_sample"} =>
       item[s] \in Flights /\ Origin[item[s]] = at[s]
  /\ pc[s] = "check_adsb" => item[s] \in Flights
  /\ pc[s] \in {"board_sample", "check_adsb"} => mem[s][item[s]].status \in OpenStatus
  /\ pc[s] = "board_sweep" =>
       \A f \in left[s] : f \in Flights /\ mem[s][f].status \in OpenStatus
  /\ pc[s] \in {"check_rentals", "check_adsb"} =>
       \A r \in left[s] : r \in Rentals /\ rental[r].status # Absent
  /\ pc[s] \in RentPC =>
       /\ item[s] \in Rentals /\ rental[item[s]].status = Absent
       /\ flight[FlightOf[item[s]]].status # Absent
       /\ \A t \in Sessions \ {s} : item[t] # item[s]
  /\ pc[s] = "claim_credit" => item[s] \in Rentals /\ rental[item[s]].status \in SettledStatus

LifecycleInv ==
  /\ TypeOK
  /\ \A f \in Flights : FlightInv(f)
  /\ \A r \in Rentals : RentalInv(r)
  /\ IndexInv
  /\ \A s \in Sessions, f \in Flights : MemInv(s, f)
  /\ \A s \in Sessions : SessionInv(s)
===============================================================================
