------------------------- MODULE FlightLifecycleProofs -------------------------
(* Proofs that the safety properties of FlightLifecycle hold for any       *)
(* numbers of airports, aircraft, flights, rentals, users and sessions.    *)
EXTENDS RequestsInTurn, TLAPS, FiniteSetTheorems

USE LifecycleAssumption

(* An UPDATE changes exactly the columns the session assigned, and an      *)
(* object written as it was loaded changes nothing.                        *)
LEMMA OverlayLemma ==
  ASSUME NEW current \in FlightRow, NEW loaded \in FlightRow, NEW assigned \in FlightRow
  PROVE  LET new == Overlay(current, loaded, assigned) IN
         /\ new \in FlightRow
         /\ new.status = IF assigned.status = loaded.status THEN current.status
                         ELSE assigned.status
         /\ new.capacity_open = IF assigned.capacity_open = loaded.capacity_open
                                THEN current.capacity_open ELSE assigned.capacity_open
         /\ new.landing_suspected = IF assigned.landing_suspected = loaded.landing_suspected
                                    THEN current.landing_suspected ELSE assigned.landing_suspected
         /\ assigned = loaded => new = current
  BY DEF Overlay, FlightRow

(* The rows the lifecycle functions make of a flight are rows again.       *)
LEMMA RowTypes ==
  /\ NoFlight \in FlightRow /\ CreatedFlight \in FlightRow
  /\ NoRental \in RentalRow /\ CreatedRental \in RentalRow
  /\ \A row \in FlightRow :
       /\ LockedFlight(row) \in FlightRow /\ SuspectedFlight(row) \in FlightRow
       /\ RolledBackFlight(row) \in FlightRow
       /\ \A st \in ResolvedStatus : ResolvedFlight(row, st) \in FlightRow
  BY DEF NoFlight, CreatedFlight, NoRental, CreatedRental, FlightRow, RentalRow, LockedFlight,
     SuspectedFlight, RolledBackFlight, ResolvedFlight, OpenStatus, ResolvedStatus, Absent,
     BusyStatus

(* The same for rentals, and for a claim of a settled one.                 *)
LEMMA RentalRowTypes ==
  ASSUME NEW row \in RentalRow
  PROVE  /\ Advance(row, "FLYING", "IN_PROGRESS") \in RentalRow
         /\ Advance(row, "IN_PROGRESS", "RESOLVING") \in RentalRow
         /\ Advance(row, "RESOLVING", "IN_PROGRESS") \in RentalRow
         /\ \A st \in ResolvedStatus : Settle(row, ReasonOf(st)) \in RentalRow
         /\ row.status \in SettledStatus => ClaimedRental(row) \in RentalRow
  BY DEF RentalRow, Advance, Settle, ReasonOf, ClaimedRental, BusyStatus, SettledStatus,
     ResolvedStatus, Reason, Absent

(* Advance moves a rental out of status from only.                         *)
LEMMA AdvanceLemma ==
  ASSUME NEW row \in RentalRow, NEW from, NEW to
  PROVE  /\ Advance(row, from, to).status = IF row.status = from THEN to ELSE row.status
         /\ row.status # from => Advance(row, from, to) = row
  BY DEF Advance, RentalRow

-------------------------------------------------------------------------------
(* The parts of the invariant about the database and the loaded objects.   *)
DataInv ==
  /\ \A f \in Flights : FlightInv(f)
  /\ \A r \in Rentals : RentalInv(r)
  /\ IndexInv
  /\ \A s \in Sessions, f \in Flights : MemInv(s, f)

DataTypeOK ==
  /\ flight \in [Flights -> FlightRow]
  /\ flightVer \in [Flights -> FlightRow]
  /\ lock \in [Flights -> Sessions \cup {None}]
  /\ rental \in [Rentals -> RentalRow]
  /\ rentalVer \in [Rentals -> RentalRow]
  /\ settlements \in [Rentals -> Nat]
  /\ airportLock \in [Airports -> Sessions \cup {None}]
  /\ mem \in [Sessions -> [Flights -> FlightRow]]

(* What a flush must satisfy to preserve them.  The row it leaves is new.  *)
GoodWrite(s, f, assigned, rows, new) ==
  /\ assigned \in FlightRow /\ RowOK(assigned) /\ assigned.status # Absent
  /\ new \in FlightRow /\ RowOK(new) /\ new.status # Absent
  /\ new.status = "AIRBORNE_OPEN" => flightVer[f].status \in {"AIRBORNE_OPEN", Absent}
  /\ assigned.status # "AIRBORNE_OPEN" => new.status # "AIRBORNE_OPEN"
  /\ airportLock[Origin[f]] # s =>
       /\ new.landing_suspected = flightVer[f].landing_suspected
       /\ new.status \in ResolvedStatus \cup {flightVer[f].status}
  /\ pc[s] \in BoardPC =>
       /\ airportLock[Origin[f]] = s
       /\ new.landing_suspected = assigned.landing_suspected
       /\ assigned.status = "AIRBORNE_OPEN" => new.status \in {"AIRBORNE_OPEN"} \cup ResolvedStatus
       /\ assigned.status \in ResolvedStatus => new.status \in ResolvedStatus
  /\ \A r \in Rentals : FlightOf[r] = f =>
       /\ rows[r] \in RentalRow
       /\ Tracks(new, rows[r])
       /\ rentalVer[r].status \notin BusyStatus => rows[r] = rentalVer[r]
       /\ rentalVer[r].status \in BusyStatus => rows[r].status \in BusyStatus \cup {"RESOLVED"}

(* A flush that is a good write preserves the invariants of the data.      *)
LEMMA FlushLemma ==
  ASSUME DataTypeOK, DataInv, NEW s \in Sessions, NEW f \in Flights,
         NEW assigned, NEW rows,
         GoodWrite(s, f, assigned, rows, Overlay(flightVer[f], mem[s][f], assigned)),
         Flush(s, f, assigned, rows),
         \A t \in Sessions : pc'[t] \in BoardPC => pc[t] \in BoardPC
  PROVE  DataTypeOK' /\ DataInv'
<1> DEFINE new == Overlay(flightVer[f], mem[s][f], assigned)
<1>1. /\ lock[f] \in {None, s} /\ IndexAllows(f, new)
      /\ lock' = [lock EXCEPT ![f] = s]
      /\ flightVer' = [flightVer EXCEPT ![f] = new]
      /\ mem' = [mem EXCEPT ![s][f] = assigned]
      /\ rentalVer' = [r \in Rentals |-> IF FlightOf[r] = f THEN rows[r] ELSE rentalVer[r]]
      /\ UNCHANGED <<flight, rental, settlements, airportLock>>
  BY DEF Flush
<1>2. GoodWrite(s, f, assigned, rows, new)
  OBVIOUS
<1> HIDE DEF new
<1>3. DataTypeOK'
  BY <1>1, <1>2 DEF DataTypeOK, GoodWrite
<1>4. ASSUME NEW g \in Flights PROVE FlightInv(g)'
  <2>1. FlightInv(g)
    BY DEF DataInv
  <2>2. CASE g # f
    BY <1>1, <2>1, <2>2 DEF DataTypeOK, FlightInv
  <2>3. CASE g = f
    BY <1>1, <1>2, <2>1, <2>3
       DEF DataTypeOK, FlightInv, GoodWrite, OpenStatus, ResolvedStatus, Absent
  <2>4. QED
    BY <2>2, <2>3
<1>5. ASSUME NEW r \in Rentals PROVE RentalInv(r)'
  <2>1. RentalInv(r)
    BY DEF DataInv
  <2>2. CASE FlightOf[r] # f
    BY <1>1, <2>1, <2>2 DEF DataTypeOK, RentalInv
  <2>3. CASE FlightOf[r] = f
    BY <1>1, <1>2, <2>1, <2>3 DEF DataTypeOK, RentalInv, GoodWrite, BusyStatus
  <2>4. QED
    BY <2>2, <2>3
<1>6. IndexInv'
  BY <1>1 DEF DataInv, DataTypeOK, IndexInv, OpenAnywhere, IndexAllows
<1>7. ASSUME NEW t \in Sessions, NEW g \in Flights PROVE MemInv(t, g)'
  <2>1. MemInv(t, g)
    BY DEF DataInv
  <2>2. CASE g # f
    BY <1>1, <2>1, <2>2 DEF DataTypeOK, MemInv, LoadedInv, BoardLoadedInv
  <2>3. CASE g = f /\ t # s
    BY <1>1, <1>2, <2>1, <2>3 DEF DataTypeOK, MemInv, LoadedInv, BoardLoadedInv, GoodWrite,
       ResolvedStatus, OpenStatus
  <2>4. CASE g = f /\ t = s
    BY <1>1, <1>2, <2>4 DEF DataTypeOK, MemInv, LoadedInv, BoardLoadedInv, GoodWrite
  <2>5. QED
    BY <2>2, <2>3, <2>4
<1>8. QED
  BY <1>3, <1>4, <1>5, <1>6, <1>7 DEF DataInv

-------------------------------------------------------------------------------
(* Every write the handlers make is a good one.                            *)

(* Recording a sample writes no column the model keeps.                    *)
LEMMA SampleGood ==
  ASSUME DataTypeOK, DataInv, NEW s \in Sessions, NEW f \in Flights,
         mem[s][f].status \in OpenStatus
  PROVE  GoodWrite(s, f, mem[s][f], rentalVer, Overlay(flightVer[f], mem[s][f], mem[s][f]))
<1> DEFINE row == mem[s][f]
<1>1. row \in FlightRow /\ flightVer[f] \in FlightRow
  BY DEF DataTypeOK
<1>2. Overlay(flightVer[f], row, row) = flightVer[f]
  BY <1>1, OverlayLemma
<1>3. row # NoFlight /\ FlightInv(f) /\ MemInv(s, f)
  BY DEF DataInv, NoFlight, OpenStatus, Absent
<1>4. \A r \in Rentals : RentalInv(r) /\ rentalVer[r] \in RentalRow
  BY DEF DataInv, DataTypeOK
<1>5. QED
  BY <1>1, <1>2, <1>3, <1>4
     DEF GoodWrite, FlightInv, MemInv, LoadedInv, BoardLoadedInv, RentalInv, OpenStatus, ResolvedStatus, BusyStatus

(* Resolving is a good write for any session that has loaded the flight as *)
(* open, however long ago: it closes the flight and settles every rental   *)
(* under way.                                                              *)
LEMMA ResolveGood ==
  ASSUME DataTypeOK, DataInv, NEW s \in Sessions, NEW f \in Flights,
         mem[s][f].status \in OpenStatus, NEW st \in ResolvedStatus
  PROVE  LET assigned == ResolvedFlight(mem[s][f], st) IN
         GoodWrite(s, f, assigned, [r \in Rentals |-> Settle(rentalVer[r], ReasonOf(st))],
                   Overlay(flightVer[f], mem[s][f], assigned))
<1> DEFINE row == mem[s][f]
           assigned == ResolvedFlight(row, st)
           new == Overlay(flightVer[f], row, assigned)
           rows == [r \in Rentals |-> Settle(rentalVer[r], ReasonOf(st))]
<1>1. row \in FlightRow /\ flightVer[f] \in FlightRow
  BY DEF DataTypeOK
<1>2. /\ assigned \in FlightRow /\ assigned.status = st /\ assigned.capacity_open = FALSE
      /\ assigned.landing_suspected = row.landing_suspected
  BY <1>1, RowTypes DEF ResolvedFlight, FlightRow
<1>3. row # NoFlight /\ FlightInv(f) /\ MemInv(s, f)
  BY DEF DataInv, NoFlight, OpenStatus, Absent
<1>4. /\ new \in FlightRow /\ new.status = st
      /\ new.capacity_open = IF row.capacity_open THEN FALSE ELSE flightVer[f].capacity_open
      /\ new.landing_suspected = flightVer[f].landing_suspected
  <2>1. row.status # st /\ (row.capacity_open = TRUE \/ row.capacity_open = FALSE)
    BY <1>1 DEF OpenStatus, ResolvedStatus, FlightRow
  <2>2. /\ new \in FlightRow
        /\ new.status = IF assigned.status = row.status THEN flightVer[f].status
                        ELSE assigned.status
        /\ new.capacity_open = IF assigned.capacity_open = row.capacity_open
                               THEN flightVer[f].capacity_open ELSE assigned.capacity_open
        /\ new.landing_suspected = IF assigned.landing_suspected = row.landing_suspected
                      THEN flightVer[f].landing_suspected ELSE assigned.landing_suspected
    BY <1>1, <1>2, OverlayLemma
  <2> HIDE DEF new, assigned
  <2>3. CASE row.capacity_open = TRUE
    BY <1>2, <2>1, <2>2, <2>3
  <2>4. CASE row.capacity_open = FALSE
    BY <1>2, <2>1, <2>2, <2>4
  <2>5. QED
    BY <2>1, <2>3, <2>4
<1>5. RowOK(assigned) /\ RowOK(new)
  <2>1. row.capacity_open <=> row.status = "AIRBORNE_OPEN"
    BY <1>3 DEF MemInv, LoadedInv, RowOK
  <2>2. ~row.capacity_open => flightVer[f].capacity_open = FALSE
    BY <1>1, <1>3, <2>1 DEF MemInv, LoadedInv, FlightInv, RowOK, FlightRow
  <2>3. QED
    BY <1>2, <1>4, <2>2 DEF RowOK, ResolvedStatus, Absent
<1>6. \A r \in Rentals :
        /\ rows[r] \in RentalRow
        /\ rentalVer[r].status \notin BusyStatus => rows[r] = rentalVer[r]
        /\ rentalVer[r].status \in BusyStatus => rows[r].status = "RESOLVED"
  BY RentalRowTypes DEF DataTypeOK, Settle
<1>7. \A r \in Rentals : Tracks(new, rows[r])
  BY <1>6 DEF Tracks, BusyStatus
<1>8. QED
  BY <1>2, <1>3, <1>4, <1>5, <1>6, <1>7
     DEF GoodWrite, MemInv, LoadedInv, BoardLoadedInv, OpenStatus, ResolvedStatus, Absent

(* Locking the capacity is a good write for a board session: its airport   *)
(* lock rules out that another board has suspected a landing meanwhile.    *)
LEMMA LockGood ==
  ASSUME DataTypeOK, DataInv, NEW s \in Sessions, NEW f \in Flights,
         pc[s] \in BoardPC, mem[s][f].status = "AIRBORNE_OPEN"
  PROVE  LET assigned == LockedFlight(mem[s][f]) IN
         GoodWrite(s, f, assigned,
                   [r \in Rentals |-> Advance(rentalVer[r], "FLYING", "IN_PROGRESS")],
                   Overlay(flightVer[f], mem[s][f], assigned))
<1> DEFINE row == mem[s][f]
           assigned == LockedFlight(row)
           new == Overlay(flightVer[f], row, assigned)
           rows == [r \in Rentals |-> Advance(rentalVer[r], "FLYING", "IN_PROGRESS")]
<1>1. row \in FlightRow /\ flightVer[f] \in FlightRow
  BY DEF DataTypeOK
<1>2. row # NoFlight /\ FlightInv(f) /\ MemInv(s, f)
  BY DEF DataInv, NoFlight, Absent
<1>3. row.capacity_open = TRUE /\ row.landing_suspected = FALSE
  BY <1>1, <1>2 DEF MemInv, LoadedInv, RowOK, FlightRow
<1>4. /\ assigned \in FlightRow /\ assigned.status = "AIRBORNE_LOCKED"
      /\ assigned.capacity_open = FALSE /\ assigned.landing_suspected = FALSE
  BY <1>1, <1>3, RowTypes DEF LockedFlight, FlightRow
<1>5. /\ new \in FlightRow /\ new.status = "AIRBORNE_LOCKED"
      /\ new.capacity_open = FALSE /\ new.landing_suspected = FALSE
  BY <1>1, <1>2, <1>3, <1>4, OverlayLemma DEF MemInv, LoadedInv, BoardLoadedInv
<1>6. \A r \in Rentals :
        /\ rows[r] \in RentalRow
        /\ rentalVer[r].status \notin BusyStatus => rows[r] = rentalVer[r]
        /\ rentalVer[r].status \in BusyStatus => rows[r].status \in BusyStatus
        /\ rows[r].status = "RESOLVING" => rentalVer[r].status = "RESOLVING"
  <2> SUFFICES ASSUME NEW r \in Rentals
               PROVE  /\ rows[r] \in RentalRow
                      /\ rentalVer[r].status \notin BusyStatus => rows[r] = rentalVer[r]
                      /\ rentalVer[r].status \in BusyStatus => rows[r].status \in BusyStatus
                      /\ rows[r].status = "RESOLVING" => rentalVer[r].status = "RESOLVING"
    OBVIOUS
  <2>1. rentalVer[r] \in RentalRow /\ rows[r] = Advance(rentalVer[r], "FLYING", "IN_PROGRESS")
    BY DEF DataTypeOK
  <2>2. /\ rows[r] \in RentalRow
        /\ rows[r].status = IF rentalVer[r].status = "FLYING" THEN "IN_PROGRESS" ELSE rentalVer[r].status
        /\ rentalVer[r].status # "FLYING" => rows[r] = rentalVer[r]
    BY <2>1, RentalRowTypes, AdvanceLemma
  <2>3. QED
    BY <2>2 DEF BusyStatus
<1>7. \A r \in Rentals : FlightOf[r] = f => Tracks(new, rows[r])
  <2>1. flightVer[f].status # "LANDING_SUSPECTED"
    BY <1>2 DEF MemInv, BoardLoadedInv, ResolvedStatus
  <2>2. \A r \in Rentals : FlightOf[r] = f => rentalVer[r].status # "RESOLVING"
    BY <2>1 DEF DataInv, RentalInv, Tracks
  <2>3. QED
    BY <1>5, <1>6, <2>2 DEF Tracks
<1>8. RowOK(assigned) /\ RowOK(new)
  BY <1>4, <1>5 DEF RowOK, Absent
<1>9. QED
  BY <1>2, <1>4, <1>5, <1>6, <1>7, <1>8 DEF GoodWrite, MemInv, LoadedInv, BoardLoadedInv, ResolvedStatus, Absent

(* So is marking a suspected landing.                                      *)
LEMMA MarkGood ==
  ASSUME DataTypeOK, DataInv, NEW s \in Sessions, NEW f \in Flights,
         pc[s] \in BoardPC, mem[s][f].status = "AIRBORNE_LOCKED"
  PROVE  LET assigned == SuspectedFlight(mem[s][f]) IN
         GoodWrite(s, f, assigned,
                   [r \in Rentals |-> Advance(rentalVer[r], "IN_PROGRESS", "RESOLVING")],
                   Overlay(flightVer[f], mem[s][f], assigned))
<1> DEFINE row == mem[s][f]
           assigned == SuspectedFlight(row)
           new == Overlay(flightVer[f], row, assigned)
           rows == [r \in Rentals |-> Advance(rentalVer[r], "IN_PROGRESS", "RESOLVING")]
<1>1. row \in FlightRow /\ flightVer[f] \in FlightRow
  BY DEF DataTypeOK
<1>2. row # NoFlight /\ FlightInv(f) /\ MemInv(s, f)
  BY DEF DataInv, NoFlight, Absent
<1>3. row.capacity_open = FALSE /\ row.landing_suspected = FALSE
  BY <1>1, <1>2 DEF MemInv, LoadedInv, RowOK, FlightRow
<1>4. /\ assigned \in FlightRow /\ assigned.status = "LANDING_SUSPECTED"
      /\ assigned.capacity_open = FALSE /\ assigned.landing_suspected = TRUE
  BY <1>1, <1>3, RowTypes DEF SuspectedFlight, FlightRow
<1>5. /\ new \in FlightRow /\ new.status = "LANDING_SUSPECTED"
      /\ new.capacity_open = FALSE /\ new.landing_suspected = TRUE
  <2>1. flightVer[f].capacity_open = FALSE
    BY <1>1, <1>2 DEF MemInv, LoadedInv, FlightInv, RowOK, FlightRow
  <2>2. QED
    BY <1>1, <1>2, <1>3, <1>4, <2>1, OverlayLemma DEF MemInv, LoadedInv, BoardLoadedInv
<1>6. \A r \in Rentals :
        /\ rows[r] \in RentalRow
        /\ rentalVer[r].status \notin BusyStatus => rows[r] = rentalVer[r]
        /\ rentalVer[r].status \in BusyStatus => rows[r].status \in BusyStatus
        /\ rows[r].status # "IN_PROGRESS"
  <2> SUFFICES ASSUME NEW r \in Rentals
               PROVE  /\ rows[r] \in RentalRow
                      /\ rentalVer[r].status \notin BusyStatus => rows[r] = rentalVer[r]
                      /\ rentalVer[r].status \in BusyStatus => rows[r].status \in BusyStatus
                      /\ rows[r].status # "IN_PROGRESS"
    OBVIOUS
  <2>1. rentalVer[r] \in RentalRow /\ rows[r] = Advance(rentalVer[r], "IN_PROGRESS", "RESOLVING")
    BY DEF DataTypeOK
  <2>2. /\ rows[r] \in RentalRow
        /\ rows[r].status = IF rentalVer[r].status = "IN_PROGRESS" THEN "RESOLVING" ELSE rentalVer[r].status
        /\ rentalVer[r].status # "IN_PROGRESS" => rows[r] = rentalVer[r]
    BY <2>1, RentalRowTypes, AdvanceLemma
  <2>3. QED
    BY <2>2 DEF BusyStatus
<1>7. \A r \in Rentals : Tracks(new, rows[r])
  BY <1>5, <1>6 DEF Tracks
<1>8. RowOK(assigned) /\ RowOK(new)
  BY <1>4, <1>5 DEF RowOK, Absent
<1>9. QED
  BY <1>2, <1>4, <1>5, <1>6, <1>7, <1>8 DEF GoodWrite, MemInv, LoadedInv, BoardLoadedInv, ResolvedStatus, Absent

(* And so is rolling a suspected landing back.                             *)
LEMMA RollbackGood ==
  ASSUME DataTypeOK, DataInv, NEW s \in Sessions, NEW f \in Flights,
         pc[s] \in BoardPC, mem[s][f].status = "LANDING_SUSPECTED"
  PROVE  LET assigned == RolledBackFlight(mem[s][f]) IN
         GoodWrite(s, f, assigned,
                   [r \in Rentals |-> Advance(rentalVer[r], "RESOLVING", "IN_PROGRESS")],
                   Overlay(flightVer[f], mem[s][f], assigned))
<1> DEFINE row == mem[s][f]
           assigned == RolledBackFlight(row)
           new == Overlay(flightVer[f], row, assigned)
           rows == [r \in Rentals |-> Advance(rentalVer[r], "RESOLVING", "IN_PROGRESS")]
<1>1. row \in FlightRow /\ flightVer[f] \in FlightRow
  BY DEF DataTypeOK
<1>2. row # NoFlight /\ FlightInv(f) /\ MemInv(s, f)
  BY DEF DataInv, NoFlight, Absent
<1>3. row.capacity_open = FALSE /\ row.landing_suspected = TRUE
  BY <1>1, <1>2 DEF MemInv, LoadedInv, RowOK, FlightRow
<1>4. /\ assigned \in FlightRow /\ assigned.status = "AIRBORNE_LOCKED"
      /\ assigned.capacity_open = FALSE /\ assigned.landing_suspected = FALSE
  BY <1>1, <1>3, RowTypes DEF RolledBackFlight, FlightRow
<1>5. /\ new \in FlightRow /\ new.status = "AIRBORNE_LOCKED"
      /\ new.capacity_open = FALSE /\ new.landing_suspected = FALSE
  <2>1. flightVer[f].capacity_open = FALSE
    BY <1>1, <1>2 DEF MemInv, LoadedInv, FlightInv, RowOK, FlightRow
  <2>2. QED
    BY <1>1, <1>2, <1>3, <1>4, <2>1, OverlayLemma DEF MemInv, LoadedInv, BoardLoadedInv
<1>6. \A r \in Rentals :
        /\ rows[r] \in RentalRow
        /\ rentalVer[r].status \notin BusyStatus => rows[r] = rentalVer[r]
        /\ rentalVer[r].status \in BusyStatus => rows[r].status \in BusyStatus
        /\ rows[r].status # "RESOLVING"
  <2> SUFFICES ASSUME NEW r \in Rentals
               PROVE  /\ rows[r] \in RentalRow
                      /\ rentalVer[r].status \notin BusyStatus => rows[r] = rentalVer[r]
                      /\ rentalVer[r].status \in BusyStatus => rows[r].status \in BusyStatus
                      /\ rows[r].status # "RESOLVING"
    OBVIOUS
  <2>1. rentalVer[r] \in RentalRow /\ rows[r] = Advance(rentalVer[r], "RESOLVING", "IN_PROGRESS")
    BY DEF DataTypeOK
  <2>2. /\ rows[r] \in RentalRow
        /\ rows[r].status = IF rentalVer[r].status = "RESOLVING" THEN "IN_PROGRESS" ELSE rentalVer[r].status
        /\ rentalVer[r].status # "RESOLVING" => rows[r] = rentalVer[r]
    BY <2>1, RentalRowTypes, AdvanceLemma
  <2>3. QED
    BY <2>2 DEF BusyStatus
<1>7. \A r \in Rentals : Tracks(new, rows[r])
  BY <1>5, <1>6 DEF Tracks
<1>8. RowOK(assigned) /\ RowOK(new)
  BY <1>4, <1>5 DEF RowOK, Absent
<1>9. QED
  BY <1>2, <1>4, <1>5, <1>6, <1>7, <1>8 DEF GoodWrite, MemInv, LoadedInv, BoardLoadedInv, ResolvedStatus, Absent

(* A new flight has no rentals and no older versions.                      *)
LEMMA CreateGood ==
  ASSUME DataTypeOK, DataInv, NEW s \in Sessions, NEW f \in Flights,
         flightVer[f] = NoFlight, airportLock[Origin[f]] = s
  PROVE  GoodWrite(s, f, CreatedFlight, rentalVer,
                   Overlay(flightVer[f], mem[s][f], CreatedFlight))
<1>1. MemInv(s, f) /\ mem[s][f] \in FlightRow /\ flightVer[f] \in FlightRow
  BY DEF DataInv, DataTypeOK
<1>2. mem[s][f] = NoFlight
  BY <1>1 DEF MemInv, LoadedInv, NoFlight
<1>3. Overlay(flightVer[f], mem[s][f], CreatedFlight) = CreatedFlight
  BY <1>2 DEF Overlay, NoFlight, CreatedFlight, Absent
<1>4. \A r \in Rentals : FlightOf[r] = f =>
        rentalVer[r] \in RentalRow /\ Tracks(CreatedFlight, rentalVer[r])
  BY DEF DataInv, DataTypeOK, RentalInv, Tracks, NoFlight, Absent
<1>5. /\ RowOK(CreatedFlight) /\ CreatedFlight \in FlightRow
      /\ CreatedFlight.status = "AIRBORNE_OPEN" /\ CreatedFlight.landing_suspected = FALSE
  BY RowTypes DEF RowOK, CreatedFlight, Absent
<1>6. flightVer[f].status = Absent
  BY DEF NoFlight
<1>7. QED
  BY <1>3, <1>4, <1>5, <1>6 DEF GoodWrite, ResolvedStatus, Absent

-------------------------------------------------------------------------------
(* Loading a flight, committing and rolling back.                          *)

(* What a session reads of a flight, from the database or from its         *)
(* identity map, satisfies the invariant of loaded objects.                *)
LEMMA LoadLemma ==
  ASSUME DataTypeOK, DataInv, NEW s \in Sessions, NEW f \in Flights
  PROVE  /\ Loaded(s, f) \in FlightRow
         /\ LoadedInv(s, f, Loaded(s, f))
         /\ pc[s] \in BoardPC /\ airportLock[Origin[f]] = s /\ Visible(s, f).status \in OpenStatus
            => /\ BoardLoadedInv(s, f, Loaded(s, f))
               /\ Loaded(s, f).status \in OpenStatus
<1>1. FlightInv(f) /\ MemInv(s, f)
  BY DEF DataInv
<1>2. mem[s][f] \in FlightRow /\ flight[f] \in FlightRow /\ flightVer[f] \in FlightRow
  BY DEF DataTypeOK
<1>3. CASE mem[s][f] # NoFlight
  BY <1>1, <1>2, <1>3
     DEF Loaded, Visible, MemInv, LoadedInv, BoardLoadedInv, OpenStatus, ResolvedStatus,
         FlightRow, Absent
<1>4. CASE mem[s][f] = NoFlight
  <2>1. Loaded(s, f) = Visible(s, f)
    BY <1>4 DEF Loaded
  <2>2. LoadedInv(s, f, Visible(s, f))
    BY <1>1, <1>2 DEF Visible, FlightInv, RowOK, LoadedInv
  <2>3. ASSUME airportLock[Origin[f]] = s, Visible(s, f).status \in OpenStatus
        PROVE  BoardLoadedInv(s, f, Visible(s, f))
    BY <1>1, <1>2, <2>3
       DEF Visible, FlightInv, BoardLoadedInv, OpenStatus, ResolvedStatus, FlightRow, Absent
  <2>4. Visible(s, f) \in FlightRow
    BY <1>2 DEF Visible
  <2>5. QED
    BY <2>1, <2>2, <2>3, <2>4
<1>5. QED
  BY <1>3, <1>4

(* A commit makes the session's versions of the rows it locked the         *)
(* committed ones.                                                         *)
LEMMA CommitLemma ==
  ASSUME DataTypeOK, DataInv, NEW s \in Sessions, Commit(s),
         pc \in [Sessions -> PC]
  PROVE  DataTypeOK' /\ DataInv'
<1>1. /\ flight' = [f \in Flights |-> IF lock[f] = s THEN flightVer[f] ELSE flight[f]]
      /\ rental' = [r \in Rentals |-> IF lock[FlightOf[r]] = s THEN rentalVer[r] ELSE rental[r]]
      /\ lock' = [f \in Flights |-> IF lock[f] = s THEN None ELSE lock[f]]
      /\ airportLock' = [a \in Airports |-> IF airportLock[a] = s THEN None ELSE airportLock[a]]
      /\ pc' = [pc EXCEPT ![s] = "idle"]
      /\ mem' = [mem EXCEPT ![s] = [f \in Flights |-> NoFlight]]
      /\ UNCHANGED <<flightVer, rentalVer, settlements>>
  BY DEF Commit, EndSession, Holds
<1>2. DataTypeOK'
  BY <1>1, RowTypes DEF DataTypeOK
<1>3. ASSUME NEW f \in Flights PROVE FlightInv(f)'
  <2>1. FlightInv(f)
    BY DEF DataInv
  <2>2. QED
    BY <1>1, <2>1 DEF DataTypeOK, FlightInv
<1>4. ASSUME NEW r \in Rentals PROVE RentalInv(r)'
  <2>1. RentalInv(r) /\ FlightInv(FlightOf[r])
    BY DEF DataInv
  <2>2. QED
    BY <1>1, <2>1 DEF DataTypeOK, RentalInv, FlightInv, BusyStatus, Absent
<1>5. IndexInv'
  BY <1>1 DEF DataInv, IndexInv, OpenAnywhere
<1>6. ASSUME NEW t \in Sessions, NEW f \in Flights PROVE MemInv(t, f)'
  <2>1. MemInv(t, f) /\ FlightInv(f)
    BY DEF DataInv
  <2>2. CASE t = s
    BY <1>1, <2>2 DEF DataTypeOK, MemInv, LoadedInv, BoardLoadedInv, BoardPC
  <2>3. CASE t # s
    BY <1>1, <2>1, <2>3 DEF DataTypeOK, MemInv, FlightInv, LoadedInv, BoardLoadedInv
  <2>4. QED
    BY <2>2, <2>3
<1>7. QED
  BY <1>2, <1>3, <1>4, <1>5, <1>6 DEF DataInv

(* A rollback gives the rows back their committed versions.                *)
LEMMA RollbackLemma ==
  ASSUME DataTypeOK, DataInv, NEW s \in Sessions, Rollback(s),
         pc \in [Sessions -> PC]
  PROVE  DataTypeOK' /\ DataInv'
<1>1. /\ flightVer' = [f \in Flights |-> IF lock[f] = s THEN flight[f] ELSE flightVer[f]]
      /\ rentalVer' = [r \in Rentals |-> IF lock[FlightOf[r]] = s THEN rental[r] ELSE rentalVer[r]]
      /\ lock' = [f \in Flights |-> IF lock[f] = s THEN None ELSE lock[f]]
      /\ airportLock' = [a \in Airports |-> IF airportLock[a] = s THEN None ELSE airportLock[a]]
      /\ pc' = [pc EXCEPT ![s] = "idle"]
      /\ mem' = [mem EXCEPT ![s] = [f \in Flights |-> NoFlight]]
      /\ UNCHANGED <<flight, rental, settlements>>
  BY DEF Rollback, EndSession, Holds
<1>2. DataTypeOK'
  BY <1>1, RowTypes DEF DataTypeOK
<1>3. ASSUME NEW f \in Flights PROVE FlightInv(f)'
  <2>1. FlightInv(f)
    BY DEF DataInv
  <2>2. QED
    BY <1>1, <2>1 DEF DataTypeOK, FlightInv
<1>4. ASSUME NEW r \in Rentals PROVE RentalInv(r)'
  <2>1. RentalInv(r)
    BY DEF DataInv
  <2>2. QED
    BY <1>1, <2>1 DEF DataTypeOK, RentalInv, BusyStatus
<1>5. IndexInv'
  BY <1>1 DEF DataInv, IndexInv, OpenAnywhere
<1>6. ASSUME NEW t \in Sessions, NEW f \in Flights PROVE MemInv(t, f)'
  <2>1. MemInv(t, f) /\ FlightInv(f)
    BY DEF DataInv
  <2>2. CASE t = s
    BY <1>1, <2>2 DEF DataTypeOK, MemInv, LoadedInv, BoardLoadedInv, BoardPC
  <2>3. CASE t # s
    BY <1>1, <2>1, <2>3 DEF DataTypeOK, MemInv, FlightInv, LoadedInv, BoardLoadedInv
  <2>4. QED
    BY <2>2, <2>3
<1>7. QED
  BY <1>2, <1>3, <1>4, <1>5, <1>6 DEF DataInv

(* RentCommit and ClaimCommit end a session that holds no flight and write *)
(* one rental, both versions of it.                                        *)
LEMMA OneRentalLemma ==
  ASSUME DataTypeOK, DataInv, NEW s \in Sessions, SessionInv(s), EndSession(s),
         pc \in [Sessions -> PC], pc[s] \notin WriterPC,
         NEW q \in Rentals, NEW row \in RentalRow, NEW n \in Nat,
         row.status \notin {Absent, "IN_PROGRESS", "RESOLVING"},
         flight[FlightOf[q]].status # Absent,
         n > 0 <=> row.status = "CLAIMED",
         rental' = [rental EXCEPT ![q] = row],
         rentalVer' = [rentalVer EXCEPT ![q] = row],
         settlements' = [settlements EXCEPT ![q] = n],
         UNCHANGED <<flight, flightVer>>
  PROVE  DataTypeOK' /\ DataInv'
<1>1. /\ lock' = [f \in Flights |-> IF lock[f] = s THEN None ELSE lock[f]]
      /\ airportLock' = [a \in Airports |-> IF airportLock[a] = s THEN None ELSE airportLock[a]]
      /\ pc' = [pc EXCEPT ![s] = "idle"]
      /\ mem' = [mem EXCEPT ![s] = [f \in Flights |-> NoFlight]]
  BY DEF EndSession
<1>2. \A f \in Flights : lock[f] # s
  BY DEF SessionInv
<1>3. DataTypeOK'
  BY <1>1, RowTypes DEF DataTypeOK
<1>4. ASSUME NEW f \in Flights PROVE FlightInv(f)'
  <2>1. FlightInv(f)
    BY DEF DataInv
  <2>2. QED
    BY <1>1, <1>2, <2>1 DEF DataTypeOK, FlightInv
<1>5. ASSUME NEW r \in Rentals PROVE RentalInv(r)'
  <2>1. RentalInv(r)
    BY DEF DataInv
  <2>2. CASE r = q
    BY <1>1, <1>2, <2>1, <2>2 DEF DataTypeOK, RentalInv, Tracks, BusyStatus
  <2>3. CASE r # q
    BY <1>1, <1>2, <2>1, <2>3 DEF DataTypeOK, RentalInv
  <2>4. QED
    BY <2>2, <2>3
<1>6. IndexInv'
  BY DEF DataInv, IndexInv, OpenAnywhere
<1>7. ASSUME NEW t \in Sessions, NEW f \in Flights PROVE MemInv(t, f)'
  <2>1. MemInv(t, f)
    BY DEF DataInv
  <2>2. CASE t = s
    BY <1>1, <2>2 DEF DataTypeOK, MemInv, LoadedInv, BoardLoadedInv, BoardPC
  <2>3. CASE t # s
    BY <1>1, <1>2, <2>1, <2>3 DEF DataTypeOK, MemInv, LoadedInv, BoardLoadedInv
  <2>4. QED
    BY <2>2, <2>3
<1>8. QED
  BY <1>3, <1>4, <1>5, <1>6, <1>7 DEF DataInv

(* A step of session s that takes airport locks for itself, loads flights  *)
(* into its own identity map, and leaves the rows alone.                   *)
LEMMA LocalLemma ==
  ASSUME DataTypeOK, DataInv, NEW s \in Sessions,
         UNCHANGED <<flight, flightVer, lock, rental, rentalVer, settlements>>,
         airportLock' \in [Airports -> Sessions \cup {None}],
         \A a \in Airports : airportLock[a] \in {None, airportLock'[a]},
         mem' \in [Sessions -> [Flights -> FlightRow]],
         \A t \in Sessions \ {s} : mem'[t] = mem[t] /\ pc'[t] = pc[t],
         \A f \in Flights :
           /\ LoadedInv(s, f, mem'[s][f])
           /\ pc'[s] \in BoardPC => BoardLoadedInv(s, f, mem'[s][f])
  PROVE  DataTypeOK' /\ DataInv'
<1>1. DataTypeOK'
  BY DEF DataTypeOK
<1>2. ASSUME NEW f \in Flights PROVE FlightInv(f)'
  <2>1. FlightInv(f)
    BY DEF DataInv
  <2>2. QED
    BY <2>1 DEF DataTypeOK, FlightInv
<1>3. ASSUME NEW r \in Rentals PROVE RentalInv(r)'
  BY DEF DataInv, RentalInv
<1>4. IndexInv'
  BY DEF DataInv, IndexInv, OpenAnywhere
<1>5. ASSUME NEW t \in Sessions, NEW f \in Flights PROVE MemInv(t, f)'
  <2>1. MemInv(t, f)
    BY DEF DataInv
  <2>2. CASE t # s
    BY <2>1, <2>2 DEF MemInv, LoadedInv, BoardLoadedInv
  <2>3. CASE t = s
    BY <2>3 DEF MemInv, LoadedInv, BoardLoadedInv
  <2>4. QED
    BY <2>2, <2>3
<1>6. QED
  BY <1>1, <1>2, <1>3, <1>4, <1>5 DEF DataInv

-------------------------------------------------------------------------------
(* The sessions.                                                           *)
ControlTypeOK ==
  /\ pc \in [Sessions -> PC]
  /\ item \in [Sessions -> Flights \cup Rentals \cup {None}]
  /\ due \in [Sessions -> SUBSET Airports]
  /\ at \in [Sessions -> Airports \cup {None}]
  /\ left \in [Sessions -> SUBSET (Aircraft \cup Flights \cup Rentals)]

(* The invariant, cut into data and control.                               *)
LEMMA InvParts ==
  LifecycleInv <=> DataTypeOK /\ ControlTypeOK /\ DataInv /\ \A s \in Sessions : SessionInv(s)
BY DEF LifecycleInv, TypeOK, DataTypeOK, ControlTypeOK, DataInv

(* What a step of session s leaves to the other sessions.                  *)
Frame(s) ==
  /\ \A t \in Sessions \ {s} :
       /\ pc'[t] = pc[t] /\ mem'[t] = mem[t] /\ item'[t] = item[t]
       /\ at'[t] = at[t] /\ left'[t] = left[t]
       /\ \A f \in Flights : lock'[f] = t => lock[f] = t
       /\ \A a \in Airports : airportLock[a] = t => airportLock'[a] = t
       /\ pc[t] \in RentPC => item'[s] # item[t]
  /\ \A f \in Flights : flight[f].status # Absent => flight'[f].status # Absent
  /\ \A r \in Rentals :
       /\ rental[r].status # Absent => rental'[r].status # Absent
       /\ rental[r].status \in SettledStatus => rental'[r].status \in SettledStatus
       /\ rental[r].status = Absent =>
            rental'[r].status = Absent \/ (pc[s] \in RentPC /\ item[s] = r)

(* A step of session s that keeps Frame(s) disturbs no other session.      *)
LEMMA FrameLemma ==
  ASSUME DataTypeOK, ControlTypeOK, NEW s \in Sessions, Frame(s),
         \A t \in Sessions : SessionInv(t),
         NEW t \in Sessions, t # s
  PROVE  SessionInv(t)'
<1>1. SessionInv(t) /\ SessionInv(s)
  OBVIOUS
<1>2. /\ pc'[t] = pc[t] /\ mem'[t] = mem[t] /\ item'[t] = item[t]
      /\ at'[t] = at[t] /\ left'[t] = left[t]
      /\ \A f \in Flights : lock'[f] = t => lock[f] = t
      /\ \A a \in Airports : airportLock[a] = t => airportLock'[a] = t
      /\ pc[t] \in RentPC => item'[s] # item[t]
  BY DEF Frame
<1>3. pc[t] \in RentPC =>
        /\ item[t] \in Rentals /\ rental'[item[t]].status = Absent
        /\ flight'[FlightOf[item[t]]].status # Absent
        /\ \A u \in Sessions \ {t} : item'[u] # item[t]
  BY <1>1, <1>2 DEF SessionInv, Frame
<1>4. pc[t] = "claim_credit" =>
        item[t] \in Rentals /\ rental'[item[t]].status \in SettledStatus
  BY <1>1 DEF SessionInv, Frame
<1>5. pc[t] \in {"check_rentals", "check_adsb"} =>
        \A r \in left[t] : r \in Rentals /\ rental'[r].status # Absent
  BY <1>1 DEF SessionInv, Frame
<1>6. QED
  BY <1>1, <1>2, <1>3, <1>4, <1>5 DEF SessionInv

(* What is left to show for a step of session s.                           *)
LEMMA StepLemma ==
  ASSUME LifecycleInv, NEW s \in Sessions, Frame(s),
         DataTypeOK', DataInv', ControlTypeOK', SessionInv(s)'
  PROVE  LifecycleInv'
<1>1. \A t \in Sessions : SessionInv(t)'
  BY InvParts, FrameLemma
<1>2. QED
  BY <1>1 DEF LifecycleInv, TypeOK, DataTypeOK, ControlTypeOK, DataInv

(* Steps that only move the session: no lock, no row, no loaded flight.    *)
LEMMA MoveLemma ==
  ASSUME DataTypeOK, ControlTypeOK, DataInv, NEW s \in Sessions, NEW to \in PC,
         UNCHANGED <<dbVars, mem>>, pc' = [pc EXCEPT ![s] = to],
         to \in BoardPC => pc[s] \in BoardPC \cup {"idle"},
         pc[s] = "idle" => SessionInv(s)
  PROVE  DataTypeOK' /\ DataInv'
<1>1. ASSUME NEW f \in Flights
      PROVE  /\ LoadedInv(s, f, mem'[s][f])
             /\ pc'[s] \in BoardPC => BoardLoadedInv(s, f, mem'[s][f])
  <2>1. MemInv(s, f) /\ pc'[s] = to
    BY DEF DataInv, ControlTypeOK
  <2>2. CASE pc[s] = "idle"
    BY <2>1, <2>2 DEF SessionInv, LoadedInv, BoardLoadedInv, WriterPC, BoardPC
  <2>3. CASE pc[s] # "idle"
    BY <2>1, <2>3 DEF MemInv
  <2>4. QED
    BY <2>2, <2>3
<1>2. QED
  BY <1>1, LocalLemma DEF dbVars, DataTypeOK, ControlTypeOK

(* Starting a board refresh only moves the session.                        *)
LEMMA BoardBeginInv ==
  ASSUME LifecycleInv, NEW s \in Sessions, BoardBegin(s)
  PROVE  LifecycleInv'
<1>1. DataTypeOK /\ ControlTypeOK /\ DataInv /\ \A t \in Sessions : SessionInv(t)
  BY InvParts
<1>2. /\ pc[s] = "idle" /\ pc' = [pc EXCEPT ![s] = "board_airport"]
      /\ \E airports \in SUBSET Airports : due' = [due EXCEPT ![s] = airports]
      /\ UNCHANGED <<dbVars, mem, item, at, left>>
  BY DEF BoardBegin, Goto
<1>3. DataTypeOK' /\ DataInv'
  BY <1>1, <1>2, MoveLemma DEF PC, BoardPC
<1>4. ControlTypeOK'
  BY <1>1, <1>2 DEF ControlTypeOK, PC
<1>5. Frame(s)
  BY <1>1, <1>2 DEF Frame, ControlTypeOK, dbVars, SessionInv
<1>6. SessionInv(s)'
  BY <1>1, <1>2 DEF SessionInv, ControlTypeOK, WriterPC, BoardPC, ScanPC, RentPC
<1>7. QED
  BY <1>3, <1>4, <1>5, <1>6, StepLemma

(* Turning to an airport takes its row lock, whether its query succeeds or *)
(* not.                                                                    *)
LEMMA BoardAirportInv ==
  ASSUME LifecycleInv, NEW s \in Sessions, BoardAirport(s) \/ BoardQueryFailed(s)
  PROVE  LifecycleInv'
<1>1. DataTypeOK /\ ControlTypeOK /\ DataInv /\ \A t \in Sessions : SessionInv(t)
  BY InvParts
<1>2. PICK a \in due[s] :
        /\ pc[s] = "board_airport" /\ airportLock[a] \in {None, s}
        /\ airportLock' = [airportLock EXCEPT ![a] = s]
        /\ due' = [due EXCEPT ![s] = @ \ {a}]
        /\ UNCHANGED <<flight, flightVer, lock, rental, rentalVer, settlements, mem, item>>
        /\ \/ /\ pc' = [pc EXCEPT ![s] = "board_states"]
              /\ at' = [at EXCEPT ![s] = a] /\ left' = [left EXCEPT ![s] = Aircraft]
           \/ UNCHANGED <<pc, at, left>>
  BY DEF BoardAirport, BoardQueryFailed, Goto
<1>3. a \in Airports
  BY <1>1, <1>2 DEF ControlTypeOK
<1>4. ControlTypeOK'
  BY <1>1, <1>2, <1>3 DEF ControlTypeOK, PC
<1>5. pc[s] \in BoardPC /\ pc'[s] \in {"board_airport", "board_states"}
  BY <1>1, <1>2 DEF ControlTypeOK, BoardPC
<1>6. DataTypeOK' /\ DataInv'
  <2>1. \A f \in Flights :
          LoadedInv(s, f, mem'[s][f]) /\ BoardLoadedInv(s, f, mem'[s][f])
    BY <1>1, <1>2, <1>5 DEF DataInv, MemInv
  <2>2. airportLock' \in [Airports -> Sessions \cup {None}]
    BY <1>1, <1>2 DEF DataTypeOK
  <2>3. \A b \in Airports : airportLock[b] \in {None, airportLock'[b]}
    BY <1>1, <1>2 DEF DataTypeOK
  <2>4. \A t \in Sessions \ {s} : mem'[t] = mem[t] /\ pc'[t] = pc[t]
    BY <1>1, <1>2 DEF ControlTypeOK
  <2>5. QED
    BY <1>1, <1>2, <2>1, <2>2, <2>3, <2>4, LocalLemma DEF DataTypeOK
<1>7. Frame(s)
  BY <1>1, <1>2 DEF Frame, ControlTypeOK, DataTypeOK, SessionInv
<1>8. SessionInv(s)'
  BY <1>1, <1>2, <1>3
     DEF SessionInv, ControlTypeOK, DataTypeOK, WriterPC, BoardPC, ScanPC, RentPC
<1>9. QED
  BY <1>4, <1>6, <1>7, <1>8, StepLemma

(* Seeing a takeoff only chooses the id of the new flight.                 *)
LEMMA BoardTakeoffInv ==
  ASSUME LifecycleInv, NEW s \in Sessions, BoardTakeoff(s)
  PROVE  LifecycleInv'
<1>1. DataTypeOK /\ ControlTypeOK /\ DataInv /\ \A t \in Sessions : SessionInv(t)
  BY InvParts
<1>2. PICK x \in left[s], f \in Flights :
        /\ pc[s] = "board_states" /\ pc' = [pc EXCEPT ![s] = "board_create"]
        /\ Origin[f] = at[s]
        /\ item' = [item EXCEPT ![s] = f] /\ left' = [left EXCEPT ![s] = @ \ {x}]
        /\ UNCHANGED <<dbVars, mem, due, at>>
  BY DEF BoardTakeoff, Goto
<1>3. DataTypeOK' /\ DataInv'
  BY <1>1, <1>2, MoveLemma DEF PC, BoardPC
<1>4. ControlTypeOK'
  BY <1>1, <1>2 DEF ControlTypeOK, PC
<1>5. Frame(s)
  BY <1>1, <1>2 DEF Frame, ControlTypeOK, dbVars, SessionInv
<1>6. SessionInv(s)'
  BY <1>1, <1>2 DEF SessionInv, ControlTypeOK, dbVars, WriterPC, BoardPC, ScanPC, RentPC
<1>7. QED
  BY <1>3, <1>4, <1>5, <1>6, StepLemma

(* Leaving the sweep only moves the session.                               *)
LEMMA BoardSweepEndInv ==
  ASSUME LifecycleInv, NEW s \in Sessions, BoardSweepEnd(s)
  PROVE  LifecycleInv'
<1>1. DataTypeOK /\ ControlTypeOK /\ DataInv /\ \A t \in Sessions : SessionInv(t)
  BY InvParts
<1>2. /\ pc[s] = "board_sweep" /\ pc' = [pc EXCEPT ![s] = "board_airport"]
      /\ at' = [at EXCEPT ![s] = None]
      /\ UNCHANGED <<dbVars, mem, item, due, left>>
  BY DEF BoardSweepEnd, Goto
<1>3. DataTypeOK' /\ DataInv'
  BY <1>1, <1>2, MoveLemma DEF PC, BoardPC
<1>4. ControlTypeOK'
  BY <1>1, <1>2 DEF ControlTypeOK, PC
<1>5. Frame(s)
  BY <1>1, <1>2 DEF Frame, ControlTypeOK, dbVars, SessionInv
<1>6. SessionInv(s)'
  BY <1>1, <1>2 DEF SessionInv, ControlTypeOK, dbVars, WriterPC, BoardPC, ScanPC, RentPC
<1>7. QED
  BY <1>3, <1>4, <1>5, <1>6, StepLemma

(* A flush leaves the other sessions alone.                                *)
LEMMA FlushFrame ==
  ASSUME DataTypeOK, ControlTypeOK, \A t \in Sessions : SessionInv(t),
         NEW s \in Sessions, NEW f \in Flights, NEW assigned, NEW rows,
         Flush(s, f, assigned, rows), item'[s] \notin Rentals, at' = at,
         \A t \in Sessions \ {s} : pc'[t] = pc[t] /\ item'[t] = item[t] /\ left'[t] = left[t]
  PROVE  /\ Frame(s)
         /\ mem'[s] = [mem[s] EXCEPT ![f] = assigned]
         /\ lock' = [lock EXCEPT ![f] = s]
         /\ UNCHANGED <<flight, rental, airportLock>>
<1>1. /\ lock' = [lock EXCEPT ![f] = s] /\ mem' = [mem EXCEPT ![s][f] = assigned]
      /\ UNCHANGED <<flight, rental, airportLock>>
  BY DEF Flush
<1>2. Frame(s)
  BY <1>1 DEF Frame, ControlTypeOK, DataTypeOK, SessionInv
<1>3. QED
  BY <1>1, <1>2 DEF DataTypeOK

WriteDone(s) ==
  /\ pc[s] \in {"board_create", "board_sample"} /\ pc' = [pc EXCEPT ![s] = "board_states"]
  /\ item' = [item EXCEPT ![s] = None]
  /\ UNCHANGED <<due, at, left>>

(* The two steps in which a board session flushes a flight it just found.  *)
LEMMA BoardWriteInv ==
  ASSUME LifecycleInv, NEW s \in Sessions, NEW assigned, NEW rows, WriteDone(s),
         GoodWrite(s, item[s], assigned, rows,
                   Overlay(flightVer[item[s]], mem[s][item[s]], assigned)),
         Flush(s, item[s], assigned, rows)
  PROVE  LifecycleInv'
<1> DEFINE f == item[s]
<1>1. DataTypeOK /\ ControlTypeOK /\ DataInv /\ \A t \in Sessions : SessionInv(t)
  BY InvParts
<1>2. /\ f \in Flights /\ Origin[f] = at[s] /\ at[s] \in Airports /\ airportLock[at[s]] = s
      /\ pc[s] \in BoardPC
  BY <1>1 DEF WriteDone, SessionInv, ScanPC, BoardPC
<1>3. \A t \in Sessions : pc'[t] \in BoardPC => pc[t] \in BoardPC
  BY <1>1, <1>2 DEF WriteDone, ControlTypeOK
<1>4. DataTypeOK' /\ DataInv'
  BY <1>1, <1>2, <1>3, FlushLemma
<1>5. ControlTypeOK'
  BY <1>1 DEF WriteDone, ControlTypeOK, PC
<1>6. /\ item'[s] \notin Rentals
      /\ \A t \in Sessions \ {s} : pc'[t] = pc[t] /\ item'[t] = item[t] /\ left'[t] = left[t]
  BY <1>1 DEF WriteDone, ControlTypeOK
<1>7. Frame(s) /\ airportLock' = airportLock
  BY <1>1, <1>2, <1>6, FlushFrame DEF WriteDone
<1>8. SessionInv(s)'
  BY <1>1, <1>2, <1>7 DEF WriteDone, SessionInv, ControlTypeOK, WriterPC, BoardPC, ScanPC, RentPC
<1>9. QED
  BY <1>4, <1>5, <1>7, <1>8, StepLemma

(* Inserting a tracked flight.                                             *)
LEMMA BoardCreateInv ==
  ASSUME LifecycleInv, NEW s \in Sessions, BoardCreate(s)
  PROVE  LifecycleInv'
<1>1. /\ pc[s] = "board_create" /\ WriteDone(s)
      /\ flightVer[item[s]] = NoFlight /\ Flush(s, item[s], CreatedFlight, rentalVer)
  BY DEF BoardCreate, Goto, WriteDone
<1>2. item[s] \in Flights /\ airportLock[Origin[item[s]]] = s
  BY <1>1, InvParts DEF SessionInv, ScanPC, BoardPC
<1>3. GoodWrite(s, item[s], CreatedFlight, rentalVer,
                Overlay(flightVer[item[s]], mem[s][item[s]], CreatedFlight))
  BY <1>1, <1>2, InvParts, CreateGood
<1>4. QED
  BY <1>1, <1>3, BoardWriteInv

(* Recording a sample, with the transition it may lead to.                 *)
LEMMA BoardSampleInv ==
  ASSUME LifecycleInv, NEW s \in Sessions, BoardSample(s)
  PROVE  LifecycleInv'
<1> DEFINE f == item[s]
<1>1. pc[s] = "board_sample" /\ WriteDone(s)
  BY DEF BoardSample, Goto, WriteDone
<1>2. f \in Flights /\ mem[s][f].status \in OpenStatus /\ pc[s] \in BoardPC
  BY <1>1, InvParts DEF SessionInv, BoardPC
<1>3. CASE RecordSample(s, f)
  <2> DEFINE assigned == mem[s][f]
             rows == rentalVer
  <2>1. GoodWrite(s, f, assigned, rows, Overlay(flightVer[f], mem[s][f], assigned))
    BY <1>2, <1>3, InvParts, SampleGood
  <2>2. Flush(s, f, assigned, rows)
    BY <1>3 DEF RecordSample
  <2> HIDE DEF assigned, rows
  <2>3. QED
    BY <1>1, <2>1, <2>2, BoardWriteInv
<1>4. CASE mem[s][f].status = "AIRBORNE_OPEN" /\ LockCapacity(s, f)
  <2> DEFINE assigned == LockedFlight(mem[s][f])
             rows == [r \in Rentals |-> Advance(rentalVer[r], "FLYING", "IN_PROGRESS")]
  <2>1. GoodWrite(s, f, assigned, rows, Overlay(flightVer[f], mem[s][f], assigned))
    BY <1>2, <1>4, InvParts, LockGood
  <2>2. Flush(s, f, assigned, rows)
    BY <1>4 DEF LockCapacity
  <2> HIDE DEF assigned, rows
  <2>3. QED
    BY <1>1, <2>1, <2>2, BoardWriteInv
<1>5. CASE mem[s][f].status = "AIRBORNE_LOCKED" /\ MarkLandingSuspected(s, f)
  <2> DEFINE assigned == SuspectedFlight(mem[s][f])
             rows == [r \in Rentals |-> Advance(rentalVer[r], "IN_PROGRESS", "RESOLVING")]
  <2>1. GoodWrite(s, f, assigned, rows, Overlay(flightVer[f], mem[s][f], assigned))
    BY <1>2, <1>5, InvParts, MarkGood
  <2>2. Flush(s, f, assigned, rows)
    BY <1>5 DEF MarkLandingSuspected
  <2> HIDE DEF assigned, rows
  <2>3. QED
    BY <1>1, <2>1, <2>2, BoardWriteInv
<1>6. CASE mem[s][f].status = "LANDING_SUSPECTED" /\ RollbackLandingSuspected(s, f)
  <2> DEFINE assigned == RolledBackFlight(mem[s][f])
             rows == [r \in Rentals |-> Advance(rentalVer[r], "RESOLVING", "IN_PROGRESS")]
  <2>1. GoodWrite(s, f, assigned, rows, Overlay(flightVer[f], mem[s][f], assigned))
    BY <1>2, <1>6, InvParts, RollbackGood
  <2>2. Flush(s, f, assigned, rows)
    BY <1>6 DEF RollbackLandingSuspected
  <2> HIDE DEF assigned, rows
  <2>3. QED
    BY <1>1, <2>1, <2>2, BoardWriteInv
<1>7. QED
  BY <1>3, <1>4, <1>5, <1>6 DEF BoardSample

(* Loading the open flight of a reported aircraft.                         *)
LEMMA BoardFoundInv ==
  ASSUME LifecycleInv, NEW s \in Sessions, BoardFound(s)
  PROVE  LifecycleInv'
<1>1. DataTypeOK /\ ControlTypeOK /\ DataInv /\ \A t \in Sessions : SessionInv(t)
  BY InvParts
<1>2. PICK x \in left[s], f \in Flights :
        /\ Visible(s, f).status \in OpenStatus /\ Origin[f] = at[s]
        /\ pc[s] = "board_states" /\ pc' = [pc EXCEPT ![s] = "board_sample"]
        /\ item' = [item EXCEPT ![s] = f] /\ mem' = [mem EXCEPT ![s][f] = Loaded(s, f)]
        /\ left' = [left EXCEPT ![s] = @ \ {x}] /\ UNCHANGED <<dbVars, due, at>>
  BY DEF BoardFound, OpenFlights, Goto
<1>3. pc[s] \in BoardPC /\ at[s] \in Airports /\ airportLock[at[s]] = s
  BY <1>1, <1>2 DEF SessionInv, BoardPC, ScanPC
<1>4. /\ Loaded(s, f) \in FlightRow /\ LoadedInv(s, f, Loaded(s, f))
      /\ BoardLoadedInv(s, f, Loaded(s, f)) /\ Loaded(s, f).status \in OpenStatus
  BY <1>1, <1>2, <1>3, LoadLemma
<1>5. \A g \in Flights : LoadedInv(s, g, mem[s][g]) /\ BoardLoadedInv(s, g, mem[s][g])
  BY <1>1, <1>3 DEF DataInv, MemInv
<1>6. DataTypeOK' /\ DataInv'
  <2>1. mem' \in [Sessions -> [Flights -> FlightRow]]
    BY <1>1, <1>2, <1>4 DEF DataTypeOK
  <2>2. \A t \in Sessions \ {s} : mem'[t] = mem[t] /\ pc'[t] = pc[t]
    BY <1>1, <1>2 DEF DataTypeOK, ControlTypeOK
  <2>3. \A g \in Flights : mem'[s][g] = IF g = f THEN Loaded(s, f) ELSE mem[s][g]
    BY <1>1, <1>2 DEF DataTypeOK
  <2>4. \A g \in Flights : LoadedInv(s, g, mem'[s][g]) /\ BoardLoadedInv(s, g, mem'[s][g])
    BY <1>4, <1>5, <2>3
  <2>5. QED
    BY <1>1, <1>2, <2>1, <2>2, <2>4, LocalLemma DEF dbVars, DataTypeOK
<1>7. ControlTypeOK'
  BY <1>1, <1>2 DEF ControlTypeOK, PC
<1>8. Frame(s)
  BY <1>1, <1>2 DEF Frame, ControlTypeOK, DataTypeOK, dbVars, SessionInv
<1>9. SessionInv(s)'
  BY <1>1, <1>2, <1>3, <1>4
     DEF SessionInv, ControlTypeOK, DataTypeOK, dbVars, WriterPC, BoardPC, ScanPC, RentPC
<1>10. QED
  BY <1>6, <1>7, <1>8, <1>9, StepLemma

(* Loading the open flights of the airport for the sweep.                  *)
LEMMA BoardSweepBeginInv ==
  ASSUME LifecycleInv, NEW s \in Sessions, BoardSweepBegin(s)
  PROVE  LifecycleInv'
<1> DEFINE open == {f \in Flights : Origin[f] = at[s] /\ Visible(s, f).status \in OpenStatus}
<1>1. DataTypeOK /\ ControlTypeOK /\ DataInv /\ \A t \in Sessions : SessionInv(t)
  BY InvParts
<1>2. /\ pc[s] = "board_states" /\ pc' = [pc EXCEPT ![s] = "board_sweep"]
      /\ left' = [left EXCEPT ![s] = open]
      /\ mem' = [mem EXCEPT ![s] = [f \in Flights |-> IF f \in open THEN Loaded(s, f) ELSE mem[s][f]]]
      /\ UNCHANGED <<dbVars, item, due, at>>
  BY DEF BoardSweepBegin, Goto
<1>3. pc[s] \in BoardPC /\ at[s] \in Airports /\ airportLock[at[s]] = s
  BY <1>1, <1>2 DEF SessionInv, BoardPC, ScanPC
<1>4. open \subseteq Flights /\ \A f \in open : Origin[f] = at[s] /\ Visible(s, f).status \in OpenStatus
  OBVIOUS
<1> HIDE DEF open
<1>5. \A f \in open :
        /\ Loaded(s, f) \in FlightRow /\ LoadedInv(s, f, Loaded(s, f))
        /\ BoardLoadedInv(s, f, Loaded(s, f)) /\ Loaded(s, f).status \in OpenStatus
  BY <1>1, <1>3, <1>4, LoadLemma
<1>6. \A g \in Flights : LoadedInv(s, g, mem[s][g]) /\ BoardLoadedInv(s, g, mem[s][g])
  BY <1>1, <1>3 DEF DataInv, MemInv
<1>7. \A g \in Flights : mem'[s][g] = IF g \in open THEN Loaded(s, g) ELSE mem[s][g]
  BY <1>1, <1>2 DEF DataTypeOK
<1>8. DataTypeOK' /\ DataInv'
  <2>1. mem' \in [Sessions -> [Flights -> FlightRow]]
    BY <1>1, <1>2, <1>5 DEF DataTypeOK
  <2>2. \A t \in Sessions \ {s} : mem'[t] = mem[t] /\ pc'[t] = pc[t]
    BY <1>1, <1>2 DEF DataTypeOK, ControlTypeOK
  <2>3. \A g \in Flights : LoadedInv(s, g, mem'[s][g]) /\ BoardLoadedInv(s, g, mem'[s][g])
    BY <1>5, <1>6, <1>7
  <2>4. QED
    BY <1>1, <1>2, <2>1, <2>2, <2>3, LocalLemma DEF dbVars, DataTypeOK
<1>9. ControlTypeOK'
  BY <1>1, <1>2, <1>4 DEF ControlTypeOK, PC
<1>10. Frame(s)
  BY <1>1, <1>2 DEF Frame, ControlTypeOK, DataTypeOK, dbVars, SessionInv
<1>11. SessionInv(s)'
  BY <1>1, <1>2, <1>3, <1>4, <1>5, <1>7
     DEF SessionInv, ControlTypeOK, dbVars, WriterPC, BoardPC, ScanPC, RentPC
<1>12. QED
  BY <1>8, <1>9, <1>10, <1>11, StepLemma

SweptOne(s, f) ==
  /\ pc[s] = "board_sweep" /\ f \in left[s]
  /\ left' = [left EXCEPT ![s] = @ \ {f}]
  /\ UNCHANGED <<pc, item, due, at>>

(* One flight of the sweep is done.                                        *)
LEMMA SweptInv ==
  ASSUME LifecycleInv, NEW s \in Sessions, NEW f \in Flights, SweptOne(s, f),
         DataTypeOK' /\ DataInv', Frame(s),
         airportLock' = airportLock, \A g \in Flights \ {f} : mem'[s][g] = mem[s][g]
  PROVE  LifecycleInv'
<1>1. DataTypeOK /\ ControlTypeOK /\ DataInv /\ SessionInv(s)
  BY InvParts
<1>2. ControlTypeOK'
  BY <1>1 DEF SweptOne, ControlTypeOK
<1>3. SessionInv(s)'
  BY <1>1 DEF SweptOne, SessionInv, ControlTypeOK, WriterPC, BoardPC, ScanPC, RentPC
<1>4. QED
  BY <1>2, <1>3, StepLemma

(* Resolving a flight in the sweep, or leaving it.                         *)
LEMMA BoardSweepInv ==
  ASSUME LifecycleInv, NEW s \in Sessions, BoardSweep(s)
  PROVE  LifecycleInv'
<1>1. DataTypeOK /\ ControlTypeOK /\ DataInv /\ \A t \in Sessions : SessionInv(t)
  BY InvParts
<1>2. PICK f \in left[s] :
        /\ SweptOne(s, f)
        /\ \/ \E st \in ResolvedStatus : ResolveTrackedFlight(s, f, st)
           \/ UNCHANGED <<dbVars, mem>>
  BY DEF BoardSweep, SweptOne, ResolvedStatus
<1>3. f \in Flights /\ mem[s][f].status \in OpenStatus /\ pc[s] \in BoardPC
  BY <1>1, <1>2 DEF SessionInv, SweptOne, BoardPC
<1>4. CASE UNCHANGED <<dbVars, mem>>
  <2>1. DataTypeOK' /\ DataInv'
    <3>1. pc' = [pc EXCEPT ![s] = "board_sweep"]
      BY <1>1, <1>2 DEF SweptOne, ControlTypeOK
    <3>2. QED
      BY <1>1, <1>3, <1>4, <3>1, MoveLemma DEF PC, BoardPC
  <2>2. Frame(s)
    BY <1>1, <1>2, <1>4 DEF SweptOne, Frame, ControlTypeOK, dbVars, SessionInv
  <2>3. QED
    BY <1>2, <1>3, <1>4, <2>1, <2>2, SweptInv DEF dbVars
<1>5. ASSUME NEW st \in ResolvedStatus, ResolveTrackedFlight(s, f, st)
      PROVE  LifecycleInv'
  <2> DEFINE assigned == ResolvedFlight(mem[s][f], st)
             rows == [r \in Rentals |-> Settle(rentalVer[r], ReasonOf(st))]
  <2>1. GoodWrite(s, f, assigned, rows, Overlay(flightVer[f], mem[s][f], assigned))
    BY <1>1, <1>3, ResolveGood
  <2>2. Flush(s, f, assigned, rows)
    BY <1>5 DEF ResolveTrackedFlight
  <2> HIDE DEF assigned, rows
  <2>3. DataTypeOK' /\ DataInv'
    BY <1>1, <1>2, <1>3, <2>1, <2>2, FlushLemma DEF SweptOne
  <2>4. /\ lock' = [lock EXCEPT ![f] = s] /\ mem' = [mem EXCEPT ![s][f] = assigned]
        /\ UNCHANGED <<flight, rental, airportLock>>
    BY <2>2 DEF Flush
  <2>5. Frame(s)
    BY <1>1, <1>2, <1>3, <2>4 DEF SweptOne, Frame, ControlTypeOK, DataTypeOK, SessionInv
  <2>6. \A g \in Flights \ {f} : mem'[s][g] = mem[s][g]
    BY <1>1, <2>4 DEF DataTypeOK
  <2>7. QED
    BY <1>2, <1>3, <2>3, <2>4, <2>5, <2>6, SweptInv
<1>6. QED
  BY <1>2, <1>4, <1>5

(* Listing the rentals to refresh only moves the session.                  *)
LEMMA CheckBeginInv ==
  ASSUME LifecycleInv, NEW s \in Sessions, CheckBegin(s)
  PROVE  LifecycleInv'
<1>1. DataTypeOK /\ ControlTypeOK /\ DataInv /\ \A t \in Sessions : SessionInv(t)
  BY InvParts
<1>2. PICK rest \in SUBSET {r \in Rentals : rental[r].status # Absent} :
        /\ pc[s] = "idle" /\ pc' = [pc EXCEPT ![s] = "check_rentals"]
        /\ left' = [left EXCEPT ![s] = rest]
        /\ UNCHANGED <<dbVars, mem, item, due, at>>
  BY DEF CheckBegin, Goto
<1>3. DataTypeOK' /\ DataInv'
  BY <1>1, <1>2, MoveLemma DEF PC, BoardPC
<1>4. ControlTypeOK'
  BY <1>1, <1>2 DEF ControlTypeOK, PC
<1>5. Frame(s)
  BY <1>1, <1>2 DEF Frame, ControlTypeOK, dbVars, SessionInv
<1>6. SessionInv(s)'
  BY <1>1, <1>2 DEF SessionInv, ControlTypeOK, dbVars, WriterPC, BoardPC, ScanPC, RentPC
<1>7. QED
  BY <1>3, <1>4, <1>5, <1>6, StepLemma

(* Loading the flight of a rental, to skip it or to ask adsb.fi about it.  *)
LEMMA CheckLoadInv ==
  ASSUME LifecycleInv, NEW s \in Sessions, CheckSkip(s) \/ CheckAsk(s)
  PROVE  LifecycleInv'
<1>1. DataTypeOK /\ ControlTypeOK /\ DataInv /\ \A t \in Sessions : SessionInv(t)
  BY InvParts
<1>2. PICK r \in left[s] :
        /\ pc[s] = "check_rentals"
        /\ mem' = [mem EXCEPT ![s][FlightOf[r]] = Loaded(s, FlightOf[r])]
        /\ left' = [left EXCEPT ![s] = @ \ {r}]
        /\ UNCHANGED <<dbVars, due, at>>
        /\ \/ UNCHANGED <<pc, item>>
           \/ /\ Loaded(s, FlightOf[r]).status \notin ResolvedStatus
              /\ pc' = [pc EXCEPT ![s] = "check_adsb"]
              /\ item' = [item EXCEPT ![s] = FlightOf[r]]
  BY DEF CheckSkip, CheckAsk, Goto
<1>3. r \in Rentals /\ rental[r].status # Absent
  BY <1>1, <1>2 DEF SessionInv
<1> DEFINE f == FlightOf[r]
<1>4. f \in Flights
  BY <1>3
<1> HIDE DEF f
<1>5. Loaded(s, f) \in FlightRow /\ LoadedInv(s, f, Loaded(s, f))
  BY <1>1, <1>4, LoadLemma
<1>6. Loaded(s, f).status # Absent
  <2>1. flight[f].status # Absent /\ flightVer[f].status # Absent
    BY <1>1, <1>3, <1>4 DEF DataInv, RentalInv, FlightInv, f
  <2>2. CASE mem[s][f] = NoFlight
    BY <2>1, <2>2 DEF Loaded, Visible
  <2>3. CASE mem[s][f] # NoFlight
    BY <1>1, <1>4, <2>3 DEF Loaded, DataInv, MemInv, LoadedInv
  <2>4. QED
    BY <2>2, <2>3
<1>7. \A g \in Flights : mem'[s][g] = IF g = f THEN Loaded(s, f) ELSE mem[s][g]
  BY <1>1, <1>2 DEF DataTypeOK, f
<1>8. pc'[s] \notin BoardPC /\ \A t \in Sessions \ {s} : mem'[t] = mem[t] /\ pc'[t] = pc[t]
  BY <1>1, <1>2 DEF DataTypeOK, ControlTypeOK, BoardPC
<1>9. DataTypeOK' /\ DataInv'
  <2>1. mem' \in [Sessions -> [Flights -> FlightRow]]
    BY <1>1, <1>2, <1>5 DEF DataTypeOK, f
  <2>2. \A g \in Flights : LoadedInv(s, g, mem'[s][g])
    BY <1>1, <1>5, <1>7 DEF DataInv, MemInv
  <2>3. QED
    BY <1>1, <1>2, <1>8, <2>1, <2>2, LocalLemma DEF dbVars, DataTypeOK
<1>10. ControlTypeOK'
  BY <1>1, <1>2, <1>4 DEF ControlTypeOK, PC, f
<1>11. Frame(s)
  BY <1>1, <1>2, <1>4 DEF Frame, ControlTypeOK, DataTypeOK, dbVars, SessionInv, f
<1>12. SessionInv(s)'
  <2>1. pc'[s] = "check_adsb" => item'[s] = f /\ mem'[s][f].status \in OpenStatus
    BY <1>1, <1>2, <1>4, <1>5, <1>6, <1>7
       DEF ControlTypeOK, FlightRow, OpenStatus, ResolvedStatus, f
  <2>2. QED
    BY <1>1, <1>2, <1>4, <2>1
       DEF SessionInv, ControlTypeOK, dbVars, WriterPC, BoardPC, ScanPC, RentPC
<1>13. QED
  BY <1>9, <1>10, <1>11, <1>12, StepLemma

Answered(s) ==
  /\ pc[s] = "check_adsb" /\ pc' = [pc EXCEPT ![s] = "check_rentals"]
  /\ item' = [item EXCEPT ![s] = None]
  /\ UNCHANGED <<due, at, left>>

(* The flight asked about is flushed.                                      *)
LEMMA AnsweredInv ==
  ASSUME LifecycleInv, NEW s \in Sessions, NEW assigned, NEW rows, Answered(s),
         GoodWrite(s, item[s], assigned, rows,
                   Overlay(flightVer[item[s]], mem[s][item[s]], assigned)),
         Flush(s, item[s], assigned, rows)
  PROVE  LifecycleInv'
<1> DEFINE f == item[s]
<1>1. DataTypeOK /\ ControlTypeOK /\ DataInv /\ \A t \in Sessions : SessionInv(t)
  BY InvParts
<1>2. f \in Flights
  BY <1>1 DEF Answered, SessionInv
<1>3. \A t \in Sessions : pc'[t] \in BoardPC => pc[t] \in BoardPC
  BY <1>1 DEF Answered, ControlTypeOK, BoardPC
<1>4. DataTypeOK' /\ DataInv'
  BY <1>1, <1>2, <1>3, FlushLemma
<1>5. ControlTypeOK'
  BY <1>1 DEF Answered, ControlTypeOK, PC
<1>6. /\ item'[s] \notin Rentals
      /\ \A t \in Sessions \ {s} : pc'[t] = pc[t] /\ item'[t] = item[t] /\ left'[t] = left[t]
  BY <1>1 DEF Answered, ControlTypeOK
<1>7. Frame(s) /\ UNCHANGED rental
  BY <1>1, <1>2, <1>6, FlushFrame DEF Answered
<1>8. SessionInv(s)'
  BY <1>1, <1>2, <1>7 DEF Answered, SessionInv, ControlTypeOK, WriterPC, BoardPC, ScanPC, RentPC
<1>9. QED
  BY <1>4, <1>5, <1>7, <1>8, StepLemma

(* The answer of adsb.fi resolves the flight or is only recorded.          *)
LEMMA CheckAnswerInv ==
  ASSUME LifecycleInv, NEW s \in Sessions, CheckAnswer(s)
  PROVE  LifecycleInv'
<1> DEFINE f == item[s]
<1>1. /\ Answered(s) /\ pc[s] = "check_adsb"
      /\ RecordSample(s, f) \/ \E st \in ResolvedStatus : ResolveTrackedFlight(s, f, st)
  BY DEF CheckAnswer, Goto, Answered, ResolvedStatus
<1>2. f \in Flights /\ mem[s][f].status \in OpenStatus
  BY <1>1, InvParts DEF SessionInv
<1>3. CASE RecordSample(s, f)
  <2>1. GoodWrite(s, f, mem[s][f], rentalVer, Overlay(flightVer[f], mem[s][f], mem[s][f]))
    BY <1>2, InvParts, SampleGood
  <2>2. Flush(s, f, mem[s][f], rentalVer)
    BY <1>3 DEF RecordSample
  <2>3. QED
    BY <1>1, <2>1, <2>2, AnsweredInv
<1>4. ASSUME NEW st \in ResolvedStatus, ResolveTrackedFlight(s, f, st)
      PROVE  LifecycleInv'
  <2> DEFINE assigned == ResolvedFlight(mem[s][f], st)
             rows == [r \in Rentals |-> Settle(rentalVer[r], ReasonOf(st))]
  <2>1. GoodWrite(s, f, assigned, rows, Overlay(flightVer[f], mem[s][f], assigned))
    BY <1>2, InvParts, ResolveGood
  <2>2. Flush(s, f, assigned, rows)
    BY <1>4 DEF ResolveTrackedFlight
  <2> HIDE DEF assigned, rows
  <2>3. QED
    BY <1>1, <2>1, <2>2, AnsweredInv
<1>5. QED
  BY <1>1, <1>3, <1>4

(* The open check of a new rental picks an id no other session uses.       *)
LEMMA RentBeginInv ==
  ASSUME LifecycleInv, NEW s \in Sessions, RentBegin(s)
  PROVE  LifecycleInv'
<1>1. DataTypeOK /\ ControlTypeOK /\ DataInv /\ \A t \in Sessions : SessionInv(t)
  BY InvParts
<1>2. PICK r \in Rentals :
        /\ pc[s] = "idle" /\ pc' = [pc EXCEPT ![s] = "rent_crew"]
        /\ rental[r].status = Absent /\ \A t \in Sessions : item[t] # r
        /\ flight[FlightOf[r]].status = "AIRBORNE_OPEN"
        /\ item' = [item EXCEPT ![s] = r]
        /\ UNCHANGED <<dbVars, mem, due, at, left>>
  BY DEF RentBegin, Goto, Rentable
<1>3. DataTypeOK' /\ DataInv'
  BY <1>1, <1>2, MoveLemma DEF PC, BoardPC
<1>4. ControlTypeOK'
  BY <1>1, <1>2 DEF ControlTypeOK, PC
<1>5. Frame(s)
  BY <1>1, <1>2 DEF Frame, ControlTypeOK, dbVars, SessionInv
<1>6. SessionInv(s)'
  BY <1>1, <1>2 DEF SessionInv, ControlTypeOK, dbVars, WriterPC, BoardPC, ScanPC, RentPC, Absent
<1>7. QED
  BY <1>3, <1>4, <1>5, <1>6, StepLemma

(* The crew check only reads.                                              *)
LEMMA RentCrewInv ==
  ASSUME LifecycleInv, NEW s \in Sessions, RentCrew(s)
  PROVE  LifecycleInv'
<1>1. DataTypeOK /\ ControlTypeOK /\ DataInv /\ \A t \in Sessions : SessionInv(t)
  BY InvParts
<1>2. /\ pc[s] = "rent_crew" /\ pc' = [pc EXCEPT ![s] = "rent_insert"]
      /\ UNCHANGED <<dbVars, mem, item, due, at, left>>
  BY DEF RentCrew, Goto
<1>3. DataTypeOK' /\ DataInv'
  BY <1>1, <1>2, MoveLemma DEF PC, BoardPC
<1>4. ControlTypeOK'
  BY <1>1, <1>2 DEF ControlTypeOK, PC
<1>5. Frame(s)
  BY <1>1, <1>2 DEF Frame, ControlTypeOK, dbVars, SessionInv, RentPC
<1>6. SessionInv(s)'
  BY <1>1, <1>2 DEF SessionInv, ControlTypeOK, dbVars, WriterPC, BoardPC, ScanPC, RentPC
<1>7. QED
  BY <1>3, <1>4, <1>5, <1>6, StepLemma

(* The check of a claim only reads.                                        *)
LEMMA ClaimBeginInv ==
  ASSUME LifecycleInv, NEW s \in Sessions, ClaimBegin(s)
  PROVE  LifecycleInv'
<1>1. DataTypeOK /\ ControlTypeOK /\ DataInv /\ \A t \in Sessions : SessionInv(t)
  BY InvParts
<1>2. PICK r \in Rentals :
        /\ pc[s] = "idle" /\ pc' = [pc EXCEPT ![s] = "claim_credit"]
        /\ rental[r].status = "RESOLVED" /\ item' = [item EXCEPT ![s] = r]
        /\ UNCHANGED <<dbVars, mem, due, at, left>>
  BY DEF ClaimBegin, Goto
<1>3. DataTypeOK' /\ DataInv'
  BY <1>1, <1>2, MoveLemma DEF PC, BoardPC
<1>4. ControlTypeOK'
  BY <1>1, <1>2 DEF ControlTypeOK, PC
<1>5. Frame(s)
  BY <1>1, <1>2 DEF Frame, ControlTypeOK, dbVars, SessionInv, RentPC, Absent
<1>6. SessionInv(s)'
  BY <1>1, <1>2
     DEF SessionInv, ControlTypeOK, dbVars, WriterPC, BoardPC, ScanPC, RentPC, SettledStatus
<1>7. QED
  BY <1>3, <1>4, <1>5, <1>6, StepLemma

(* A session that ends leaves its slot idle, without locks or objects.     *)
LEMMA EndLemma ==
  ASSUME DataTypeOK, ControlTypeOK, NEW s \in Sessions, EndSession(s)
  PROVE  /\ ControlTypeOK' /\ SessionInv(s)'
         /\ \A t \in Sessions \ {s} :
              /\ pc'[t] = pc[t] /\ mem'[t] = mem[t] /\ item'[t] = item[t]
              /\ at'[t] = at[t] /\ left'[t] = left[t]
              /\ \A f \in Flights : lock'[f] = t => lock[f] = t
              /\ \A a \in Airports : airportLock[a] = t => airportLock'[a] = t
         /\ item'[s] = None
<1>1. ControlTypeOK'
  BY DEF EndSession, ControlTypeOK, PC
<1>2. pc'[s] = "idle" /\ item'[s] = None /\ mem'[s] = [f \in Flights |-> NoFlight]
  BY DEF EndSession, ControlTypeOK, DataTypeOK
<1>3. \A f \in Flights : lock'[f] # s
  BY DEF EndSession, DataTypeOK
<1>4. SessionInv(s)'
  BY <1>2, <1>3 DEF SessionInv, WriterPC, BoardPC, ScanPC, RentPC
<1>5. QED
  BY <1>1, <1>2, <1>4 DEF EndSession, ControlTypeOK, DataTypeOK

(* A board or check session commits.                                       *)
LEMMA CommitInv ==
  ASSUME LifecycleInv, NEW s \in Sessions, BoardCommit(s) \/ CheckCommit(s)
  PROVE  LifecycleInv'
<1>1. DataTypeOK /\ ControlTypeOK /\ DataInv /\ \A t \in Sessions : SessionInv(t)
  BY InvParts
<1>2. Commit(s) /\ pc[s] \notin RentPC
  BY DEF BoardCommit, CheckCommit, RentPC
<1>3. DataTypeOK' /\ DataInv'
  BY <1>1, <1>2, CommitLemma DEF ControlTypeOK
<1>4. EndSession(s)
  BY <1>2 DEF Commit
<1>5. \A f \in Flights : flight[f].status # Absent => flight'[f].status # Absent
  BY <1>1, <1>2 DEF Commit, DataInv, FlightInv
<1>6. \A r \in Rentals :
        /\ rental[r].status # Absent => rental'[r].status # Absent
        /\ rental[r].status \in SettledStatus => rental'[r].status \in SettledStatus
        /\ rental[r].status = Absent => rental'[r].status = Absent
  BY <1>1, <1>2 DEF Commit, DataInv, RentalInv, DataTypeOK, RentalRow, BusyStatus, SettledStatus, Absent
<1>7. Frame(s)
  BY <1>1, <1>4, <1>5, <1>6, EndLemma DEF Frame, SessionInv
<1>8. QED
  BY <1>1, <1>3, <1>4, <1>7, EndLemma, StepLemma

(* Any session rolls back.                                                 *)
LEMMA RollbackInv ==
  ASSUME LifecycleInv, NEW s \in Sessions, Rollback(s)
  PROVE  LifecycleInv'
<1>1. DataTypeOK /\ ControlTypeOK /\ DataInv /\ \A t \in Sessions : SessionInv(t)
  BY InvParts
<1>2. DataTypeOK' /\ DataInv'
  BY <1>1, RollbackLemma DEF ControlTypeOK
<1>3. EndSession(s) /\ UNCHANGED <<flight, rental>>
  BY DEF Rollback
<1>4. Frame(s)
  BY <1>1, <1>3, EndLemma DEF Frame, SessionInv
<1>5. QED
  BY <1>1, <1>2, <1>3, <1>4, EndLemma, StepLemma

(* A new rental is inserted as FLYING, whatever has become of its flight   *)
(* since the open check.                                                   *)
LEMMA RentCommitInv ==
  ASSUME LifecycleInv, NEW s \in Sessions, RentCommit(s)
  PROVE  LifecycleInv'
<1> DEFINE q == item[s]
<1>1. DataTypeOK /\ ControlTypeOK /\ DataInv /\ \A t \in Sessions : SessionInv(t)
  BY InvParts
<1>2. /\ pc[s] = "rent_insert" /\ EndSession(s)
      /\ rental' = [rental EXCEPT ![q] = CreatedRental]
      /\ rentalVer' = [rentalVer EXCEPT ![q] = CreatedRental]
      /\ UNCHANGED <<flight, flightVer, settlements>>
  BY DEF RentCommit
<1>3. /\ q \in Rentals /\ rental[q].status = Absent /\ flight[FlightOf[q]].status # Absent
      /\ pc[s] \in RentPC /\ pc[s] \notin WriterPC
  BY <1>1, <1>2 DEF SessionInv, RentPC, WriterPC, BoardPC
<1> HIDE DEF q
<1>4. /\ settlements' = [settlements EXCEPT ![q] = settlements[q]] /\ settlements[q] \in Nat
      /\ settlements[q] > 0 <=> CreatedRental.status = "CLAIMED"
  BY <1>1, <1>2, <1>3 DEF DataTypeOK, DataInv, RentalInv, CreatedRental, Absent
<1>5. CreatedRental \in RentalRow /\ CreatedRental.status \notin {Absent, "IN_PROGRESS", "RESOLVING"}
  BY RowTypes DEF CreatedRental, Absent
<1>6. DataTypeOK' /\ DataInv'
  BY <1>1, <1>2, <1>3, <1>4, <1>5, OneRentalLemma DEF ControlTypeOK
<1>7. \A r \in Rentals :
        /\ rental[r].status # Absent => rental'[r].status # Absent
        /\ rental[r].status \in SettledStatus => rental'[r].status \in SettledStatus
        /\ rental[r].status = Absent => rental'[r].status = Absent \/ r = q
  BY <1>1, <1>2, <1>3, <1>5 DEF DataTypeOK, SettledStatus, Absent
<1>8. Frame(s)
  BY <1>1, <1>2, <1>3, <1>7, EndLemma DEF Frame, SessionInv, q
<1>9. QED
  BY <1>1, <1>2, <1>6, <1>8, EndLemma, StepLemma

(* A claimed rental was settled when it was checked and is still settled.  *)
LEMMA ClaimCommitInv ==
  ASSUME LifecycleInv, NEW s \in Sessions, ClaimCommit(s)
  PROVE  LifecycleInv'
<1> DEFINE q == item[s]
           row == ClaimedRental(rental[q])
<1>1. DataTypeOK /\ ControlTypeOK /\ DataInv /\ \A t \in Sessions : SessionInv(t)
  BY InvParts
<1>2. pc[s] = "claim_credit" /\ pc[s] \notin WriterPC
  BY DEF ClaimCommit, WriterPC, BoardPC
<1>3. q \in Rentals /\ rental[q].status \in SettledStatus
  BY <1>1, <1>2 DEF SessionInv
<1>4. rentalVer[q] = rental[q] /\ flight[FlightOf[q]].status # Absent
  BY <1>1, <1>3 DEF DataInv, RentalInv, BusyStatus, SettledStatus, Absent
<1>5. /\ EndSession(s)
      /\ rental' = [rental EXCEPT ![q] = row] /\ rentalVer' = [rentalVer EXCEPT ![q] = row]
      /\ settlements' = [settlements EXCEPT ![q] = settlements[q] + 1]
      /\ UNCHANGED <<flight, flightVer>>
  BY <1>1, <1>3, <1>4 DEF ClaimCommit, DataTypeOK
<1>6. row \in RentalRow /\ row.status = "CLAIMED"
  <2>1. rental[q] \in RentalRow /\ rental[q].status \in SettledStatus
    BY <1>1, <1>3 DEF DataTypeOK
  <2>2. row \in RentalRow
    BY <2>1, RentalRowTypes
  <2>3. row.status = "CLAIMED"
    BY <2>1 DEF ClaimedRental, RentalRow
  <2>4. QED
    BY <2>2, <2>3
<1>7. settlements[q] + 1 \in Nat /\ settlements[q] + 1 > 0
  BY <1>1, <1>3 DEF DataTypeOK
<1> HIDE DEF q, row
<1>8. row.status \notin {Absent, "IN_PROGRESS", "RESOLVING"}
  BY <1>6 DEF Absent
<1>9. DataTypeOK' /\ DataInv'
  BY <1>1, <1>2, <1>3, <1>4, <1>5, <1>6, <1>7, <1>8, OneRentalLemma DEF ControlTypeOK
<1>10. \A r \in Rentals :
         /\ rental[r].status # Absent => rental'[r].status # Absent
         /\ rental[r].status \in SettledStatus => rental'[r].status \in SettledStatus
         /\ rental[r].status = Absent => rental'[r].status = Absent
  BY <1>1, <1>3, <1>5, <1>6 DEF DataTypeOK, SettledStatus, Absent
<1>11. Frame(s)
  BY <1>1, <1>2, <1>5, <1>10, EndLemma DEF Frame, SessionInv
<1>12. QED
  BY <1>1, <1>5, <1>9, <1>11, EndLemma, StepLemma

(* LifecycleInv is inductive.                                              *)
LEMMA NextInv ==
  ASSUME LifecycleInv, [Next]_vars
  PROVE  LifecycleInv'
<1>1. CASE UNCHANGED vars
  <2>1. DataTypeOK' /\ ControlTypeOK'
    BY <1>1, InvParts DEF vars, dbVars, sessionVars, DataTypeOK, ControlTypeOK
  <2>2. \A f \in Flights : FlightInv(f)'
    BY <1>1, InvParts DEF vars, dbVars, DataInv, FlightInv
  <2>3. \A r \in Rentals : RentalInv(r)'
    BY <1>1, InvParts DEF vars, dbVars, DataInv, RentalInv
  <2>4. IndexInv'
    BY <1>1, InvParts DEF vars, dbVars, DataInv, IndexInv, OpenAnywhere
  <2>5. \A s \in Sessions, f \in Flights : MemInv(s, f)'
    BY <1>1, InvParts
       DEF vars, dbVars, sessionVars, DataInv, MemInv, LoadedInv, BoardLoadedInv
  <2>6. \A s \in Sessions : SessionInv(s)'
    BY <1>1, InvParts DEF vars, dbVars, sessionVars, SessionInv
  <2>7. QED
    BY <2>1, <2>2, <2>3, <2>4, <2>5, <2>6
       DEF LifecycleInv, TypeOK, DataTypeOK, ControlTypeOK
<1>2. ASSUME NEW s \in Sessions, Board(s) PROVE LifecycleInv'
  BY <1>2, BoardBeginInv, BoardAirportInv, BoardTakeoffInv, BoardCreateInv, BoardFoundInv,
     BoardSampleInv, BoardSweepBeginInv, BoardSweepInv, BoardSweepEndInv, CommitInv DEF Board
<1>3. ASSUME NEW s \in Sessions, Check(s) PROVE LifecycleInv'
  BY <1>3, CheckBeginInv, CheckLoadInv, CheckAnswerInv, CommitInv DEF Check
<1>4. ASSUME NEW s \in Sessions, Rent(s) PROVE LifecycleInv'
  BY <1>4, RentBeginInv, RentCrewInv, RentCommitInv DEF Rent
<1>5. ASSUME NEW s \in Sessions, Claim(s) PROVE LifecycleInv'
  BY <1>5, ClaimBeginInv, ClaimCommitInv DEF Claim
<1>6. QED
  BY <1>1, <1>2, <1>3, <1>4, <1>5, RollbackInv DEF Next

(* LifecycleInv holds of the empty database.                               *)
LEMMA InitInv == Init => LifecycleInv
<1> SUFFICES ASSUME Init PROVE LifecycleInv
  OBVIOUS
<1>1. TypeOK
  BY RowTypes DEF Init, TypeOK, PC
<1>2. \A f \in Flights : FlightInv(f)
  BY DEF Init, FlightInv, RowOK, NoFlight, Absent
<1>3. \A r \in Rentals : RentalInv(r)
  BY DEF Init, RentalInv, Tracks, NoRental, BusyStatus, Absent
<1>4. IndexInv
  BY DEF Init, IndexInv, OpenAnywhere, NoFlight, OpenStatus, Absent
<1>5. \A s \in Sessions, f \in Flights : MemInv(s, f)
  BY DEF Init, MemInv, LoadedInv, BoardPC
<1>6. \A s \in Sessions : SessionInv(s)
  BY DEF Init, SessionInv, WriterPC, BoardPC, ScanPC, RentPC
<1>7. QED
  BY <1>1, <1>2, <1>3, <1>4, <1>5, <1>6 DEF LifecycleInv

-------------------------------------------------------------------------------
(* LifecycleInv is an invariant: whatever the interleaving of the          *)
(* handlers, rows, their uncommitted versions and loaded objects stay      *)
(* consistent with each other.                                             *)
THEOREM LifecycleInvariant == Spec => []LifecycleInv
<1>1. Init => LifecycleInv
  BY InitInv
<1>2. LifecycleInv /\ [Next]_vars => LifecycleInv'
  BY NextInv
<1>3. QED
  BY <1>1, <1>2, PTL DEF Spec

(* Every variable of the model keeps its type.                             *)
THEOREM TypeCorrect == Spec => []TypeOK
<1>1. LifecycleInv => TypeOK
  BY DEF LifecycleInv
<1>2. QED
  BY <1>1, LifecycleInvariant, PTL

(* Committed rentals that are under way agree with their flights.          *)
THEOREM TracksFlight == Spec => []RentalTracksFlight
<1>1. LifecycleInv => RentalTracksFlight
  BY DEF LifecycleInv, RentalTracksFlight, RentalInv, Tracks
<1>2. QED
  BY <1>1, LifecycleInvariant, PTL

(* The columns of a flight never contradict its status.                    *)
THEOREM FlightColumnsAgree == Spec => []ColumnsAgree
<1>1. LifecycleInv => ColumnsAgree
  BY DEF LifecycleInv, ColumnsAgree, FlightInv, RowOK
<1>2. QED
  BY <1>1, LifecycleInvariant, PTL

(* No aircraft ever has two open flights.                                  *)
THEOREM OneOpenFlightPerAircraft == Spec => []OneOpenFlight
<1>1. LifecycleInv => OneOpenFlight
  BY DEF LifecycleInv, OneOpenFlight, IndexInv, OpenAnywhere
<1>2. QED
  BY <1>1, LifecycleInvariant, PTL

(* A reward is in the ledger exactly when its rental is CLAIMED.           *)
THEOREM ClaimedIsCredited == Spec => []CreditedIffClaimed
<1>1. LifecycleInv => CreditedIffClaimed
  BY DEF LifecycleInv, CreditedIffClaimed, RentalInv
<1>2. QED
  BY <1>1, LifecycleInvariant, PTL

(* How a step can change a committed row: a commit publishes the session's *)
(* version, RentCommit and ClaimCommit write one rental, any other step    *)
(* leaves the rows alone.                                                  *)
LEMMA PublishLemma ==
  ASSUME LifecycleInv, [Next]_vars
  PROVE  /\ \A f \in Flights : flight'[f] \in {flight[f], flightVer[f]}
         /\ \A r \in Rentals :
              \/ rental'[r] \in {rental[r], rentalVer[r]}
              \/ rental[r].status = Absent
              \/ rental[r].status \in SettledStatus /\ rental'[r] = ClaimedRental(rental[r])
<1>1. DataTypeOK /\ \A t \in Sessions : SessionInv(t)
  BY InvParts
<1>2. CASE UNCHANGED <<flight, rental>>
  BY <1>1, <1>2 DEF DataTypeOK
<1>3. ASSUME NEW s \in Sessions, Commit(s)
      PROVE  /\ \A f \in Flights : flight'[f] \in {flight[f], flightVer[f]}
             /\ \A r \in Rentals : rental'[r] \in {rental[r], rentalVer[r]}
  BY <1>3 DEF Commit
<1>4. ASSUME NEW s \in Sessions, RentCommit(s)
      PROVE  /\ UNCHANGED flight
             /\ \A r \in Rentals : rental'[r] = rental[r] \/ rental[r].status = Absent
  BY <1>1, <1>4 DEF RentCommit, DataTypeOK, SessionInv, RentPC
<1>5. ASSUME NEW s \in Sessions, ClaimCommit(s)
      PROVE  /\ UNCHANGED flight
             /\ \A r \in Rentals :
                  \/ rental'[r] = rental[r]
                  \/ rental[r].status \in SettledStatus /\ rental'[r] = ClaimedRental(rental[r])
  BY <1>1, <1>5 DEF ClaimCommit, DataTypeOK, SessionInv
<1>6. ASSUME NEW s \in Sessions, Board(s) PROVE UNCHANGED <<flight, rental>> \/ Commit(s)
  BY <1>6 DEF Board, BoardBegin, BoardAirport, BoardQueryFailed, BoardTakeoff, BoardCreate,
     BoardFound, BoardSample, BoardSweepBegin, BoardSweep, BoardSweepEnd, BoardCommit, dbVars,
     RecordSample, LockCapacity, MarkLandingSuspected, RollbackLandingSuspected,
     ResolveTrackedFlight, Flush
<1>7. ASSUME NEW s \in Sessions, Check(s) PROVE UNCHANGED <<flight, rental>> \/ Commit(s)
  BY <1>7 DEF Check, CheckBegin, CheckSkip, CheckAsk, CheckAnswer, CheckCommit, dbVars,
     RecordSample, ResolveTrackedFlight, Flush
<1>8. ASSUME NEW s \in Sessions, Rent(s) PROVE UNCHANGED <<flight, rental>> \/ RentCommit(s)
  BY <1>8 DEF Rent, RentBegin, RentCrew, dbVars
<1>9. ASSUME NEW s \in Sessions, Claim(s) PROVE UNCHANGED <<flight, rental>> \/ ClaimCommit(s)
  BY <1>9 DEF Claim, ClaimBegin, dbVars
<1>10. ASSUME NEW s \in Sessions, Rollback(s) PROVE UNCHANGED <<flight, rental>>
  BY <1>10 DEF Rollback
<1>11. \/ UNCHANGED <<flight, rental>>
       \/ \E s \in Sessions : Commit(s) \/ RentCommit(s) \/ ClaimCommit(s)
  BY <1>6, <1>7, <1>8, <1>9, <1>10 DEF Next, vars, dbVars
<1>12. QED
  BY <1>1, <1>2, <1>3, <1>4, <1>5, <1>11 DEF DataTypeOK

(* A settled rental stays settled, with the reason it was settled for.     *)
THEOREM SettledRentalIsFinal == Spec => SettledIsFinal
<1>1. LifecycleInv /\ [Next]_vars => SettledStep
  <2> SUFFICES ASSUME LifecycleInv, [Next]_vars, NEW r \in Rentals,
                      rental[r].status \in SettledStatus
               PROVE  /\ rental'[r].status \in SettledStatus
                      /\ rental'[r].resolution_reason = rental[r].resolution_reason
    BY DEF SettledStep
  <2>1. rentalVer[r] = rental[r] /\ rental[r] \in RentalRow /\ rental[r].status # Absent
    BY DEF LifecycleInv, TypeOK, RentalInv, BusyStatus, SettledStatus, Absent
  <2>2. rental'[r] \in {rental[r], ClaimedRental(rental[r])}
    BY <2>1, PublishLemma
  <2>3. /\ ClaimedRental(rental[r]).status = "CLAIMED"
        /\ ClaimedRental(rental[r]).resolution_reason = rental[r].resolution_reason
    BY <2>1 DEF ClaimedRental, RentalRow
  <2>4. QED
    BY <2>2, <2>3 DEF SettledStatus
<1>2. QED
  BY <1>1, LifecycleInvariant, PTL DEF Spec, SettledIsFinal

(* A flight that has stopped being rentable is never rentable again.       *)
THEOREM RentalWindowStaysClosed == Spec => WindowStaysClosed
<1>1. LifecycleInv /\ [Next]_vars => WindowStep
  <2> SUFFICES ASSUME LifecycleInv, [Next]_vars, NEW f \in Flights,
                      flight[f].status # Absent, ~Rentable(flight[f])
               PROVE  ~Rentable(flight'[f])
    BY DEF WindowStep
  <2>1. FlightInv(f)
    BY DEF LifecycleInv
  <2>2. flight[f].status # "AIRBORNE_OPEN"
    BY <2>1 DEF FlightInv, RowOK, Rentable
  <2>3. flightVer[f].status # "AIRBORNE_OPEN"
    BY <2>1, <2>2 DEF FlightInv
  <2>4. flight'[f] \in {flight[f], flightVer[f]}
    BY PublishLemma
  <2>5. QED
    BY <2>2, <2>3, <2>4 DEF Rentable
<1>2. QED
  BY <1>1, LifecycleInvariant, PTL DEF Spec, WindowStaysClosed

-------------------------------------------------------------------------------
(* Requests in turn.  A step of session s that takes no rental back under  *)
(* way, credits nothing and decides on nothing.                            *)
DecidingPC == {"claim_credit", "rent_insert"}

Quiet ==
  /\ UNCHANGED settlements
  /\ \A r \in Rentals : rental[r].status \notin BusyStatus => rental'[r] = rental[r]
  /\ \A t \in Sessions : pc'[t] \in DecidingPC => pc'[t] = pc[t] /\ item'[t] = item[t]

(* Which steps are not.                                                    *)
LEMMA QuietSteps ==
  ASSUME LifecycleInv, Next
  PROVE  \/ Quiet
         \/ \E s \in Sessions : RentCrew(s) \/ RentCommit(s) \/ ClaimBegin(s) \/ ClaimCommit(s)
<1>1. TypeOK
  BY DEF LifecycleInv
<1>2. ASSUME NEW s \in Sessions, Commit(s) PROVE Quiet
  <2>1. \A r \in Rentals : rental[r].status \notin BusyStatus => rental'[r] = rental[r]
    BY <1>2 DEF Commit, LifecycleInv, RentalInv
  <2>2. \A t \in Sessions : pc'[t] \in DecidingPC => pc'[t] = pc[t] /\ item'[t] = item[t]
    BY <1>1, <1>2 DEF Commit, EndSession, TypeOK, DecidingPC
  <2>. QED
    BY <1>2, <2>1, <2>2 DEF Commit, Quiet
<1>3. ASSUME NEW s \in Sessions, UNCHANGED <<rental, settlements>>,
             NEW to \in PC \ DecidingPC, pc' = [pc EXCEPT ![s] = to],
             \A t \in Sessions \ {s} : item'[t] = item[t]
      PROVE  Quiet
  BY <1>1, <1>3 DEF Quiet, TypeOK
<1>4. PC \ DecidingPC = {"idle", "board_airport", "board_states", "board_create", "board_sample",
                         "board_sweep", "check_rentals", "check_adsb", "rent_crew"}
  BY DEF PC, DecidingPC
<1>5. ASSUME NEW s \in Sessions, Board(s) PROVE Quiet
  <2>1. CASE BoardCommit(s)
    BY <1>2, <2>1 DEF BoardCommit
  <2>2. CASE BoardBegin(s) \/ BoardAirport(s)
    BY <1>1, <1>3, <1>4, <2>2 DEF BoardBegin, BoardAirport, Goto, dbVars, TypeOK
  <2>7. CASE BoardTakeoff(s)
    BY <1>1, <1>3, <1>4, <2>7 DEF BoardTakeoff, Goto, dbVars, TypeOK
  <2>8. CASE BoardCreate(s)
    BY <1>1, <1>3, <1>4, <2>8 DEF BoardCreate, Goto, Flush, TypeOK
  <2>9. CASE BoardQueryFailed(s)
    BY <1>1, <2>9 DEF BoardQueryFailed, Quiet, TypeOK, DecidingPC
  <2>3. CASE BoardFound(s)
    BY <1>1, <1>3, <1>4, <2>3 DEF BoardFound, Goto, dbVars, TypeOK
  <2>6. CASE BoardSample(s)
    <3>1. UNCHANGED <<rental, settlements>>
      BY <2>6 DEF BoardSample, Flush, RecordSample, LockCapacity, MarkLandingSuspected,
         RollbackLandingSuspected
    <3>2. /\ pc' = [pc EXCEPT ![s] = "board_states"] /\ item' = [item EXCEPT ![s] = None]
          /\ "board_states" \in PC \ DecidingPC
      BY <1>4, <2>6 DEF BoardSample, Goto
    <3>. QED
      BY <1>1, <1>3, <3>1, <3>2 DEF TypeOK
  <2>4. CASE BoardSweepBegin(s) \/ BoardSweepEnd(s)
    BY <1>1, <1>3, <1>4, <2>4 DEF BoardSweepBegin, BoardSweepEnd, Goto, dbVars, TypeOK
  <2>5. CASE BoardSweep(s)
    BY <1>1, <2>5 DEF BoardSweep, Flush, dbVars, TypeOK, ResolveTrackedFlight, Quiet
  <2>. QED
    BY <1>5, <2>1, <2>2, <2>3, <2>4, <2>5, <2>6, <2>7, <2>8, <2>9 DEF Board
<1>6. ASSUME NEW s \in Sessions, Check(s) PROVE Quiet
  <2>1. CASE CheckCommit(s)
    BY <1>2, <2>1 DEF CheckCommit
  <2>2. CASE CheckBegin(s) \/ CheckAsk(s) \/ CheckAnswer(s)
    BY <1>1, <1>3, <1>4, <2>2 DEF CheckBegin, CheckAsk, CheckAnswer, Goto, Flush,
       RecordSample, ResolveTrackedFlight, dbVars, TypeOK
  <2>3. CASE CheckSkip(s)
    BY <1>1, <2>3 DEF CheckSkip, dbVars, Quiet
  <2>. QED
    BY <1>6, <2>1, <2>2, <2>3 DEF Check
<1>7. ASSUME NEW s \in Sessions, RentBegin(s) PROVE Quiet
  BY <1>1, <1>3, <1>4, <1>7 DEF RentBegin, Goto, dbVars, TypeOK
<1>8. ASSUME NEW s \in Sessions, Rollback(s) PROVE Quiet
  BY <1>1, <1>3, <1>4, <1>8 DEF Rollback, EndSession, TypeOK
<1>. QED
  BY <1>5, <1>6, <1>7, <1>8 DEF Next, Rent, Claim


(* Rows are inserted one by one, so a user's rentals can be counted.       *)
FiniteInv == IsFiniteSet({r \in Rentals : rental[r].status # Absent})

LEMMA BusyFinite ==
  ASSUME FiniteInv, NEW c \in Users \X Airports
  PROVE  /\ IsFiniteSet(BusyRentals(c[1], c[2]))
         /\ Cardinality(BusyRentals(c[1], c[2])) \in Nat
<1>1. BusyRentals(c[1], c[2]) \in SUBSET {r \in Rentals : rental[r].status # Absent}
  BY DEF BusyRentals, BusyStatus, Absent
<1>2. IsFiniteSet(BusyRentals(c[1], c[2]))
  BY <1>1, FS_Subset DEF FiniteInv
<1>. QED
  BY <1>2, FS_CardinalityType

LEMMA FiniteStep ==
  ASSUME LifecycleInv, FiniteInv, Next
  PROVE  FiniteInv'
<1> DEFINE Rows == {r \in Rentals : rental[r].status # Absent}
<1>1. IsFiniteSet(Rows)
  BY DEF FiniteInv
<1>2. CASE Rows' \subseteq Rows
  BY <1>1, <1>2, FS_Subset DEF FiniteInv
<1>3. CASE \E s \in Sessions : RentCommit(s)
  <2>1. PICK s \in Sessions : RentCommit(s)
    BY <1>3
  <2>2. Rows' \subseteq Rows \cup {item[s]}
    BY <2>1 DEF RentCommit, LifecycleInv, TypeOK
  <2>3. IsFiniteSet(Rows \cup {item[s]})
    BY <1>1, FS_AddElement
  <2>. QED
    BY <2>2, <2>3, FS_Subset DEF FiniteInv
<1>4. CASE Quiet \/ \E s \in Sessions : RentCrew(s) \/ ClaimBegin(s)
  BY <1>2, <1>4 DEF Quiet, RentCrew, ClaimBegin, dbVars, BusyStatus, Absent
<1>5. CASE \E s \in Sessions : ClaimCommit(s)
  <2>1. PICK s \in Sessions : ClaimCommit(s)
    BY <1>5
  <2>2. rental[item[s]].status # Absent
    BY <2>1 DEF ClaimCommit, LifecycleInv, SessionInv, SettledStatus, Absent
  <2>3. Rows' \subseteq Rows
    BY <2>1, <2>2 DEF ClaimCommit, LifecycleInv, TypeOK
  <2>. QED
    BY <1>2, <2>3
<1>. QED
  BY <1>3, <1>4, <1>5, QuietSteps

(* What has not overlapped by the end of a step had not before, and nobody *)
(* else decides on it.                                                     *)
LEMMA AloneStep ==
  ASSUME Record
  PROVE  /\ AloneInv'
         /\ \A c : c \notin overlapped' => c \notin overlapped
BY DEF Record, AloneInv, Contested

LEMMA ClaimsStep ==
  ASSUME LifecycleInv, AloneInv, ClaimsInv, Next, Record
  PROVE  ClaimsInv'
<1>1. TypeOK
  BY DEF LifecycleInv
<1> SUFFICES ASSUME NEW r \in Rentals, r \notin overlapped'
             PROVE  /\ settlements'[r] <= 1
                    /\ \A t \in Sessions : pc'[t] = "claim_credit" /\ item'[t] = r =>
                         settlements'[r] = 0
  BY DEF ClaimsInv
<1>2. /\ r \notin overlapped
      /\ settlements[r] <= 1
      /\ \A t \in Sessions : pc[t] = "claim_credit" /\ item[t] = r => settlements[r] = 0
  BY AloneStep DEF ClaimsInv
<1>3. CASE Quiet
  BY <1>2, <1>3 DEF Quiet, DecidingPC
<1>4. ASSUME NEW s \in Sessions, RentCrew(s) \/ RentCommit(s)
      PROVE  /\ UNCHANGED settlements
             /\ \A t \in Sessions : pc'[t] = "claim_credit" => pc[t] = pc'[t] /\ item[t] = item'[t]
  BY <1>1, <1>4 DEF RentCrew, RentCommit, EndSession, Goto, dbVars, TypeOK
<1>5. ASSUME NEW s \in Sessions, ClaimBegin(s)
      PROVE  /\ UNCHANGED settlements
             /\ \A t \in Sessions : pc'[t] = "claim_credit" /\ item'[t] = r => settlements[r] = 0
  <2>1. PICK q \in Rentals : /\ rental[q].status = "RESOLVED"
                             /\ item' = [item EXCEPT ![s] = q] /\ UNCHANGED settlements
                             /\ pc' = [pc EXCEPT ![s] = "claim_credit"]
    BY <1>5 DEF ClaimBegin, Goto, dbVars
  <2>2. RentalInv(q) /\ settlements[q] \in Nat
    BY <1>1 DEF LifecycleInv, TypeOK
  <2>3. ~(settlements[q] > 0)
    BY <2>1, <2>2 DEF RentalInv
  <2>4. settlements[q] = 0
    BY <2>2, <2>3
  <2>. QED
    BY <1>1, <1>2, <2>1, <2>4 DEF TypeOK
<1>6. ASSUME NEW s \in Sessions, ClaimCommit(s)
      PROVE  /\ settlements'[r] <= 1
             /\ \A t \in Sessions : pc'[t] = "claim_credit" /\ item'[t] = r => settlements'[r] = 0
  <2>1. /\ pc[s] = "claim_credit" /\ item[s] \in Rentals
        /\ settlements' = [settlements EXCEPT ![item[s]] = @ + 1]
        /\ pc' = [pc EXCEPT ![s] = "idle"] /\ item' = [item EXCEPT ![s] = None]
    BY <1>6 DEF ClaimCommit, EndSession, LifecycleInv, SessionInv
  <2>2. ASSUME NEW t \in Sessions, pc'[t] = "claim_credit", item'[t] = r
        PROVE  t # s /\ pc[t] = "claim_credit" /\ item[t] = r
    BY <1>1, <2>1, <2>2 DEF TypeOK
  <2>3. CASE item[s] = r
    <3>1. settlements'[r] = 1
      BY <1>1, <1>2, <2>1, <2>3 DEF TypeOK
    <3>2. ASSUME NEW t \in Sessions, pc'[t] = "claim_credit", item'[t] = r
          PROVE  FALSE
      BY <1>2, <2>1, <2>2, <2>3, <3>2 DEF AloneInv, Deciding
    <3>. QED
      BY <3>1, <3>2
  <2>4. CASE item[s] # r
    BY <1>1, <1>2, <2>1, <2>2, <2>4 DEF TypeOK
  <2>. QED
    BY <2>3, <2>4
<1>. QED
  BY <1>2, <1>3, <1>4, <1>5, <1>6, QuietSteps

LEMMA CrewStep ==
  ASSUME LifecycleInv, FiniteInv, AloneInv, CrewInv, Next, Record
  PROVE  CrewInv'
<1>1. TypeOK
  BY DEF LifecycleInv
<1> SUFFICES ASSUME NEW c \in Users \X Airports, c \notin overlapped'
             PROVE  /\ Cardinality(BusyRentals(c[1], c[2])') <= CrewCount[c]
                    /\ \A t \in Sessions : pc'[t] = "rent_insert" /\ CrewAtOrigin(item'[t]) = c =>
                         Cardinality(BusyRentals(c[1], c[2])') < CrewCount[c]
  BY DEF CrewInv, CrewAtOrigin
<1>2. PICK B : B = BusyRentals(c[1], c[2])
  OBVIOUS
<1>3. PICK C : C = BusyRentals(c[1], c[2])'
  OBVIOUS
<1>4. /\ c \notin overlapped
      /\ Cardinality(B) <= CrewCount[c]
      /\ \A t \in Sessions : pc[t] = "rent_insert" /\ CrewAtOrigin(item[t]) = c =>
           Cardinality(B) < CrewCount[c]
  BY <1>2, AloneStep DEF CrewInv
<1>5. IsFiniteSet(B) /\ Cardinality(B) \in Nat /\ CrewCount[c] \in Nat
  BY <1>2, BusyFinite
<1>6. ASSUME C \subseteq B
      PROVE  Cardinality(C) <= Cardinality(B) /\ Cardinality(C) \in Nat
  BY <1>5, <1>6, FS_Subset, FS_CardinalityType
<1>7. CASE Quiet
  <2>1. C \subseteq B
    BY <1>2, <1>3, <1>7 DEF Quiet, BusyRentals
  <2>2. \A t \in Sessions : pc'[t] = "rent_insert" => pc[t] = "rent_insert" /\ item'[t] = item[t]
    BY <1>7 DEF Quiet, DecidingPC
  <2>. QED
    BY <1>3, <1>4, <1>5, <1>6, <2>1, <2>2
<1>8. ASSUME NEW s \in Sessions, ClaimBegin(s) \/ ClaimCommit(s)
      PROVE  /\ Cardinality(C) <= CrewCount[c]
             /\ \A t \in Sessions : pc'[t] = "rent_insert" /\ CrewAtOrigin(item'[t]) = c =>
                  Cardinality(C) < CrewCount[c]
  <2>1. \A r \in Rentals : rental'[r].status \in BusyStatus => rental[r].status \in BusyStatus
    <3>1. CASE ClaimBegin(s)
      BY <3>1 DEF ClaimBegin, dbVars
    <3>2. CASE ClaimCommit(s)
      <4>1. \A row \in RentalRow : ClaimedRental(row).status = "CLAIMED"
        BY DEF ClaimedRental, RentalRow
      <4>. QED
        BY <1>1, <3>2, <4>1 DEF ClaimCommit, BusyStatus, TypeOK
    <3>. QED
      BY <1>8, <3>1, <3>2
  <2>3. C \subseteq B
    BY <1>2, <1>3, <2>1 DEF BusyRentals
  <2>2. \A t \in Sessions : pc'[t] = "rent_insert" => pc[t] = "rent_insert" /\ item'[t] = item[t]
    BY <1>1, <1>8 DEF ClaimBegin, ClaimCommit, EndSession, Goto, TypeOK
  <2>. QED
    BY <1>4, <1>5, <1>6, <2>2, <2>3
<1>9. ASSUME NEW s \in Sessions, RentCrew(s)
      PROVE  /\ Cardinality(C) <= CrewCount[c]
             /\ \A t \in Sessions : pc'[t] = "rent_insert" /\ CrewAtOrigin(item'[t]) = c =>
                  Cardinality(C) < CrewCount[c]
  <2>1. C = B /\ item' = item /\ pc' = [pc EXCEPT ![s] = "rent_insert"]
    BY <1>2, <1>3, <1>9 DEF RentCrew, Goto, BusyRentals, dbVars
  <2>2. CrewAtOrigin(item[s]) = c => Cardinality(B) < CrewCount[c]
    BY <1>2, <1>9 DEF RentCrew
  <2>. QED
    BY <1>1, <1>4, <2>1, <2>2 DEF TypeOK
<1>10. ASSUME NEW s \in Sessions, RentCommit(s)
       PROVE  /\ Cardinality(C) <= CrewCount[c]
              /\ \A t \in Sessions : pc'[t] = "rent_insert" /\ CrewAtOrigin(item'[t]) = c =>
                   Cardinality(C) < CrewCount[c]
  <2>1. /\ pc[s] = "rent_insert" /\ item[s] \in Rentals
        /\ rental' = [rental EXCEPT ![item[s]] = CreatedRental]
        /\ pc' = [pc EXCEPT ![s] = "idle"] /\ item' = [item EXCEPT ![s] = None]
    BY <1>10 DEF RentCommit, EndSession, LifecycleInv, SessionInv, RentPC
  <2>2. ASSUME NEW t \in Sessions, pc'[t] = "rent_insert"
        PROVE  t # s /\ pc[t] = "rent_insert" /\ item'[t] = item[t]
    BY <1>1, <2>1, <2>2 DEF TypeOK
  <2>3. CASE CrewAtOrigin(item[s]) = c
    <3>1. C \subseteq B \cup {item[s]}
      BY <1>1, <1>2, <1>3, <2>1 DEF BusyRentals, TypeOK
    <3>2. /\ IsFiniteSet(B \cup {item[s]})
          /\ Cardinality(B \cup {item[s]}) \in {Cardinality(B), Cardinality(B) + 1}
      BY <1>5, FS_AddElement
    <3>3. Cardinality(C) <= Cardinality(B \cup {item[s]})
      BY <3>1, <3>2, FS_Subset
    <3>4. Cardinality(C) \in Nat /\ Cardinality(B \cup {item[s]}) \in Nat
      BY <3>1, <3>2, FS_Subset, FS_CardinalityType
    <3>5. Cardinality(B) < CrewCount[c]
      BY <1>4, <2>1, <2>3
    <3>6. Cardinality(C) <= CrewCount[c]
      BY <1>5, <3>2, <3>3, <3>4, <3>5
    <3>7. ASSUME NEW t \in Sessions, pc'[t] = "rent_insert", CrewAtOrigin(item'[t]) = c
          PROVE  FALSE
      <4>1. c \in Deciding(s) \cap Deciding(t) /\ t # s
        BY <2>1, <2>2, <2>3, <3>7 DEF Deciding
      <4>. QED
        BY <1>4, <4>1 DEF AloneInv
    <3>. QED
      BY <3>6, <3>7
  <2>4. CASE CrewAtOrigin(item[s]) # c
    <3>1. c = <<c[1], c[2]>>
      OBVIOUS
    <3>2. C \subseteq B
      BY <1>1, <1>2, <1>3, <2>1, <2>4, <3>1 DEF BusyRentals, CrewAtOrigin, TypeOK
    <3>. QED
      BY <1>4, <1>5, <1>6, <2>2, <3>2
  <2>. QED
    BY <2>3, <2>4
<1>. QED
  BY <1>3, <1>7, <1>8, <1>9, <1>10, QuietSteps

(* The checks of the two requests hold for what has not overlapped.        *)
LEMMA InTurnInvariant == HistorySpec => [](LifecycleInv /\ FiniteInv /\ InTurnInv)
<1> DEFINE I == LifecycleInv /\ FiniteInv /\ InTurnInv
<1>1. HistoryInit => I
  <2> SUFFICES ASSUME Init, overlapped = {} PROVE I
    BY DEF HistoryInit
  <2>1. LifecycleInv
    BY InitInv
  <2>2. {r \in Rentals : rental[r].status # Absent} = {}
    BY DEF Init, NoRental
  <2>3. FiniteInv
    BY <2>2, FS_EmptySet DEF FiniteInv
  <2>4. \A c \in Users \X Airports : BusyRentals(c[1], c[2]) = {} /\ CrewCount[c] \in Nat
    BY DEF Init, BusyRentals, NoRental, BusyStatus, Absent
  <2>5. \A s \in Sessions : pc[s] = "idle" /\ Deciding(s) = {}
    BY DEF Init, Deciding
  <2>6. AloneInv
    BY <2>5 DEF AloneInv
  <2>7. ClaimsInv
    BY <2>5 DEF Init, ClaimsInv
  <2>8. CrewInv
    <3>1. ASSUME NEW c \in Users \X Airports
          PROVE  Cardinality(BusyRentals(c[1], c[2])) <= CrewCount[c]
      <4>1. BusyRentals(c[1], c[2]) = {} /\ CrewCount[c] \in Nat
        BY <2>4
      <4>2. Cardinality(BusyRentals(c[1], c[2])) = 0
        BY <4>1, FS_EmptySet
      <4>. QED
        BY <4>1, <4>2
    <3>. QED
      BY <2>5, <3>1 DEF CrewInv
  <2>. QED
    BY <2>1, <2>3, <2>6, <2>7, <2>8 DEF InTurnInv
<1>2. I /\ [Next /\ Record]_<<vars, overlapped>> => I'
  <2>1. ASSUME I, Next, Record PROVE I'
    BY <2>1, NextInv, FiniteStep, AloneStep, ClaimsStep, CrewStep DEF InTurnInv
  <2>2. ASSUME I, UNCHANGED <<vars, overlapped>> PROVE I'
    <3>1. LifecycleInv'
      BY <2>2, NextInv DEF vars
    <3>2. FiniteInv'
      BY <2>2 DEF FiniteInv, vars, dbVars
    <3>3. AloneInv'
      BY <2>2 DEF InTurnInv, AloneInv, Deciding, vars, sessionVars
    <3>4. ClaimsInv'
      BY <2>2 DEF InTurnInv, ClaimsInv, vars, dbVars, sessionVars
    <3>5. CrewInv'
      BY <2>2 DEF InTurnInv, CrewInv, BusyRentals, vars, dbVars, sessionVars
    <3>. QED
      BY <3>1, <3>2, <3>3, <3>4, <3>5 DEF InTurnInv
  <2>. QED
    BY <2>1, <2>2
<1>. QED
  BY <1>1, <1>2, PTL DEF HistorySpec

(* A history variable constrains nothing, so all theorems about Spec are   *)
(* about HistorySpec as well.                                              *)
LEMMA HistoryIsSpec == HistorySpec => Spec
<1>1. [Next /\ Record]_<<vars, overlapped>> => [Next]_vars
  OBVIOUS
<1>. QED
  BY <1>1, PTL DEF HistorySpec, HistoryInit, Spec

(* A reward is credited once, but for claims that overlap.                 *)
THEOREM CreditedOnceWithoutOverlap == HistorySpec => []CreditedOnceInTurn
<1>1. InTurnInv => CreditedOnceInTurn
  BY DEF InTurnInv, ClaimsInv, CreditedOnceInTurn
<1>. QED
  BY <1>1, InTurnInvariant, PTL

(* Crew suffices for the rentals under way, but for requests that overlap. *)
THEOREM BusyWithinCrewWithoutOverlap == HistorySpec => []BusyWithinCrewInTurn
<1>1. InTurnInv => BusyWithinCrewInTurn
  BY DEF InTurnInv, CrewInv, BusyWithinCrewInTurn
<1>. QED
  BY <1>1, InTurnInvariant, PTL
===============================================================================
