------------------------ MODULE RentalRefinementProofs ------------------------
(***************************************************************************)
(* Proof that FlightLifecycle implements RentalContract, for any flights,  *)
(* rentals and sessions.  Beyond LifecycleInv it needs to know what a      *)
(* transaction that has settled rentals will commit with them.             *)
(***************************************************************************)
EXTENDS RentalRefinement, FlightLifecycleProofs

(* A rental that a running transaction has settled has the reason of the   *)
(* outcome the transaction gives its flight, and the transaction knows the *)
(* flight to be over, so that it leaves both alone; and no transaction     *)
(* takes a rental back to FLYING.                                          *)
Together(r) ==
  LET f == FlightOf[r] IN
  rental[r].status \in BusyStatus =>
    /\ rentalVer[r].status = "FLYING" => rental[r].status = "FLYING"
    /\ rentalVer[r].status = "RESOLVED" =>
         /\ flightVer[f].status \in ResolvedStatus
         /\ rentalVer[r].resolution_reason = ReasonOf(flightVer[f].status)
         /\ lock[f] \in Sessions /\ mem[lock[f]][f].status \in ResolvedStatus

TogetherInv == \A r \in Rentals : Together(r)

-------------------------------------------------------------------------------
(* The kinds of steps, by what they do to rows and loaded objects.         *)

(* Flights may be loaded, nothing else changes.                            *)
LoadStep ==
  /\ UNCHANGED <<flight, flightVer, lock, rental, rentalVer, settlements>>
  /\ \A t \in Sessions, f \in Flights : mem'[t][f] = mem[t][f] \/ mem[t][f] = NoFlight

(* The flight that is flushed is not over as it was loaded.                *)
FlushStep(s, f) ==
  /\ mem[s][f].status \notin ResolvedStatus
  /\ \/ \E assigned \in FlightRow, rows \in [Rentals -> RentalRow] :
          /\ Flush(s, f, assigned, rows)
          /\ \A r \in Rentals :
               /\ rows[r].status = "RESOLVED" => rentalVer[r].status = "RESOLVED"
               /\ rows[r].status = "FLYING" => rentalVer[r].status = "FLYING"
     \/ \E status \in ResolvedStatus : ResolveTrackedFlight(s, f, status)

LEMMA RowsOfFlush ==
  ASSUME LifecycleInv, NEW s \in Sessions, NEW f \in Flights,
         mem[s][f].status \notin ResolvedStatus,
         \/ RecordSample(s, f) \/ LockCapacity(s, f)
         \/ MarkLandingSuspected(s, f) \/ RollbackLandingSuspected(s, f)
         \/ Flush(s, f, CreatedFlight, rentalVer)
  PROVE  FlushStep(s, f)
<1>1. mem[s][f] \in FlightRow /\ rentalVer \in [Rentals -> RentalRow]
  BY DEF LifecycleInv, TypeOK
<1>2. ASSUME NEW from \in {"FLYING", "IN_PROGRESS", "RESOLVING"},
             NEW to \in {"IN_PROGRESS", "RESOLVING"}, NEW assigned \in FlightRow,
             Flush(s, f, assigned, [r \in Rentals |-> Advance(rentalVer[r], from, to)])
      PROVE  FlushStep(s, f)
  <2>1. PICK rows : rows = [r \in Rentals |-> Advance(rentalVer[r], from, to)]
    OBVIOUS
  <2>2. ASSUME NEW r \in Rentals
        PROVE  /\ rows[r] \in RentalRow
               /\ rows[r].status = "RESOLVED" => rentalVer[r].status = "RESOLVED"
               /\ rows[r].status = "FLYING" => rentalVer[r].status = "FLYING"
    <3>1. rentalVer[r] \in RentalRow /\ rows[r] = Advance(rentalVer[r], from, to)
      BY <1>1, <2>1
    <3>. QED
      BY <3>1 DEF Advance, RentalRow, BusyStatus, SettledStatus, Absent
  <2>3. rows \in [Rentals -> RentalRow]
    BY <2>1, <2>2
  <2>. QED
    BY <1>2, <2>1, <2>2, <2>3 DEF FlushStep
<1>3. CASE RecordSample(s, f)
  BY <1>1, <1>3 DEF RecordSample, FlushStep
<1>4. CASE Flush(s, f, CreatedFlight, rentalVer)
  BY <1>1, <1>4, RowTypes DEF FlushStep
<1>5. CASE LockCapacity(s, f)
  BY <1>1, <1>2, <1>5, RowTypes DEF LockCapacity
<1>6. CASE MarkLandingSuspected(s, f)
  BY <1>1, <1>2, <1>6, RowTypes DEF MarkLandingSuspected
<1>7. CASE RollbackLandingSuspected(s, f)
  BY <1>1, <1>2, <1>7, RowTypes DEF RollbackLandingSuspected
<1>. QED
  BY <1>3, <1>4, <1>5, <1>6, <1>7

LEMMA OpenNotResolved == \A st \in OpenStatus \cup {Absent} : st \notin ResolvedStatus
BY DEF OpenStatus, ResolvedStatus, Absent

LEMMA BoardKinds ==
  ASSUME LifecycleInv, NEW s \in Sessions, Board(s)
  PROVE  LoadStep \/ Commit(s) \/ \E f \in Flights : FlushStep(s, f)
<1>1. TypeOK /\ SessionInv(s)
  BY DEF LifecycleInv
<1>2. CASE BoardBegin(s) \/ BoardAirport(s) \/ BoardQueryFailed(s) \/ BoardTakeoff(s) \/ BoardSweepEnd(s)
  BY <1>2 DEF BoardBegin, BoardAirport, BoardQueryFailed, BoardTakeoff, BoardSweepEnd, LoadStep, dbVars
<1>3. CASE BoardCreate(s)
  <2>1. PICK f \in Flights : f = item[s]
    BY <1>1, <1>3 DEF BoardCreate, Goto, SessionInv
  <2>2. flightVer[f] = NoFlight /\ Flush(s, f, CreatedFlight, rentalVer)
    BY <1>3, <2>1 DEF BoardCreate
  <2>3. MemInv(s, f)
    BY DEF LifecycleInv
  <2>4. mem[s][f].status \notin ResolvedStatus
    BY <2>2, <2>3 DEF MemInv, LoadedInv, NoFlight, ResolvedStatus, Absent
  <2>. QED
    BY <2>2, <2>4, RowsOfFlush
<1>4. CASE BoardFound(s)
  <2>1. PICK f \in Flights : mem' = [mem EXCEPT ![s][f] = Loaded(s, f)]
    BY <1>4 DEF BoardFound, OpenFlights
  <2>. QED
    BY <1>1, <1>4, <2>1 DEF BoardFound, LoadStep, Loaded, dbVars, TypeOK
<1>5. CASE BoardSample(s)
  <2>1. PICK f \in Flights : f = item[s] /\ mem[s][f].status \in OpenStatus
    BY <1>1, <1>5 DEF BoardSample, Goto, SessionInv
  <2>2. \/ RecordSample(s, f) \/ LockCapacity(s, f)
        \/ MarkLandingSuspected(s, f) \/ RollbackLandingSuspected(s, f)
    BY <1>5, <2>1 DEF BoardSample
  <2>. QED
    BY <2>1, <2>2, OpenNotResolved, RowsOfFlush
<1>6. CASE BoardSweepBegin(s)
  <2>1. PICK open : mem' = [mem EXCEPT ![s] =
                     [f \in Flights |-> IF f \in open THEN Loaded(s, f) ELSE mem[s][f]]]
    BY <1>6 DEF BoardSweepBegin
  <2>. QED
    BY <1>1, <1>6, <2>1 DEF BoardSweepBegin, LoadStep, Loaded, dbVars, TypeOK
<1>7. CASE BoardSweep(s)
  <2>1. PICK f \in left[s] :
          /\ pc[s] = "board_sweep"
          /\ \/ \E st \in ResolvedStatus : ResolveTrackedFlight(s, f, st)
             \/ UNCHANGED <<dbVars, mem>>
    BY <1>7 DEF BoardSweep, ResolvedStatus
  <2>2. f \in Flights /\ mem[s][f].status \in OpenStatus
    BY <1>1, <2>1 DEF SessionInv
  <2>3. CASE UNCHANGED <<dbVars, mem>>
    BY <2>3 DEF LoadStep, dbVars
  <2>. QED
    BY <2>1, <2>2, <2>3, OpenNotResolved DEF FlushStep
<1>. QED
  BY <1>2, <1>3, <1>4, <1>5, <1>6, <1>7 DEF Board, BoardCommit

LEMMA CheckKinds ==
  ASSUME LifecycleInv, NEW s \in Sessions, Check(s)
  PROVE  LoadStep \/ Commit(s) \/ \E f \in Flights : FlushStep(s, f)
<1>1. TypeOK /\ SessionInv(s)
  BY DEF LifecycleInv
<1>2. CASE CheckBegin(s)
  BY <1>2 DEF CheckBegin, LoadStep, dbVars
<1>3. CASE CheckSkip(s) \/ CheckAsk(s)
  <2>1. PICK r \in left[s] : mem' = [mem EXCEPT ![s][FlightOf[r]] = Loaded(s, FlightOf[r])]
    BY <1>3 DEF CheckSkip, CheckAsk
  <2>2. UNCHANGED dbVars /\ r \in Rentals
    BY <1>1, <1>3, <2>1 DEF CheckSkip, CheckAsk, Goto, SessionInv
  <2>. QED
    BY <1>1, <2>1, <2>2 DEF LoadStep, Loaded, dbVars, TypeOK
<1>4. CASE CheckAnswer(s)
  <2>1. PICK f \in Flights : f = item[s] /\ mem[s][f].status \in OpenStatus
    BY <1>1, <1>4 DEF CheckAnswer, Goto, SessionInv
  <2>2. RecordSample(s, f) \/ \E st \in ResolvedStatus : ResolveTrackedFlight(s, f, st)
    BY <1>4, <2>1 DEF CheckAnswer, ResolvedStatus
  <2>. QED
    BY <2>1, <2>2, OpenNotResolved, RowsOfFlush DEF FlushStep
<1>. QED
  BY <1>2, <1>3, <1>4 DEF Check, CheckCommit

LEMMA StepKinds ==
  ASSUME LifecycleInv, [Next]_vars
  PROVE  \/ LoadStep
         \/ \E s \in Sessions, f \in Flights : FlushStep(s, f)
         \/ \E s \in Sessions : Commit(s) \/ Rollback(s) \/ RentCommit(s) \/ ClaimCommit(s)
<1>1. CASE UNCHANGED vars
  BY <1>1 DEF vars, dbVars, sessionVars, LoadStep
<1>2. ASSUME NEW s \in Sessions, Rent(s) \/ Claim(s)
      PROVE  LoadStep \/ RentCommit(s) \/ ClaimCommit(s)
  BY <1>2 DEF Rent, Claim, RentBegin, RentCrew, ClaimBegin, LoadStep, dbVars
<1>. QED
  BY <1>1, <1>2, BoardKinds, CheckKinds DEF Next

-------------------------------------------------------------------------------
(* The strengthened invariant.                                             *)
LEMMA TogetherInit == Init => TogetherInv
<1>1. NoRental.status \notin BusyStatus
  BY DEF NoRental, BusyStatus, Absent
<1>. QED
  BY <1>1 DEF Init, TogetherInv, Together

LEMMA TogetherStep ==
  ASSUME LifecycleInv, TogetherInv, [Next]_vars
  PROVE  TogetherInv'
<1>0. TypeOK /\ DataTypeOK /\ \A r \in Rentals : RentalInv(r)
  BY InvParts DEF LifecycleInv
<1>. SUFFICES ASSUME NEW r \in Rentals, (rental[r].status \in BusyStatus)'
              PROVE  Together(r)'
  BY DEF TogetherInv, Together
<1>a. PICK f \in Flights : f = FlightOf[r]
  BY LifecycleAssumption
<1>b. Together(r) /\ RentalInv(r)
  BY <1>0 DEF TogetherInv
<1>1. CASE LoadStep
  <2>1. NoFlight.status \notin ResolvedStatus
    BY DEF NoFlight, ResolvedStatus, Absent
  <2>. QED
    BY <1>a, <1>b, <1>1, <2>1 DEF LoadStep, Together
<1>2. ASSUME NEW s \in Sessions, NEW g \in Flights, FlushStep(s, g)
      PROVE  Together(r)'
  <2>1. rental' = rental /\ rental[r].status \in BusyStatus
    BY <1>2 DEF FlushStep, Flush, ResolveTrackedFlight
  <2>2. PICK assigned, rows : Flush(s, g, assigned, rows)
    BY <1>2 DEF FlushStep, ResolveTrackedFlight
  <2>3. CASE g # f
    BY <1>0, <1>a, <1>b, <2>1, <2>2, <2>3 DEF Flush, Together, DataTypeOK
  <2>4. CASE g = f
    <3>1. rentalVer[r].status # "RESOLVED"
      <4>1. lock[f] \in {None, s} /\ mem[s][f].status \notin ResolvedStatus
        BY <1>2, <2>2, <2>4 DEF Flush, FlushStep
      <4>. QED
        BY <1>a, <1>b, <2>1, <4>1, LifecycleAssumption DEF Together
    <3>2. ASSUME NEW row \in [Rentals -> RentalRow], NEW obj \in FlightRow, Flush(s, f, obj, row),
                 row[r].status = "RESOLVED" => rentalVer[r].status = "RESOLVED",
                 row[r].status = "FLYING" => rentalVer[r].status = "FLYING"
          PROVE  Together(r)'
      <4>1. rentalVer'[r] = row[r]
        BY <1>a, <3>2 DEF Flush
      <4>. QED
        BY <1>b, <2>1, <3>1, <3>2, <4>1 DEF Together
    <3>3. ASSUME NEW st \in ResolvedStatus, ResolveTrackedFlight(s, f, st)
          PROVE  Together(r)'
      <4>1. PICK obj \in FlightRow : obj = ResolvedFlight(mem[s][f], st)
        BY <1>0, RowTypes DEF DataTypeOK
      <4>2. obj.status = st /\ mem[s][f].status # st
        BY <1>0, <1>2, <2>4, <4>1 DEF ResolvedFlight, FlightRow, DataTypeOK, FlushStep
      <4>3. PICK new \in FlightRow : new = Overlay(flightVer[f], mem[s][f], obj) /\ new.status = st
        BY <1>0, <4>2, OverlayLemma DEF DataTypeOK
      <4>4. rentalVer[r] \in RentalRow /\ rentalVer[r].status \in BusyStatus
        BY <1>0, <1>b, <2>1, <3>1 DEF RentalInv, DataTypeOK
      <4>5. /\ lock'[f] = s /\ flightVer'[f] = new /\ mem'[s][f] = obj
            /\ rentalVer'[r] = Settle(rentalVer[r], ReasonOf(st))
        BY <1>0, <1>a, <3>3, <4>1, <4>3 DEF ResolveTrackedFlight, Flush, DataTypeOK
      <4>6. rentalVer'[r].status = "RESOLVED" /\ rentalVer'[r].resolution_reason = ReasonOf(st)
        BY <4>4, <4>5 DEF Settle
      <4>. QED
        BY <1>a, <2>1, <4>2, <4>3, <4>5, <4>6 DEF Together
    <3>. QED
      BY <1>2, <2>4, <3>2, <3>3 DEF FlushStep
  <2>. QED
    BY <2>3, <2>4
<1>3. ASSUME NEW s \in Sessions, Commit(s) PROVE Together(r)'
  <2>1. CASE lock[f] = s
    <3>1. rental'[r] = rentalVer[r] /\ rentalVer'[r] = rentalVer[r]
      BY <1>a, <1>3, <2>1 DEF Commit, Holds
    <3>2. rentalVer'[r].status # "RESOLVED"
      BY <3>1 DEF BusyStatus
    <3>. QED
      BY <3>1, <3>2 DEF Together
  <2>2. CASE lock[f] # s
    BY <1>0, <1>a, <1>b, <1>3, <2>2 DEF Commit, Holds, EndSession, Together, DataTypeOK
  <2>. QED
    BY <2>1, <2>2
<1>4. ASSUME NEW s \in Sessions, Rollback(s) PROVE Together(r)'
  <2>1. CASE lock[f] = s
    <3>1. rental'[r] = rental[r] /\ rentalVer'[r] = rental[r]
      BY <1>a, <1>4, <2>1 DEF Rollback, Holds
    <3>2. rentalVer'[r].status # "RESOLVED"
      BY <3>1 DEF BusyStatus
    <3>. QED
      BY <3>1, <3>2 DEF Together
  <2>2. CASE lock[f] # s
    BY <1>0, <1>a, <1>b, <1>4, <2>2 DEF Rollback, Holds, EndSession, Together, DataTypeOK
  <2>. QED
    BY <2>1, <2>2
<1>5. ASSUME NEW s \in Sessions, RentCommit(s) \/ ClaimCommit(s) PROVE Together(r)'
  <2>1. SessionInv(s) /\ pc[s] \in {"rent_insert", "claim_credit"}
    BY <1>5 DEF LifecycleInv, RentCommit, ClaimCommit
  <2>2. lock[f] # s /\ item[s] \in Rentals
    BY <2>1 DEF SessionInv, WriterPC, BoardPC, RentPC
  <2>3. CASE item[s] # r
    BY <1>0, <1>a, <1>b, <1>5, <2>2, <2>3 DEF RentCommit, ClaimCommit, EndSession, Together, DataTypeOK
  <2>4. CASE item[s] = r /\ RentCommit(s)
    BY <1>0, <2>4 DEF RentCommit, Together, DataTypeOK, CreatedRental
  <2>5. CASE item[s] = r /\ ClaimCommit(s)
    <3>1. rental'[r] = ClaimedRental(rental[r]) /\ rental[r] \in RentalRow
      BY <1>0, <2>5 DEF ClaimCommit, DataTypeOK
    <3>. QED
      BY <3>1 DEF ClaimedRental, RentalRow, BusyStatus
  <2>. QED
    BY <1>5, <2>3, <2>4, <2>5
<1>. QED
  BY <1>1, <1>2, <1>3, <1>4, <1>5, StepKinds

(* Rows as RentalContract sees them.                                       *)
LEMMA Contracts ==
  ASSUME NEW row \in RentalRow
  PROVE  /\ ContractOf(row) \in RC!Contract
         /\ row.status = Absent => ContractOf(row) = "none"
         /\ row.status = "FLYING" => ContractOf(row) = "flying"
         /\ row.status = "IN_PROGRESS" => ContractOf(row) = "in_progress"
         /\ row.status = "RESOLVING" => ContractOf(row) = "resolving"
         /\ row.status \in SettledStatus =>
              ContractOf(row) = row.resolution_reason /\ row.resolution_reason \in Reason
BY DEF RentalRow, ContractOf, RC!Contract, RC!UnderWay, BusyStatus, SettledStatus, Absent, Reason

LEMMA Stages ==
  ASSUME NEW row \in FlightRow
  PROVE  /\ StageOf(row) \in RC!Stage
         /\ row.status = Absent <=> StageOf(row) = "unseen"
         /\ row.status = "AIRBORNE_OPEN" <=> StageOf(row) = "rentable"
BY DEF FlightRow, StageOf, RC!Stage, OpenStatus, ResolvedStatus, Absent, Reason

(* A rental that agrees with its flight fits its stage.                    *)
LEMMA TracksFits ==
  ASSUME NEW frow \in FlightRow, NEW rrow \in RentalRow, Tracks(frow, rrow)
  PROVE  RC!Fits(ContractOf(rrow), StageOf(frow))
BY DEF FlightRow, RentalRow, Tracks, RC!Fits, ContractOf, StageOf, BusyStatus, SettledStatus,
   OpenStatus, ResolvedStatus, Absent, Reason

LEMMA ReasonIsStage ==
  ASSUME NEW frow \in FlightRow, frow.status \in ResolvedStatus
  PROVE  StageOf(frow) = ReasonOf(frow.status) /\ StageOf(frow) \in Reason
BY DEF StageOf, ReasonOf, ResolvedStatus, Absent, Reason

(* The steps that commit a flight's row and those of its rentals.          *)
LEMMA CommitTravels ==
  ASSUME LifecycleInv, LifecycleInv', TogetherInv, [Next]_vars, NEW s \in Sessions, Commit(s)
  PROVE  RC!Travel
<1>0. TypeOK /\ TypeOK' /\ \A f \in Flights : FlightInv(f)
  BY DEF LifecycleInv
<1>1. UNCHANGED settlements
  BY DEF Commit
<1>2. /\ [f \in Flights |-> StageOf(flight[f])]' \in [Flights -> RC!Stage]
      /\ [r \in Rentals |-> ContractOf(rental[r])]' \in [Rentals -> RC!Contract]
  <2>1. /\ \A f \in Flights : StageOf(flight'[f]) \in RC!Stage
        /\ \A r \in Rentals : ContractOf(rental'[r]) \in RC!Contract
    BY <1>0, Stages, Contracts DEF TypeOK
  <2>. QED
    BY <2>1
<1>3. ASSUME NEW f \in Flights
      PROVE  RC!MayPass(StageOf(flight[f]), StageOf(flight'[f]))
  <2>1. /\ flight[f] \in FlightRow /\ flight'[f] \in FlightRow
        /\ flight'[f] \in {flight[f], flightVer[f]} /\ FlightInv(f)
    BY <1>0, PublishLemma DEF TypeOK
  <2>2. flight'[f].status = Absent => flight[f].status = Absent
    BY <2>1 DEF FlightInv
  <2>3. flight'[f].status = "AIRBORNE_OPEN" => flight[f].status \in {Absent, "AIRBORNE_OPEN"}
    BY <2>1 DEF FlightInv
  <2>. QED
    BY <2>1, <2>2, <2>3, Stages DEF RC!MayPass
<1>4. ASSUME NEW r \in Rentals
      PROVE  RC!MayFollow(ContractOf(rental[r]), ContractOf(rental'[r]), StageOf(flight'[FlightOf[r]]))
  <2>1. PICK f \in Flights : f = FlightOf[r]
    BY LifecycleAssumption
  <2>2. /\ flight'[f] \in FlightRow /\ rental[r] \in RentalRow /\ rental'[r] \in RentalRow
        /\ rentalVer[r] \in RentalRow
        /\ RentalInv(r) /\ RentalInv(r)' /\ Together(r)
    BY <1>0 DEF TypeOK, LifecycleInv, TogetherInv
  <2>3. RC!Fits(ContractOf(rental'[r]), StageOf(flight'[f]))
    BY <2>1, <2>2, TracksFits DEF RentalInv
  <2>4. CASE rental'[r] = rental[r]
    BY <2>1, <2>3, <2>4 DEF RC!MayFollow
  <2>5. CASE rental'[r] # rental[r]
    <3>1. lock[f] = s /\ rental'[r] = rentalVer[r] /\ flight'[f] = flightVer[f]
      BY <2>1, <2>5 DEF Commit, Holds
    <3>2. rental[r].status \in BusyStatus /\ rentalVer[r].status \in BusyStatus \cup {"RESOLVED"}
      BY <2>2, <2>5, <3>1 DEF RentalInv
    <3>3. ContractOf(rental[r]) \in RC!UnderWay
      BY <2>2, <3>2, Contracts DEF BusyStatus, RC!UnderWay
    <3>4. CASE rentalVer[r].status \in {"IN_PROGRESS", "RESOLVING"}
      <4>1. ContractOf(rental'[r]) \in {"in_progress", "resolving"}
        BY <2>2, <3>1, <3>4, Contracts
      <4>. QED
        BY <2>1, <2>3, <3>3, <4>1 DEF RC!MayFollow
    <3>5. CASE rentalVer[r].status = "FLYING"
      <4>1. rental[r].status = "FLYING"
        BY <2>2, <3>2, <3>5 DEF Together
      <4>2. ContractOf(rental'[r]) = ContractOf(rental[r])
        BY <2>2, <3>1, <3>5, <4>1, Contracts
      <4>. QED
        BY <2>1, <2>3, <4>2 DEF RC!MayFollow
    <3>6. CASE rentalVer[r].status = "RESOLVED"
      <4>1. /\ flightVer[f].status \in ResolvedStatus
            /\ rentalVer[r].resolution_reason = ReasonOf(flightVer[f].status)
        BY <2>1, <2>2, <3>2, <3>6 DEF Together
      <4>2. ContractOf(rental'[r]) = rentalVer[r].resolution_reason
        BY <2>2, <3>1, <3>6, Contracts DEF SettledStatus
      <4>3. StageOf(flight'[f]) = ReasonOf(flightVer[f].status) /\ StageOf(flight'[f]) \in Reason
        BY <2>2, <3>1, <4>1, ReasonIsStage
      <4>. QED
        BY <2>1, <2>3, <3>3, <4>1, <4>2, <4>3 DEF RC!MayFollow
    <3>. QED
      BY <3>2, <3>4, <3>5, <3>6 DEF BusyStatus
  <2>. QED
    BY <2>4, <2>5
<1>. QED
  BY <1>1, <1>2, <1>3, <1>4, LifecycleAssumption DEF RC!Travel

LEMMA RentPlaces ==
  ASSUME LifecycleInv, NEW s \in Sessions, RentCommit(s)
  PROVE  \E r \in Rentals : RC!Place(r)
<1>1. PICK r \in Rentals : /\ r = item[s] /\ rental[r].status = Absent
                           /\ flight[FlightOf[r]].status # Absent
  BY DEF LifecycleInv, SessionInv, RentCommit, RentPC
<1>2. /\ UNCHANGED <<flight, settlements>> /\ rental \in [Rentals -> RentalRow]
      /\ rental' = [rental EXCEPT ![r] = CreatedRental] /\ FlightOf[r] \in Flights
      /\ flight[FlightOf[r]] \in FlightRow
  BY <1>1, LifecycleAssumption DEF RentCommit, LifecycleInv, TypeOK
<1>3. ContractOf(rental[r]) = "none" /\ StageOf(flight[FlightOf[r]]) # "unseen"
  BY <1>1, <1>2, Stages, Contracts
<1>4. ContractOf(CreatedRental) = "flying"
  BY RowTypes, Contracts DEF CreatedRental
<1>. QED
  BY <1>2, <1>3, <1>4 DEF RC!Place

LEMMA ClaimPays ==
  ASSUME LifecycleInv, NEW s \in Sessions, ClaimCommit(s)
  PROVE  \E r \in Rentals : RC!Pay(r)
<1>1. PICK r \in Rentals : r = item[s] /\ rental[r].status \in SettledStatus
  BY DEF LifecycleInv, SessionInv, ClaimCommit
<1>2. /\ UNCHANGED flight
      /\ rental \in [Rentals -> RentalRow] /\ settlements \in [Rentals -> Nat]
      /\ rental' = [rental EXCEPT ![r] = ClaimedRental(rental[r])]
      /\ settlements' = [settlements EXCEPT ![r] = settlements[r] + 1]
  BY <1>1 DEF ClaimCommit, LifecycleInv, TypeOK
<1>3. ContractOf(rental[r]) \in Reason /\ ContractOf(ClaimedRental(rental[r])) = ContractOf(rental[r])
  <2>1. /\ rental[r] \in RentalRow /\ ClaimedRental(rental[r]) \in RentalRow
        /\ ClaimedRental(rental[r]).status \in SettledStatus
        /\ ClaimedRental(rental[r]).resolution_reason = rental[r].resolution_reason
    <3>1. rental[r] \in RentalRow /\ ClaimedRental(rental[r]) \in RentalRow
      BY <1>1, <1>2, RentalRowTypes
    <3>. QED
      BY <1>1, <3>1 DEF ClaimedRental, RentalRow, SettledStatus
  <2>. QED
    BY <1>1, <2>1, Contracts
<1>4. settlements'[r] > 0 /\ \A q \in Rentals : q # r => settlements'[q] = settlements[q]
  BY <1>2
<1>5. UNCHANGED [q \in Rentals |-> ContractOf(rental[q])]
  BY <1>2, <1>3
<1>6. [q \in Rentals |-> settlements'[q] > 0]
        = [[q \in Rentals |-> settlements[q] > 0] EXCEPT ![r] = TRUE]
  BY <1>4
<1>. QED
  BY <1>2, <1>3, <1>5, <1>6 DEF RC!Pay

LEMMA RefinementStep ==
  ASSUME LifecycleInv, LifecycleInv', TogetherInv, [Next]_vars
  PROVE  [RC!Next]_(RC!contractVars)
<1>1. CASE UNCHANGED <<flight, rental, settlements>>
  BY <1>1 DEF RC!contractVars
<1>2. CASE LoadStep
  BY <1>1, <1>2 DEF LoadStep
<1>3. ASSUME NEW s \in Sessions, NEW f \in Flights, FlushStep(s, f)
      PROVE  UNCHANGED <<flight, rental, settlements>>
  BY <1>3 DEF FlushStep, ResolveTrackedFlight, Flush
<1>4. ASSUME NEW s \in Sessions, Rollback(s)
      PROVE  UNCHANGED <<flight, rental, settlements>>
  BY <1>4 DEF Rollback
<1>5. ASSUME NEW s \in Sessions, Commit(s) \/ RentCommit(s) \/ ClaimCommit(s)
      PROVE  RC!Next
  BY <1>5, CommitTravels, RentPlaces, ClaimPays DEF RC!Next
<1>. QED
  BY <1>1, <1>2, <1>3, <1>4, <1>5, StepKinds

LEMMA RefinementInit == Init => RC!Init
<1>1. ContractOf(NoRental) = "none" /\ StageOf(NoFlight) = "unseen"
  BY RowTypes, Stages, Contracts DEF NoRental, NoFlight
<1>. SUFFICES ASSUME Init PROVE RC!Init
  OBVIOUS
<1>2. /\ \A f \in Flights : StageOf(flight[f]) = "unseen"
      /\ \A r \in Rentals : ContractOf(rental[r]) = "none" /\ (settlements[r] > 0) = FALSE
  BY <1>1 DEF Init
<1>3. /\ [f \in Flights |-> StageOf(flight[f])] = [f \in Flights |-> "unseen"]
      /\ [r \in Rentals |-> ContractOf(rental[r])] = [r \in Rentals |-> "none"]
      /\ [r \in Rentals |-> settlements[r] > 0] = [r \in Rentals |-> FALSE]
  BY <1>2
<1>. QED
  BY <1>3 DEF RC!Init

(* Whatever transactions overlap or fail, what is committed are steps of   *)
(* the contract.                                                           *)
THEOREM LifecycleKeepsContract == Spec => KeepsContract
<1>1. Init => LifecycleInv /\ TogetherInv
  BY InitInv, TogetherInit
<1>2. LifecycleInv /\ TogetherInv /\ [Next]_vars => LifecycleInv' /\ TogetherInv'
  BY NextInv, TogetherStep
<1>3. LifecycleInv /\ LifecycleInv' /\ TogetherInv /\ [Next]_vars => [RC!Next]_(RC!contractVars)
  BY RefinementStep
<1>. QED
  BY <1>1, <1>2, <1>3, RefinementInit, PTL DEF Spec, KeepsContract, RC!Spec
===============================================================================
