-------------------------- MODULE FlightTimersProofs --------------------------
(***************************************************************************)
(* Proofs about FlightTimers: the settlement of a flight rests on a        *)
(* duration it can have had, and lost flights were not heard of, for any   *)
(* number of sessions and any thresholds that the waits do not exceed.     *)
(***************************************************************************)
EXTENDS FlightTimers, TLAPS

(* A stamp is taken with the time a session has read, so it is at most     *)
(* MaxLatency older than what happened.                                    *)
GoodRow(r) ==
  /\ r \in Row
  /\ r.landing_suspected_at \in 0 .. SuspectedLimit \cup {Never}
  /\ r.status # Absent =>
       /\ r.last_seen_at <= r.first_seen_at + MaxLatency
       /\ r.landing_suspected_at <= r.first_seen_at + MaxLatency

GoodSettlement(d) ==
  /\ d \in Settlements \cup {Unsettled}
  /\ d.duration >= 0
  /\ d.reason = TIMEOUT_REASON => d.duration > MAX_FLIGHT_DURATION_CEILING
  /\ d.reason = LOST_SIGNAL_REASON => d.duration > LOST_SIGNAL_CEILING - MaxLatency

(* A check has loaded a flight that was there before it read the clock.    *)
CheckInv ==
  \A c \in Checks : pc[c] # "idle" =>
    /\ flight.status # Absent
    /\ now[c] <= flight.first_seen_at
    /\ loaded[c] <= flight.first_seen_at + MaxLatency

(* What the last stamps say, as committed and as loaded, of the last       *)
(* report received.                                                        *)
HeardInv ==
  settled = Unsettled =>
    /\ flight.status \notin ResolvedStatus
    /\ flight.status # Absent => flight.last_seen_at <= heard + MaxLatency
    /\ \A c \in Checks : pc[c] # "idle" =>
         heard <= now[c] \/ loaded[c] <= heard + MaxLatency

TimersInv == TypeOK /\ GoodRow(flight) /\ GoodSettlement(settled) /\ CheckInv /\ HeardInv
-------------------------------------------------------------------------------
(* The limits are numbers, in this order.                                  *)
LEMMA Limits ==
  /\ MaxLatency \in Nat /\ Old \in Nat /\ SuspectedLimit \in Nat
  /\ PolledLimit \in Nat /\ CheckedLimit \in Nat
  /\ MAX_FLIGHT_DURATION_CEILING \in Nat /\ LOST_SIGNAL_CEILING \in Nat
  /\ LANDING_GRACE_PERIOD \in Nat /\ CAPACITY_WINDOW \in Nat
  /\ MaxLatency <= LANDING_GRACE_PERIOD /\ MaxLatency <= LOST_SIGNAL_CEILING
  /\ LOST_SIGNAL_CEILING < Old /\ MaxLatency < Old
  /\ SuspectedLimit < Old /\ PolledLimit < Old /\ CheckedLimit < Old
  /\ MaxLatency <= SuspectedLimit /\ MaxLatency <= PolledLimit /\ MaxLatency <= CheckedLimit
  /\ SuspectedLimit = LANDING_GRACE_PERIOD + MaxLatency
  /\ Old = MAX_FLIGHT_DURATION_CEILING + MaxLatency + 1
<1>1. /\ MaxLatency \in Nat /\ MAX_FLIGHT_DURATION_CEILING \in Nat
      /\ LOST_SIGNAL_CEILING \in Nat /\ LANDING_GRACE_PERIOD \in Nat
      /\ CAPACITY_WINDOW \in Nat /\ AIRPORT_POLL_MIN_INTERVAL \in Nat
      /\ STATUS_CHECK_MIN_INTERVAL \in Nat
      /\ MaxLatency <= LANDING_GRACE_PERIOD /\ MaxLatency <= LOST_SIGNAL_CEILING
  BY TimersAssumption
<1>2. /\ LANDING_GRACE_PERIOD <= MAX_FLIGHT_DURATION_CEILING
      /\ LOST_SIGNAL_CEILING <= MAX_FLIGHT_DURATION_CEILING
      /\ AIRPORT_POLL_MIN_INTERVAL <= MAX_FLIGHT_DURATION_CEILING
      /\ STATUS_CHECK_MIN_INTERVAL <= MAX_FLIGHT_DURATION_CEILING
  BY TimersAssumption
<1>. QED
  BY <1>1, <1>2 DEF Old, SuspectedLimit, PolledLimit, CheckedLimit, Larger

LEMMA ReportTypes ==
  ASSUME NEW report \in Reports
  PROVE  report.takeoff \in BOOLEAN /\ report.landing \in BOOLEAN
<1>1. PICK s \in {StateVector(r) : r \in JsonRecords} :
        report = [on_ground |-> s.on_ground, takeoff |-> looks_like_recent_takeoff(s),
                  landing |-> looks_like_landing(s)]
  BY DEF Reports
<1>2. s.on_ground \in BOOLEAN
  BY DEF StateVector, JsonRecords
<1>. QED
  BY <1>1, <1>2 DEF looks_like_recent_takeoff, looks_like_landing

(* A reported row is stamped with the session's time, or left alone.       *)
LEMMA ReportedRow ==
  ASSUME NEW r, GoodRow(r), NEW n \in 0 .. MaxLatency, NEW report \in Reports
  PROVE  LET q == Reported(r, report, n) IN
         /\ GoodRow(q)
         /\ q.status \in OpenStatus => q.last_seen_at = n
         /\ r.status # Absent => q.first_seen_at = r.first_seen_at /\ q.status # Absent
         /\ q.status \in ResolvedStatus <=> r.status \in ResolvedStatus
<1>1. report.takeoff \in BOOLEAN /\ report.landing \in BOOLEAN
  BY ReportTypes
<1>2. r \in Row /\ n \in Age /\ n \in 0 .. SuspectedLimit
  BY Limits DEF GoodRow, Age
<1>3. CASE r.status = Absent /\ report.takeoff
  <2>1. Reported(r, report, n) = create_tracked_flight(n)
    BY <1>3 DEF Reported, Absent, OpenStatus, ResolvedStatus
  <2>. QED
    BY <1>2, <1>3, <2>1, Limits
    DEF GoodRow, Row, create_tracked_flight, Age, Never, OpenStatus, ResolvedStatus, Absent
<1>4. CASE r.status = Absent /\ ~report.takeoff
  <2>1. Reported(r, report, n) = r
    BY <1>4 DEF Reported, Absent, OpenStatus, ResolvedStatus
  <2>. QED
    BY <1>4, <2>1 DEF Absent, OpenStatus, ResolvedStatus
<1>5. CASE r.status \in ResolvedStatus
  <2>1. Reported(r, report, n) = r
    BY <1>5 DEF Reported, Absent, OpenStatus, ResolvedStatus
  <2>. QED
    BY <1>5, <2>1 DEF Absent, OpenStatus, ResolvedStatus
<1>6. CASE r.status \in OpenStatus
  <2>1. Reported(r, report, n) = Sampled(r, report, n)
    BY <1>6 DEF Reported, Absent, OpenStatus, ResolvedStatus
  <2>2. PICK status \in OpenStatus, at \in 0 .. SuspectedLimit \cup {Never} :
          /\ Sampled(r, report, n) =
               [status |-> status, first_seen_at |-> r.first_seen_at,
                last_seen_at |-> n, landing_suspected_at |-> at]
          /\ at = r.landing_suspected_at \/ at = n \/ at = Never
    BY <1>1, <1>2, <1>6 DEF Sampled, record_sample, Row, OpenStatus, GoodRow
  <2>3. /\ r.first_seen_at \in Age
        /\ r.landing_suspected_at <= r.first_seen_at + MaxLatency
    BY <1>2, <1>6 DEF GoodRow, Row, OpenStatus, Absent
  <2>4. at <= r.first_seen_at + MaxLatency /\ n <= r.first_seen_at + MaxLatency
        /\ at \in Age \cup {Never}
    BY <2>2, <2>3, <1>2, Limits DEF Never, Age
  <2>. QED
    BY <2>1, <2>2, <2>3, <2>4, <1>2, <1>6
    DEF GoodRow, Row, OpenStatus, ResolvedStatus, Absent
<1>. QED
  BY <1>2, <1>3, <1>4, <1>5, <1>6 DEF Row
-------------------------------------------------------------------------------
(* resolve_tracked_flight, whoever calls it: what it does to the row r it  *)
(* is given and to the settlement, if the duration fits the reason.        *)
LEMMA ResolveStep ==
  ASSUME NEW r, GoodRow(r), r.status # Absent, GoodSettlement(settled),
         NEW n \in 0 .. MaxLatency,
         NEW status \in ResolvedStatus, NEW reason \in ResolutionReason,
         Resolve(r, status, reason, n),
         n <= r.first_seen_at,
         reason = TIMEOUT_REASON => r.first_seen_at - n > MAX_FLIGHT_DURATION_CEILING,
         reason = LOST_SIGNAL_REASON =>
           r.first_seen_at - n > LOST_SIGNAL_CEILING - MaxLatency
  PROVE  /\ GoodRow(flight') /\ flight'.status \in ResolvedStatus
         /\ flight'.first_seen_at = r.first_seen_at
         /\ GoodSettlement(settled') /\ settled' # Unsettled
         /\ settled = Unsettled => settled'.reason = reason
<1>1. /\ flight' \in Row /\ flight'.status = status
      /\ flight'.first_seen_at = r.first_seen_at /\ flight'.last_seen_at = r.last_seen_at
      /\ flight'.landing_suspected_at = r.landing_suspected_at
  BY DEF Resolve, GoodRow, Row
<1>2. GoodRow(flight')
  BY <1>1 DEF GoodRow
<1>3. r.first_seen_at \in Age
  BY DEF GoodRow, Row
<1>4. CASE settled # Unsettled
  BY <1>1, <1>2, <1>4 DEF Resolve
<1>5. CASE settled = Unsettled
  <2>1. settled' = [reason |-> reason, duration |-> r.first_seen_at - n]
    BY <1>5 DEF Resolve, minutes_since
  <2>2. r.first_seen_at - n \in -MaxLatency .. Old
    BY <1>3, Limits DEF Age
  <2>3. GoodSettlement(settled') /\ settled' # Unsettled
    <3>1. settled'.reason = reason /\ settled'.duration = r.first_seen_at - n
      BY <2>1
    <3>2. settled' \in Settlements
      BY <2>1, <2>2 DEF Settlements
    <3>3. reason # "null"
      BY DEF ResolutionReason, LANDED_REASON, TIMEOUT_REASON, LOST_SIGNAL_REASON
    <3>. QED
      BY <3>1, <3>2, <3>3, <1>3, Limits DEF GoodSettlement, Unsettled, Age
  <2>. QED
    BY <1>1, <1>2, <2>1, <2>3
<1>. QED
  BY <1>4, <1>5

(* A sweep over the row r.                                                 *)
LEMMA SweepStep ==
  ASSUME NEW r, GoodRow(r), GoodSettlement(settled), NEW n \in 0 .. MaxLatency,
         Sweep(r, n),
         settled = Unsettled => r.status \notin ResolvedStatus
  PROVE  /\ GoodRow(flight') /\ GoodSettlement(settled')
         /\ flight'.first_seen_at = r.first_seen_at
         /\ flight'.status = Absent <=> r.status = Absent
         /\ settled' = Unsettled =>
              /\ settled = Unsettled /\ flight'.status \notin ResolvedStatus
              /\ flight'.last_seen_at = r.last_seen_at
         /\ settled = Unsettled /\ settled'.reason = LOST_SIGNAL_REASON =>
              r.status \in OpenStatus /\ r.last_seen_at - n > LOST_SIGNAL_CEILING
<1>1. CASE Keep(r)
  <2>1. settled.reason # LOST_SIGNAL_REASON \/ settled # Unsettled
    BY DEF Unsettled, LOST_SIGNAL_REASON
  <2>. QED
    BY <1>1, <2>1 DEF Keep
<1>2. ASSUME NEW status \in ResolvedStatus, NEW reason \in ResolutionReason,
             r.status \in OpenStatus, Resolve(r, status, reason, n),
             \/ reason = LANDED_REASON /\ Grace(r, n)
             \/ reason = TIMEOUT_REASON /\ duration_ceiling_breached(r, n)
             \/ reason = LOST_SIGNAL_REASON /\ lost_signal_ceiling_breached(r, n)
      PROVE  /\ GoodRow(flight') /\ flight'.status \in ResolvedStatus
             /\ flight'.first_seen_at = r.first_seen_at
             /\ GoodSettlement(settled') /\ settled' # Unsettled
             /\ settled = Unsettled => settled'.reason = reason
             /\ reason = LOST_SIGNAL_REASON => r.last_seen_at - n > LOST_SIGNAL_CEILING
  <2>1. /\ r.status # Absent
        /\ r.first_seen_at \in Age /\ r.last_seen_at \in Age
        /\ r.landing_suspected_at \in Age \cup {Never}
        /\ r.last_seen_at <= r.first_seen_at + MaxLatency
        /\ r.landing_suspected_at <= r.first_seen_at + MaxLatency
    BY <1>2 DEF GoodRow, Row, OpenStatus, Absent
  <2>2. /\ n <= r.first_seen_at
        /\ reason = TIMEOUT_REASON => r.first_seen_at - n > MAX_FLIGHT_DURATION_CEILING
        /\ reason = LOST_SIGNAL_REASON =>
             /\ r.first_seen_at - n > LOST_SIGNAL_CEILING - MaxLatency
             /\ r.last_seen_at - n > LOST_SIGNAL_CEILING
    <3>1. CASE reason = LANDED_REASON /\ Grace(r, n)
      <4>1. r.landing_suspected_at - n >= LANDING_GRACE_PERIOD /\ r.landing_suspected_at \in Age
        BY <2>1, <3>1 DEF Grace, landing_grace_period_elapsed, minutes_since
      <4>. QED
        BY <2>1, <3>1, <4>1, Limits
        DEF Age, LANDED_REASON, TIMEOUT_REASON, LOST_SIGNAL_REASON
    <3>2. CASE reason = TIMEOUT_REASON /\ duration_ceiling_breached(r, n)
      BY <2>1, <3>2, Limits
      DEF Age, duration_ceiling_breached, minutes_since, TIMEOUT_REASON, LOST_SIGNAL_REASON
    <3>3. CASE reason = LOST_SIGNAL_REASON /\ lost_signal_ceiling_breached(r, n)
      BY <2>1, <3>3, Limits
      DEF Age, lost_signal_ceiling_breached, minutes_since, TIMEOUT_REASON, LOST_SIGNAL_REASON
    <3>. QED
      BY <1>2, <3>1, <3>2, <3>3
  <2>. QED
    BY <1>2, <2>1, <2>2, ResolveStep
<1>3. ASSUME r.status \in OpenStatus, ~Keep(r)
      PROVE  \E status \in ResolvedStatus, reason \in ResolutionReason :
               /\ Resolve(r, status, reason, n)
               /\ \/ reason = LANDED_REASON /\ Grace(r, n)
                  \/ reason = TIMEOUT_REASON /\ duration_ceiling_breached(r, n)
                  \/ reason = LOST_SIGNAL_REASON /\ lost_signal_ceiling_breached(r, n)
  <2>1. /\ {"RESOLVED_LANDED", "RESOLVED_TIMEOUT", "RESOLVED_LOST_SIGNAL"} \subseteq ResolvedStatus
        /\ {LANDED_REASON, TIMEOUT_REASON, LOST_SIGNAL_REASON} \subseteq ResolutionReason
    BY DEF ResolvedStatus, ResolutionReason
  <2>. QED
    BY <1>3, <2>1 DEF Sweep
<1>4. r.status \in OpenStatus \/ Keep(r)
  BY DEF Sweep
<1>. QED
  <2>1. CASE ~Keep(r)
    <3>1. PICK status \in ResolvedStatus, reason \in ResolutionReason :
            /\ Resolve(r, status, reason, n)
            /\ \/ reason = LANDED_REASON /\ Grace(r, n)
               \/ reason = TIMEOUT_REASON /\ duration_ceiling_breached(r, n)
               \/ reason = LOST_SIGNAL_REASON /\ lost_signal_ceiling_breached(r, n)
      BY <1>3, <1>4, <2>1
    <3>2. /\ GoodRow(flight') /\ flight'.status \in ResolvedStatus
          /\ flight'.first_seen_at = r.first_seen_at
          /\ GoodSettlement(settled') /\ settled' # Unsettled
          /\ settled = Unsettled => settled'.reason = reason
          /\ reason = LOST_SIGNAL_REASON => r.last_seen_at - n > LOST_SIGNAL_CEILING
      BY <1>2, <1>4, <2>1, <3>1
    <3>. QED
      BY <1>4, <2>1, <3>2 DEF OpenStatus, ResolvedStatus, Absent
  <2>. QED
    BY <1>1, <2>1
-------------------------------------------------------------------------------
(* The part of the type invariant that is not about the flight.            *)
SessionTypeOK ==
  /\ polled \in Age \cup {Never} /\ checked \in Age \cup {Never}
  /\ heard \in Age /\ airborne \in 0 .. LANDING_GRACE_PERIOD
  /\ caller \in Sessions \cup {None}
  /\ pc \in [Sessions -> {"idle", "queued", "calling"}]
  /\ now \in [Sessions -> 0 .. MaxLatency]
  /\ loaded \in [Sessions -> Age]
  /\ \A s \in Sessions : caller = s <=> pc[s] = "calling"

LEMMA TypeParts == TypeOK <=> SessionTypeOK /\ flight \in Row /\ settled \in Settlements \cup {Unsettled}
BY DEF TypeOK, SessionTypeOK

LEMMA InvParts ==
  TimersInv <=> SessionTypeOK /\ GoodRow(flight) /\ GoodSettlement(settled) /\ CheckInv /\ HeardInv
BY TypeParts DEF TimersInv, GoodRow, GoodSettlement

LEMMA InitInv == Init => TimersInv
<1>. SUFFICES ASSUME Init PROVE TimersInv
  OBVIOUS
<1>1. SessionTypeOK
  BY Limits, TimersAssumption DEF Init, SessionTypeOK, Age, Never
<1>2. GoodRow(flight)
  BY Limits DEF Init, GoodRow, NoRow, Row, Age, Never, Absent
<1>3. GoodSettlement(settled)
  BY DEF Init, GoodSettlement, Unsettled, TIMEOUT_REASON, LOST_SIGNAL_REASON
<1>4. CheckInv /\ HeardInv
  BY DEF Init, CheckInv, HeardInv, Sessions, NoRow, ResolvedStatus, Absent
<1>. QED
  BY <1>1, <1>2, <1>3, <1>4, InvParts

(* A session that has called ends, having released the lock.               *)
LEMMA EndsWell ==
  ASSUME SessionTypeOK, NEW s \in Sessions, pc[s] = "calling", ReleaseLock(s), EndSession(s),
         polled' \in Age \cup {Never}, checked' \in Age \cup {Never}, heard' \in Age,
         airborne' \in 0 .. LANDING_GRACE_PERIOD
  PROVE  /\ SessionTypeOK'
         /\ \A t \in Sessions : pc'[t] # "idle" =>
              t # s /\ pc[t] = pc'[t] /\ now'[t] = now[t] /\ loaded'[t] = loaded[t]
<1>1. 0 \in 0 .. MaxLatency /\ 0 \in Age
  BY Limits DEF Age
<1>2. pc' \in [Sessions -> {"idle", "queued", "calling"}]
      /\ now' \in [Sessions -> 0 .. MaxLatency] /\ loaded' \in [Sessions -> Age]
  BY <1>1 DEF SessionTypeOK, EndSession
<1>3. \A t \in Sessions : pc'[t] = IF t = s THEN "idle" ELSE pc[t]
  BY DEF SessionTypeOK, EndSession
<1>4. \A t \in Sessions \ {s} : now'[t] = now[t] /\ loaded'[t] = loaded[t]
  BY DEF SessionTypeOK, EndSession
<1>5. \A t \in Sessions : caller' = t <=> pc'[t] = "calling"
  BY <1>3, TimersAssumption DEF SessionTypeOK, ReleaseLock
<1>6. caller' \in Sessions \cup {None}
  BY DEF ReleaseLock
<1>. QED
  BY <1>2, <1>3, <1>4, <1>5, <1>6 DEF SessionTypeOK

LEMMA BoardAnswerInv ==
  ASSUME TimersInv, NEW b \in Boards, BoardAnswer(b)
  PROVE  TimersInv'
<1>1. SessionTypeOK /\ GoodRow(flight) /\ GoodSettlement(settled) /\ CheckInv /\ HeardInv
  BY InvParts
<1>2. b \in Sessions /\ now[b] \in 0 .. MaxLatency /\ now[b] \in Age
  BY <1>1, Limits DEF Sessions, SessionTypeOK, Age
<1>3. PICK q :
        /\ GoodRow(q) /\ Sweep(q, now[b])
        /\ flight.status # Absent => q.first_seen_at = flight.first_seen_at /\ q.status # Absent
        /\ q.status \in ResolvedStatus <=> flight.status \in ResolvedStatus
        /\ \/ q = flight /\ heard' = heard
           \/ heard' = 0 /\ (q.status \in OpenStatus => q.last_seen_at = now[b])
  BY <1>1, <1>2, ReportedRow DEF BoardAnswer
<1>4. settled = Unsettled => q.status \notin ResolvedStatus
  BY <1>1, <1>3 DEF HeardInv
<1>5. /\ GoodRow(flight') /\ GoodSettlement(settled')
      /\ flight'.first_seen_at = q.first_seen_at
      /\ flight'.status = Absent <=> q.status = Absent
      /\ settled' = Unsettled =>
           /\ settled = Unsettled /\ flight'.status \notin ResolvedStatus
           /\ flight'.last_seen_at = q.last_seen_at
  BY <1>1, <1>2, <1>3, <1>4, SweepStep
<1>6. /\ heard' \in Age /\ polled' \in Age \cup {Never} /\ checked' \in Age \cup {Never}
      /\ airborne' \in 0 .. LANDING_GRACE_PERIOD
  BY <1>1, <1>2, <1>3, Limits DEF BoardAnswer, SessionTypeOK, Age
<1>7. /\ SessionTypeOK'
      /\ \A t \in Sessions : pc'[t] # "idle" =>
           pc[t] = pc'[t] /\ now'[t] = now[t] /\ loaded'[t] = loaded[t]
  BY <1>1, <1>2, <1>6, EndsWell DEF BoardAnswer
<1>8. CheckInv'
  BY <1>1, <1>3, <1>5, <1>7 DEF CheckInv, Sessions
<1>9. HeardInv'
  <2>. SUFFICES ASSUME settled' = Unsettled PROVE
         /\ flight'.status \notin ResolvedStatus
         /\ flight'.status # Absent => flight'.last_seen_at <= heard' + MaxLatency
         /\ \A c \in Checks : pc'[c] # "idle" =>
              heard' <= now'[c] \/ loaded'[c] <= heard' + MaxLatency
    BY DEF HeardInv
  <2>1. CASE q = flight /\ heard' = heard
    BY <1>1, <1>5, <1>7, <2>1 DEF HeardInv, Sessions
  <2>2. CASE heard' = 0 /\ (q.status \in OpenStatus => q.last_seen_at = now[b])
    <3>1. flight'.status # Absent => q.status \in OpenStatus
      BY <1>3, <1>4, <1>5 DEF GoodRow, Row
    <3>2. \A c \in Checks : pc'[c] # "idle" => now'[c] \in 0 .. MaxLatency
      BY <1>7 DEF Sessions, SessionTypeOK
    <3>. QED
      BY <1>2, <1>5, <2>2, <3>1, <3>2, Limits
  <2>. QED
    BY <1>3, <2>1, <2>2
<1>. QED
  <2>. HIDE DEF GoodRow, GoodSettlement, SessionTypeOK, CheckInv, HeardInv
  <2>1. (SessionTypeOK /\ GoodRow(flight) /\ GoodSettlement(settled) /\ CheckInv /\ HeardInv)'
    BY <1>5, <1>7, <1>8, <1>9 DEF GoodRow, GoodSettlement
  <2>. QED
    BY <2>1, InvParts, PTL

(* What a landing check makes of the flight, and when it settles as lost.  *)
LEMMA CheckRow ==
  ASSUME TimersInv, NEW c \in Checks, pc[c] = "calling",
         CheckLanded(c, now[c]) \/ CheckAirborne(c, now[c]) \/ CheckUnreported(c, now[c])
  PROVE  /\ GoodRow(flight') /\ GoodSettlement(settled') /\ heard' \in Age
         /\ flight'.first_seen_at = flight.first_seen_at /\ flight'.status # Absent
         /\ settled' = Unsettled =>
              /\ settled = Unsettled /\ flight'.status \notin ResolvedStatus
              /\ \/ heard' = 0 /\ flight'.last_seen_at = now[c]
                 \/ heard' = heard /\ flight'.last_seen_at = flight.last_seen_at
         /\ heard' = 0 \/ heard' = heard
         /\ settled = Unsettled /\ settled'.reason = LOST_SIGNAL_REASON =>
              loaded[c] - now[c] > LOST_SIGNAL_CEILING
<1>1. SessionTypeOK /\ GoodRow(flight) /\ GoodSettlement(settled) /\ CheckInv /\ HeardInv
  BY InvParts
<1>2. PICK n \in 0 .. MaxLatency : n = now[c] /\ n \in Age /\ 0 \in Age
  BY <1>1, Limits DEF Sessions, SessionTypeOK, Age
<1>3. /\ flight.status # Absent /\ n <= flight.first_seen_at /\ flight.first_seen_at \in Age
      /\ loaded[c] <= flight.first_seen_at + MaxLatency /\ loaded[c] \in Age /\ heard \in Age
  BY <1>1, <1>2 DEF CheckInv, GoodRow, Row, Sessions, SessionTypeOK
<1>4. /\ {"RESOLVED_LANDED", "RESOLVED_TIMEOUT", "RESOLVED_LOST_SIGNAL"} \subseteq ResolvedStatus
      /\ {LANDED_REASON, TIMEOUT_REASON, LOST_SIGNAL_REASON} \subseteq ResolutionReason
      /\ LANDED_REASON # TIMEOUT_REASON /\ LANDED_REASON # LOST_SIGNAL_REASON
      /\ TIMEOUT_REASON # LOST_SIGNAL_REASON
  BY DEF ResolvedStatus, ResolutionReason, LANDED_REASON, TIMEOUT_REASON, LOST_SIGNAL_REASON
<1>5. PICK r :
        /\ r = record_sample(flight, n)
        /\ GoodRow(r) /\ r.status = flight.status /\ r.last_seen_at = n
        /\ r.first_seen_at = flight.first_seen_at
  <2>1. /\ record_sample(flight, n) \in Row
        /\ record_sample(flight, n).status = flight.status
        /\ record_sample(flight, n).last_seen_at = n
        /\ record_sample(flight, n).first_seen_at = flight.first_seen_at
        /\ record_sample(flight, n).landing_suspected_at = flight.landing_suspected_at
    BY <1>1, <1>2 DEF record_sample, GoodRow, Row
  <2>. QED
    BY <1>1, <1>2, <1>3, <2>1, Limits DEF GoodRow, Age
<1>6. settled = Unsettled => flight.status \notin ResolvedStatus
                             /\ settled.reason # LOST_SIGNAL_REASON
  BY <1>1 DEF HeardInv, Unsettled, LOST_SIGNAL_REASON
<1>7. CASE CheckLanded(c, now[c])
  <2>1. Resolve(flight, "RESOLVED_LANDED", LANDED_REASON, n) /\ heard' = 0
    BY <1>2, <1>7 DEF CheckLanded
  <2>2. /\ GoodRow(flight') /\ flight'.status \in ResolvedStatus
        /\ flight'.first_seen_at = flight.first_seen_at
        /\ GoodSettlement(settled') /\ settled' # Unsettled
        /\ settled = Unsettled => settled'.reason = LANDED_REASON
    BY <1>1, <1>3, <1>4, <2>1, ResolveStep
  <2>. QED
    BY <1>2, <1>4, <2>1, <2>2 DEF ResolvedStatus, Absent
<1>8. CASE CheckAirborne(c, now[c])
  <2>1. CASE duration_ceiling_breached(flight, n) /\ Resolve(r, "RESOLVED_TIMEOUT", TIMEOUT_REASON, n)
    <3>1. flight.first_seen_at - n > MAX_FLIGHT_DURATION_CEILING
      BY <2>1 DEF duration_ceiling_breached, minutes_since
    <3>2. /\ GoodRow(flight') /\ flight'.status \in ResolvedStatus
          /\ flight'.first_seen_at = r.first_seen_at
          /\ GoodSettlement(settled') /\ settled' # Unsettled
          /\ settled = Unsettled => settled'.reason = TIMEOUT_REASON
      BY <1>1, <1>3, <1>4, <1>5, <2>1, <3>1, ResolveStep
    <3>. QED
      BY <1>2, <1>4, <1>5, <1>8, <3>2 DEF CheckAirborne, ResolvedStatus, Absent
  <2>2. CASE Keep(r)
    BY <1>1, <1>2, <1>3, <1>5, <1>6, <1>8, <2>2 DEF CheckAirborne, Keep
  <2>. QED
    BY <1>2, <1>5, <1>8, <2>1, <2>2 DEF CheckAirborne
<1>9. CASE CheckUnreported(c, now[c])
  <2>1. CASE duration_ceiling_breached(flight, n)
             /\ Resolve(flight, "RESOLVED_TIMEOUT", TIMEOUT_REASON, n)
    <3>1. flight.first_seen_at - n > MAX_FLIGHT_DURATION_CEILING
      BY <2>1 DEF duration_ceiling_breached, minutes_since
    <3>2. /\ GoodRow(flight') /\ flight'.status \in ResolvedStatus
          /\ flight'.first_seen_at = flight.first_seen_at
          /\ GoodSettlement(settled') /\ settled' # Unsettled
          /\ settled = Unsettled => settled'.reason = TIMEOUT_REASON
      BY <1>1, <1>3, <1>4, <2>1, <3>1, ResolveStep
    <3>. QED
      BY <1>3, <1>4, <1>9, <3>2 DEF CheckUnreported, ResolvedStatus, Absent
  <2>2. CASE minutes_since(loaded[c], n) > LOST_SIGNAL_CEILING
             /\ Resolve(flight, "RESOLVED_LOST_SIGNAL", LOST_SIGNAL_REASON, n)
    <3>1. loaded[c] - n > LOST_SIGNAL_CEILING
      BY <2>2 DEF minutes_since
    <3>2. flight.first_seen_at - n > LOST_SIGNAL_CEILING - MaxLatency
      BY <1>3, <3>1, Limits DEF Age
    <3>3. /\ GoodRow(flight') /\ flight'.status \in ResolvedStatus
          /\ flight'.first_seen_at = flight.first_seen_at
          /\ GoodSettlement(settled') /\ settled' # Unsettled
      BY <1>1, <1>3, <1>4, <2>2, <3>2, ResolveStep
    <3>. QED
      BY <1>2, <1>3, <1>9, <3>1, <3>3 DEF CheckUnreported, ResolvedStatus, Absent
  <2>3. CASE Keep(flight)
    BY <1>1, <1>3, <1>6, <1>9, <2>3 DEF CheckUnreported, Keep
  <2>. QED
    BY <1>2, <1>9, <2>1, <2>2, <2>3 DEF CheckUnreported
<1>. QED
  BY <1>7, <1>8, <1>9

LEMMA CheckAnswerInv ==
  ASSUME TimersInv, NEW c \in Checks, CheckAnswer(c)
  PROVE  TimersInv'
<1>1. SessionTypeOK /\ CheckInv /\ HeardInv
  BY InvParts
<1>2. c \in Sessions /\ now[c] \in 0 .. MaxLatency /\ now[c] \in Age
  BY <1>1, Limits DEF Sessions, SessionTypeOK, Age
<1>3. /\ GoodRow(flight') /\ GoodSettlement(settled') /\ heard' \in Age
      /\ flight'.first_seen_at = flight.first_seen_at /\ flight'.status # Absent
      /\ settled' = Unsettled =>
           /\ settled = Unsettled /\ flight'.status \notin ResolvedStatus
           /\ \/ heard' = 0 /\ flight'.last_seen_at = now[c]
              \/ heard' = heard /\ flight'.last_seen_at = flight.last_seen_at
      /\ heard' = 0 \/ heard' = heard
  BY CheckRow DEF CheckAnswer
<1>4. /\ SessionTypeOK'
      /\ \A t \in Sessions : pc'[t] # "idle" =>
           pc[t] = pc'[t] /\ now'[t] = now[t] /\ loaded'[t] = loaded[t]
  <2>1. /\ polled' \in Age \cup {Never} /\ checked' \in Age \cup {Never}
        /\ airborne' \in 0 .. LANDING_GRACE_PERIOD
    BY <1>1, <1>2 DEF CheckAnswer, SessionTypeOK
  <2>. QED
    BY <1>1, <1>2, <1>3, <2>1, EndsWell DEF CheckAnswer
<1>5. CheckInv'
  BY <1>1, <1>3, <1>4 DEF CheckInv, Sessions
<1>6. HeardInv'
  <2>. SUFFICES ASSUME settled' = Unsettled PROVE
         /\ flight'.status \notin ResolvedStatus
         /\ flight'.status # Absent => flight'.last_seen_at <= heard' + MaxLatency
         /\ \A d \in Checks : pc'[d] # "idle" =>
              heard' <= now'[d] \/ loaded'[d] <= heard' + MaxLatency
    BY DEF HeardInv
  <2>1. CheckInv
    BY <1>1
  <2>2. flight.status # Absent
    BY <2>1 DEF CheckAnswer, CheckInv
  <2>3. flight'.last_seen_at <= heard' + MaxLatency
    BY <1>1, <1>2, <1>3, <2>2, Limits DEF HeardInv
  <2>4. \A d \in Checks : pc'[d] # "idle" => now'[d] \in 0 .. MaxLatency
    BY <1>4 DEF Sessions, SessionTypeOK
  <2>. QED
    BY <1>1, <1>3, <1>4, <2>3, <2>4, Limits DEF HeardInv, Sessions
<1>. QED
  <2>1. (SessionTypeOK /\ GoodRow(flight) /\ GoodSettlement(settled) /\ CheckInv /\ HeardInv)'
    BY <1>3, <1>4, <1>5, <1>6 DEF GoodRow, GoodSettlement
  <2>. QED
    BY <2>1, InvParts, PTL

(* A step that leaves the flight alone and starts no check.                *)
LEMMA FrameInv ==
  ASSUME TimersInv, SessionTypeOK', UNCHANGED <<flight, settled, heard>>,
         \A c \in Checks : pc'[c] # "idle" =>
           pc[c] # "idle" /\ now'[c] = now[c] /\ loaded'[c] = loaded[c]
  PROVE  TimersInv'
<1>1. GoodRow(flight) /\ GoodSettlement(settled) /\ CheckInv /\ HeardInv
  BY InvParts
<1>2. CheckInv'
  BY <1>1 DEF CheckInv
<1>3. HeardInv'
  BY <1>1 DEF HeardInv
<1>4. (SessionTypeOK /\ GoodRow(flight) /\ GoodSettlement(settled) /\ CheckInv /\ HeardInv)'
  BY <1>1, <1>2, <1>3 DEF GoodRow, GoodSettlement
<1>. QED
  BY <1>4, InvParts, PTL

LEMMA QuietInv ==
  ASSUME TimersInv, NEW s \in Sessions,
         Call(s) \/ Abort(s) \/ (s \in Boards /\ (BoardBegin(s) \/ BoardFailed(s)))
  PROVE  TimersInv'
<1>1. SessionTypeOK
  BY InvParts
<1>2. now[s] \in Age /\ s # None
  BY <1>1, Limits, TimersAssumption DEF SessionTypeOK, Age
<1>3. CASE Call(s)
  <2>1. SessionTypeOK'
    BY <1>1, <1>3, TimersAssumption DEF Call, Goto, SessionTypeOK, timerVars
  <2>2. \A c \in Checks : pc'[c] # "idle" => pc[c] # "idle"
    BY <1>1, <1>3 DEF Call, Goto, SessionTypeOK, Sessions
  <2>. QED
    BY <1>3, <2>1, <2>2, FrameInv DEF Call, timerVars
<1>4. CASE Abort(s)
  <2>1. /\ SessionTypeOK'
        /\ \A t \in Sessions : pc'[t] # "idle" =>
             t # s /\ pc[t] = pc'[t] /\ now'[t] = now[t] /\ loaded'[t] = loaded[t]
    BY <1>1, <1>4, EndsWell DEF Abort, timerVars, SessionTypeOK
  <2>. QED
    BY <1>4, <2>1, FrameInv DEF Abort, timerVars, Sessions
<1>5. CASE s \in Boards /\ BoardFailed(s)
  <2>1. /\ SessionTypeOK'
        /\ \A t \in Sessions : pc'[t] # "idle" =>
             t # s /\ pc[t] = pc'[t] /\ now'[t] = now[t] /\ loaded'[t] = loaded[t]
    BY <1>1, <1>2, <1>5, EndsWell DEF BoardFailed, SessionTypeOK
  <2>. QED
    BY <1>5, <2>1, FrameInv DEF BoardFailed, Sessions
<1>6. CASE s \in Boards /\ BoardBegin(s)
  <2>1. SessionTypeOK'
    BY <1>1, <1>6, TimersAssumption DEF BoardBegin, Goto, SessionTypeOK, timerVars
  <2>2. \A c \in Checks : pc'[c] = pc[c] /\ now'[c] = now[c] /\ loaded'[c] = loaded[c]
    BY <1>1, <1>6, TimersAssumption DEF BoardBegin, Goto, SessionTypeOK, Sessions
  <2>. QED
    BY <1>6, <2>1, <2>2, FrameInv DEF BoardBegin, timerVars
<1>. QED
  BY <1>3, <1>4, <1>5, <1>6

LEMMA CheckBeginInv ==
  ASSUME TimersInv, NEW c \in Checks, CheckBegin(c)
  PROVE  TimersInv'
<1>1. SessionTypeOK /\ GoodRow(flight) /\ GoodSettlement(settled) /\ CheckInv /\ HeardInv
  BY InvParts
<1>2. /\ c \in Sessions /\ flight.status # Absent
      /\ flight.first_seen_at \in Age /\ flight.last_seen_at \in Age
      /\ flight.last_seen_at <= flight.first_seen_at + MaxLatency
  BY <1>1 DEF CheckBegin, GoodRow, Row, Sessions, OpenStatus, Absent
<1>3. SessionTypeOK'
  BY <1>1, <1>2, Limits, TimersAssumption DEF CheckBegin, Goto, SessionTypeOK, timerVars
<1>4. /\ UNCHANGED <<flight, settled, heard>>
      /\ now'[c] = 0 /\ loaded'[c] = flight.last_seen_at
      /\ \A d \in Checks \ {c} : pc'[d] = pc[d] /\ now'[d] = now[d] /\ loaded'[d] = loaded[d]
  BY <1>1, <1>2 DEF CheckBegin, Goto, SessionTypeOK, Sessions, timerVars
<1>5. CheckInv'
  BY <1>1, <1>2, <1>4 DEF CheckInv, Age
<1>6. HeardInv'
  BY <1>1, <1>2, <1>4 DEF HeardInv
<1>7. (SessionTypeOK /\ GoodRow(flight) /\ GoodSettlement(settled) /\ CheckInv /\ HeardInv)'
  BY <1>1, <1>3, <1>4, <1>5, <1>6 DEF GoodRow, GoodSettlement
<1>. QED
  BY <1>7, InvParts, PTL

(* An age and the limit at which it stops keep their distance to others.   *)
LEMMA OlderAge ==
  ASSUME NEW limit \in Nat, NEW t \in 0 .. limit \cup {Never}
  PROVE  /\ Older(t, limit) \in 0 .. limit \cup {Never}
         /\ t = Never => Older(t, limit) = Never
         /\ t # Never => Older(t, limit) \in 0 .. limit
         /\ t # Never /\ t < limit => Older(t, limit) = t + 1
         /\ t # Never /\ t = limit => Older(t, limit) = t
BY DEF Older, Never

LEMMA TickInv == TimersInv /\ Tick => TimersInv'
<1>. SUFFICES ASSUME TimersInv, Tick PROVE TimersInv'
  OBVIOUS
<1>1. SessionTypeOK /\ GoodRow(flight) /\ GoodSettlement(settled) /\ CheckInv /\ HeardInv
  BY InvParts
<1>2. /\ polled' \in Age \cup {Never} /\ checked' \in Age \cup {Never} /\ heard' \in Age
      /\ airborne' \in 0 .. LANDING_GRACE_PERIOD
      /\ settled = Unsettled => heard' = Older(heard, Old)
  BY <1>1, Limits DEF Tick, SessionTypeOK, Older, Age, Never
<1>3. SessionTypeOK'
  <2>1. now' \in [Sessions -> 0 .. MaxLatency] /\ loaded' \in [Sessions -> Age]
    BY <1>1, Limits DEF Tick, SessionTypeOK, Older, Age, Never
  <2>. QED
    BY <1>1, <1>2, <2>1 DEF Tick, SessionTypeOK
<1>4. /\ GoodRow(flight') /\ flight'.status = flight.status
      /\ flight.status # Absent =>
           /\ flight'.first_seen_at = Older(flight.first_seen_at, Old)
           /\ flight'.last_seen_at = Older(flight.last_seen_at, Old)
  <2>1. CASE flight.status = Absent
    BY <1>1, <2>1 DEF Tick, OlderRow
  <2>2. CASE flight.status # Absent
    <3>1. PICK first \in Age, last \in Age, at \in 0 .. SuspectedLimit \cup {Never} :
            /\ first = flight.first_seen_at /\ last = flight.last_seen_at
            /\ at = flight.landing_suspected_at
            /\ last <= first + MaxLatency /\ at <= first + MaxLatency
      BY <1>1, <2>2 DEF GoodRow, Row
    <3>2. /\ flight' \in [status : {flight.status}, first_seen_at : {Older(first, Old)},
                          last_seen_at : {Older(last, Old)},
                          landing_suspected_at : {Older(at, SuspectedLimit)}]
      BY <1>1, <2>2, <3>1 DEF Tick, OlderRow, GoodRow, Row
    <3>3. /\ Older(first, Old) \in Age /\ Older(last, Old) \in Age
          /\ Older(at, SuspectedLimit) \in 0 .. SuspectedLimit \cup {Never}
          /\ Older(at, SuspectedLimit) \in Age \cup {Never}
          /\ Older(last, Old) <= Older(first, Old) + MaxLatency
          /\ Older(at, SuspectedLimit) <= Older(first, Old) + MaxLatency
      BY <3>1, Limits DEF Older, Age, Never
    <3>. QED
      BY <1>1, <2>2, <3>1, <3>2, <3>3 DEF GoodRow, Row
  <2>. QED
    BY <2>1, <2>2
<1>5. ASSUME NEW c \in Checks, pc'[c] # "idle"
      PROVE  /\ pc[c] # "idle" /\ now[c] \in 0 .. MaxLatency /\ loaded[c] \in Age
             /\ now'[c] = now[c] + 1 /\ now[c] < MaxLatency
             /\ loaded'[c] = Older(loaded[c], Old)
  BY <1>1, <1>5 DEF Tick, SessionTypeOK, Sessions
<1>6. CheckInv'
  <2>. SUFFICES ASSUME NEW c \in Checks, pc'[c] # "idle"
                PROVE  /\ flight'.status # Absent
                       /\ now'[c] <= flight'.first_seen_at
                       /\ loaded'[c] <= flight'.first_seen_at + MaxLatency
    BY DEF CheckInv
  <2>1. /\ flight.status # Absent /\ flight.first_seen_at \in Age
        /\ now[c] <= flight.first_seen_at
        /\ loaded[c] <= flight.first_seen_at + MaxLatency
    BY <1>1, <1>5 DEF CheckInv, GoodRow, Row
  <2>. QED
    BY <1>4, <1>5, <2>1, Limits DEF Older, Age, Never
<1>7. HeardInv'
  <2>. SUFFICES ASSUME settled' = Unsettled PROVE
         /\ flight'.status \notin ResolvedStatus
         /\ flight'.status # Absent => flight'.last_seen_at <= heard' + MaxLatency
         /\ \A c \in Checks : pc'[c] # "idle" =>
              heard' <= now'[c] \/ loaded'[c] <= heard' + MaxLatency
    BY DEF HeardInv
  <2>1. settled = Unsettled /\ heard \in Age /\ heard' = Older(heard, Old)
    BY <1>1, <1>2 DEF Tick, SessionTypeOK
  <2>2. flight'.status # Absent => flight'.last_seen_at <= heard' + MaxLatency
    BY <1>1, <1>4, <2>1, Limits DEF HeardInv, GoodRow, Row, Older, Age, Never
  <2>3. ASSUME NEW c \in Checks, pc'[c] # "idle"
        PROVE  heard' <= now'[c] \/ loaded'[c] <= heard' + MaxLatency
    <3>1. heard <= now[c] \/ loaded[c] <= heard + MaxLatency
      BY <1>1, <1>5, <2>1, <2>3 DEF HeardInv
    <3>. QED
      BY <1>5, <2>1, <2>3, <3>1, Limits DEF Older, Age, Never
  <2>. QED
    BY <1>1, <1>4, <2>1, <2>2, <2>3 DEF HeardInv
<1>8. (SessionTypeOK /\ GoodRow(flight) /\ GoodSettlement(settled) /\ CheckInv /\ HeardInv)'
  BY <1>1, <1>3, <1>4, <1>6, <1>7 DEF GoodRow, GoodSettlement, Tick
<1>. QED
  BY <1>8, InvParts, PTL
-------------------------------------------------------------------------------
(* The invariant holds in every reachable state, for any number of boards  *)
(* and checks and any thresholds that TimersAssumption admits.             *)
THEOREM TimersInvariant == Spec => []TimersInv
<1>1. TimersInv /\ [Next]_vars => TimersInv'
  <2>. SUFFICES ASSUME TimersInv, [Next]_vars PROVE TimersInv'
    OBVIOUS
  <2>1. CASE Tick
    BY <2>1, TickInv
  <2>2. ASSUME NEW s \in Sessions, Call(s) \/ Abort(s) PROVE TimersInv'
    BY <2>2, QuietInv
  <2>3. ASSUME NEW b \in Boards, Board(b) PROVE TimersInv'
    BY <2>3, QuietInv, BoardAnswerInv DEF Board, Sessions
  <2>4. ASSUME NEW c \in Checks, Check(c) PROVE TimersInv'
    BY <2>4, CheckBeginInv, CheckAnswerInv DEF Check
  <2>5. CASE UNCHANGED vars
    <3>1. SessionTypeOK'
      BY <2>5, InvParts DEF vars, timerVars, sessionVars, SessionTypeOK
    <3>. QED
      BY <2>5, <3>1, FrameInv DEF vars, timerVars, sessionVars
  <2>. QED
    BY <2>1, <2>2, <2>3, <2>4, <2>5 DEF Next
<1>. QED
  BY <1>1, InitInv, PTL DEF Spec

(* Every variable keeps its type.                                          *)
THEOREM TimersTypeCorrect == Spec => []TypeOK
<1>1. TimersInv => TypeOK
  BY DEF TimersInv
<1>. QED
  BY <1>1, TimersInvariant, PTL

(* Settlements are computed from a duration the flight can have had, also  *)
(* from the stale times of slow sessions (resolve_tracked_flight).         *)
THEOREM DurationIsPlausible == Spec => []DurationPlausible
<1>1. TimersInv => DurationPlausible
  BY DEF TimersInv, GoodSettlement, DurationPlausible
<1>. QED
  BY <1>1, TimersInvariant, PTL

(* Rentals are settled as lost only when nothing had been heard of the     *)
(* flight, or something came in during the wait of the session that        *)
(* settles them (_resolve_via_ceiling_or_grace, refresh_flight_status).    *)
THEOREM LostFlightIsUnheard == Spec => LostIsUnheard
<1>. DEFINE LostStep == \A s \in Sessions : SettlesLost(s) =>
              heard > LOST_SIGNAL_CEILING - MaxLatency \/ heard <= now[s]
<1>1. TimersInv /\ [Next]_vars => [LostStep]_vars
  <2>. SUFFICES ASSUME TimersInv, Next, NEW s \in Sessions, SettlesLost(s)
                PROVE  heard > LOST_SIGNAL_CEILING - MaxLatency \/ heard <= now[s]
    OBVIOUS
  <2>1. SessionTypeOK /\ GoodRow(flight) /\ GoodSettlement(settled) /\ CheckInv /\ HeardInv
    BY InvParts
  <2>2. /\ settled = Unsettled /\ settled' # settled /\ settled'.reason = LOST_SIGNAL_REASON
        /\ now[s] \in 0 .. MaxLatency /\ heard \in Age /\ pc[s] = "calling"
    BY <2>1 DEF SettlesLost, Unsettled, LOST_SIGNAL_REASON, SessionTypeOK
  <2>3. CASE s \in Boards /\ BoardAnswer(s)
    <3>1. PICK q :
            /\ GoodRow(q) /\ Sweep(q, now[s])
            /\ q.status \in ResolvedStatus <=> flight.status \in ResolvedStatus
            /\ q = flight \/ (q.status \in OpenStatus => q.last_seen_at = now[s])
      BY <2>1, <2>2, <2>3, ReportedRow DEF BoardAnswer
    <3>2. q.status \in OpenStatus /\ q.last_seen_at - now[s] > LOST_SIGNAL_CEILING
      BY <2>1, <2>2, <3>1, SweepStep DEF HeardInv
    <3>3. q = flight
      BY <2>2, <3>1, <3>2, Limits
    <3>4. flight.last_seen_at <= heard + MaxLatency /\ flight.last_seen_at \in Age
      BY <2>1, <2>2, <3>2, <3>3 DEF HeardInv, GoodRow, Row, OpenStatus, Absent
    <3>. QED
      BY <2>2, <3>2, <3>3, <3>4, Limits DEF Age
  <2>4. CASE s \in Checks /\ CheckAnswer(s)
    <3>1. loaded[s] - now[s] > LOST_SIGNAL_CEILING /\ loaded[s] \in Age
      BY <2>1, <2>2, <2>4, CheckRow DEF CheckAnswer, SessionTypeOK
    <3>2. heard <= now[s] \/ loaded[s] <= heard + MaxLatency
      BY <2>1, <2>2, <2>4 DEF HeardInv
    <3>. QED
      BY <2>2, <3>1, <3>2, Limits DEF Age
  <2>5. ASSUME NEW t \in Sessions, t # s,
               (t \in Boards /\ BoardAnswer(t)) \/ (t \in Checks /\ CheckAnswer(t))
        PROVE  FALSE
    <3>1. pc' = [pc EXCEPT ![t] = "idle"]
      BY <2>5 DEF BoardAnswer, CheckAnswer, EndSession
    <3>2. pc'[s] = pc[s]
      BY <2>1, <2>5, <3>1 DEF SessionTypeOK
    <3>. QED
      BY <3>2 DEF SettlesLost
  <2>6. \/ \E t \in Boards : BoardAnswer(t)
        \/ \E t \in Checks : CheckAnswer(t)
    BY <2>2 DEF Next, Tick, Call, Abort, Board, Check, BoardBegin, BoardFailed, CheckBegin,
                timerVars
  <2>. QED
    BY <2>3, <2>4, <2>5, <2>6 DEF Sessions
<1>. QED
  BY <1>1, TimersInvariant, PTL DEF Spec, LostIsUnheard

(* What the stamp of a suspicion says of the last report of the aircraft   *)
(* in the air that a board received: only a suspected landing has one, and *)
(* it was taken MaxLatency before that report at most.                     *)
Suspicion(r, air) ==
  /\ r.landing_suspected_at \in Int
  /\ r.status \in {"AIRBORNE_OPEN", "AIRBORNE_LOCKED", Absent} => r.landing_suspected_at = Never
  /\ r.landing_suspected_at <= air + MaxLatency

AirborneInv == settled = Unsettled => Suspicion(flight, airborne)

(* A report of the aircraft in the air clears the stamp, and any other     *)
(* sets none that is older than the session's wait.                        *)
LEMMA ReportedSuspicion ==
  ASSUME NEW r, GoodRow(r), NEW n \in 0 .. MaxLatency, NEW report \in Reports,
         NEW air \in 0 .. LANDING_GRACE_PERIOD, Suspicion(r, air), r.status \notin ResolvedStatus
  PROVE  Suspicion(Reported(r, report, n), IF report.landing THEN air ELSE 0)
<1>1. /\ report.takeoff \in BOOLEAN /\ report.landing \in BOOLEAN
      /\ r \in Row /\ Never < 0 /\ MaxLatency \in Nat
  BY ReportTypes, Limits DEF GoodRow, Never
<1>2. CASE r.status = Absent
  <2>1. r.landing_suspected_at = Never
    BY <1>2 DEF Suspicion
  <2>2. Reported(r, report, n).landing_suspected_at = Never
    <3>1. CASE report.takeoff
      BY <1>2, <3>1 DEF Reported, create_tracked_flight, Absent, OpenStatus, ResolvedStatus
    <3>2. CASE ~report.takeoff
      BY <1>2, <2>1, <3>2 DEF Reported, Absent, OpenStatus, ResolvedStatus
    <3>. QED
      BY <3>1, <3>2
  <2>3. Never <= (IF report.landing THEN air ELSE 0) + MaxLatency
    BY Limits DEF Never
  <2>. QED
    BY <2>2, <2>3 DEF Suspicion, Never
<1>3. CASE r.status \in OpenStatus
  <2>1. Reported(r, report, n) = Sampled(r, report, n)
    BY <1>3 DEF Reported, Absent, OpenStatus, ResolvedStatus
  <2>2. PICK status \in OpenStatus, at \in 0 .. SuspectedLimit \cup {Never} :
          /\ Sampled(r, report, n).status = status
          /\ Sampled(r, report, n).landing_suspected_at = at
          /\ status \in {"AIRBORNE_OPEN", "AIRBORNE_LOCKED"} => at = Never
          /\ at = Never \/ at = n \/ (report.landing /\ at = r.landing_suspected_at)
    <3>1. n \in 0 .. SuspectedLimit
      BY Limits
    <3>. QED
      BY <1>1, <1>3, <3>1 DEF Sampled, record_sample, Row, OpenStatus, GoodRow, Suspicion
  <2>3. at \in Int /\ at <= (IF report.landing THEN air ELSE 0) + MaxLatency
    BY <1>1, <2>2, Limits DEF Suspicion
  <2>. QED
    BY <2>1, <2>2, <2>3 DEF Suspicion, OpenStatus, Absent
<1>. QED
  BY <1>1, <1>2, <1>3 DEF Row

(* A sweep keeps the row or settles, as landed only by the grace period.   *)
LEMMA SweepSettles ==
  ASSUME NEW r, NEW n, Sweep(r, n), settled = Unsettled
  PROVE  /\ settled' = Unsettled => flight' = r
         /\ settled'.reason = LANDED_REASON => Grace(r, n)
<1>1. /\ LANDED_REASON # TIMEOUT_REASON /\ LANDED_REASON # LOST_SIGNAL_REASON
      /\ "null" \notin {LANDED_REASON, TIMEOUT_REASON, LOST_SIGNAL_REASON}
  BY DEF LANDED_REASON, TIMEOUT_REASON, LOST_SIGNAL_REASON
<1>2. Unsettled.reason = "null"
  BY DEF Unsettled
<1>3. ASSUME NEW status, NEW reason \in {LANDED_REASON, TIMEOUT_REASON, LOST_SIGNAL_REASON},
             Resolve(r, status, reason, n)
      PROVE  settled'.reason = reason /\ settled' # Unsettled
  <2>1. settled'.reason = reason
    BY <1>3 DEF Resolve
  <2>. QED
    BY <1>1, <1>2, <2>1
<1>. QED
  BY <1>1, <1>2, <1>3 DEF Sweep, Keep

LEMMA TickAirborne == TimersInv /\ AirborneInv /\ Tick => AirborneInv'
<1>. SUFFICES ASSUME TimersInv, AirborneInv, Tick, settled' = Unsettled
              PROVE  Suspicion(flight', airborne')
  BY DEF AirborneInv
<1>1. /\ SessionTypeOK /\ GoodRow(flight) /\ Suspicion(flight, airborne) /\ settled = Unsettled
      /\ flight' = OlderRow(flight)
  BY InvParts DEF AirborneInv, Tick
<1>2. CASE flight.status = Absent
  <2>1. flight' = flight /\ flight.landing_suspected_at = Never /\ airborne' = 0
    BY <1>1, <1>2 DEF OlderRow, Suspicion, Tick
  <2>. QED
    BY <2>1, Limits DEF Suspicion, Never
<1>3. CASE flight.status # Absent
  <2>1. PICK at \in 0 .. SuspectedLimit \cup {Never} : at = flight.landing_suspected_at
    BY <1>1 DEF GoodRow
  <2>2. /\ flight'.status = flight.status
        /\ flight'.landing_suspected_at = Older(at, SuspectedLimit)
    BY <1>1, <1>3, <2>1 DEF OlderRow, GoodRow, Row
  <2>3. airborne' = Older(airborne, LANDING_GRACE_PERIOD) /\ airborne \in 0 .. LANDING_GRACE_PERIOD
    BY <1>1, <1>3 DEF Tick, SessionTypeOK
  <2>4. at = Never => Older(at, SuspectedLimit) = Never
    BY DEF Older
  <2>5. Older(at, SuspectedLimit) \in Int /\ Older(at, SuspectedLimit) <= airborne' + MaxLatency
    BY <1>1, <2>1, <2>3, Limits DEF Suspicion, Older, Never
  <2>. QED
    BY <1>1, <2>1, <2>2, <2>4, <2>5 DEF Suspicion
<1>. QED
  BY <1>2, <1>3

(* What a board makes of the row before it sweeps.                         *)
LEMMA BoardSuspicion ==
  ASSUME TimersInv, AirborneInv, NEW b \in Boards, BoardAnswer(b), settled = Unsettled
  PROVE  \E q : Sweep(q, now[b]) /\ Suspicion(q, airborne')
<1>1. /\ SessionTypeOK /\ GoodRow(flight) /\ Suspicion(flight, airborne)
      /\ flight.status \notin ResolvedStatus
  BY InvParts DEF AirborneInv, HeardInv
<1>2. now[b] \in 0 .. MaxLatency /\ airborne \in 0 .. LANDING_GRACE_PERIOD
  BY <1>1 DEF SessionTypeOK, Sessions
<1>. QED
  BY <1>1, <1>2, ReportedSuspicion DEF BoardAnswer

LEMMA AirborneStep == TimersInv /\ AirborneInv /\ [Next]_vars => AirborneInv'
<1>. SUFFICES ASSUME TimersInv, AirborneInv, [Next]_vars PROVE AirborneInv'
  OBVIOUS
<1>1. CASE Tick
  BY <1>1, TickAirborne
<1>2. ASSUME NEW b \in Boards, BoardAnswer(b) PROVE AirborneInv'
  <2>1. CASE settled = Unsettled
    <3>1. PICK q : Sweep(q, now[b]) /\ Suspicion(q, airborne')
      BY <1>2, <2>1, BoardSuspicion
    <3>. QED
      BY <2>1, <3>1, SweepSettles DEF AirborneInv
  <2>2. CASE settled # Unsettled
    <3>1. settled' = settled
      BY <1>2, <2>2 DEF BoardAnswer, Sweep, Resolve, Keep
    <3>. QED
      BY <2>2, <3>1 DEF AirborneInv
  <2>. QED
    BY <2>1, <2>2
<1>3. ASSUME NEW c \in Checks, CheckAnswer(c) PROVE AirborneInv'
  <2>1. GoodRow(flight) /\ now[c] \in Age
    BY InvParts, Limits DEF SessionTypeOK, Sessions, Age
  <2>2. airborne' = airborne
    BY <1>3 DEF CheckAnswer
  <2>3. ASSUME NEW r, NEW status, NEW reason \in ResolutionReason,
               Resolve(r, status, reason, now[c])
        PROVE  settled' # Unsettled
    <3>1. reason # "null" /\ Unsettled.reason = "null"
      BY DEF ResolutionReason, LANDED_REASON, TIMEOUT_REASON, LOST_SIGNAL_REASON, Unsettled
    <3>2. settled = Unsettled => settled'.reason = reason
      BY <2>3 DEF Resolve
    <3>3. settled # Unsettled => settled' = settled
      BY <2>3 DEF Resolve
    <3>. QED
      BY <3>1, <3>2, <3>3
  <2>4. /\ settled' = Unsettled => settled = Unsettled
        /\ settled' = Unsettled => flight' = flight \/ flight' = record_sample(flight, now[c])
    <3>1. {LANDED_REASON, TIMEOUT_REASON, LOST_SIGNAL_REASON} \subseteq ResolutionReason
      BY DEF ResolutionReason
    <3>. QED
      BY <1>3, <2>3, <3>1 DEF CheckAnswer, CheckLanded, CheckAirborne, CheckUnreported, Keep
  <2>5. /\ record_sample(flight, now[c]).status = flight.status
        /\ record_sample(flight, now[c]).landing_suspected_at = flight.landing_suspected_at
    BY <2>1 DEF record_sample, GoodRow, Row
  <2>. QED
    BY <2>2, <2>4, <2>5 DEF AirborneInv, Suspicion
<1>4. CASE UNCHANGED <<flight, settled, airborne>>
  BY <1>4 DEF AirborneInv
<1>5. ASSUME NEW s \in Sessions, Call(s) \/ Abort(s) PROVE UNCHANGED <<flight, settled, airborne>>
  BY <1>5 DEF Call, Abort, timerVars
<1>6. ASSUME NEW b \in Boards, BoardBegin(b) \/ BoardFailed(b)
      PROVE  UNCHANGED <<flight, settled, airborne>>
  BY <1>6 DEF BoardBegin, BoardFailed, timerVars
<1>7. ASSUME NEW c \in Checks, CheckBegin(c) PROVE UNCHANGED <<flight, settled, airborne>>
  BY <1>7 DEF CheckBegin, timerVars
<1>. QED
  BY <1>1, <1>2, <1>3, <1>4, <1>5, <1>6, <1>7 DEF Next, Board, Check, vars, timerVars

LEMMA AirborneInvariant == Spec => []AirborneInv
<1>1. Init => AirborneInv
  BY Limits DEF Init, AirborneInv, Suspicion, NoRow, Never
<1>. QED
  BY <1>1, AirborneStep, TimersInvariant, PTL DEF Spec

(* The board that confirms a landing, and every board before it for the    *)
(* grace period less one session's wait, saw no aircraft in the air        *)
(* (_process_airport_states, _resolve_via_ceiling_or_grace).               *)
THEOREM GraceIsUnbroken == Spec => GraceUnbroken
<1>. DEFINE ConfirmingStep == \A b \in Boards : ConfirmsLanding(b) =>
              airborne' + MaxLatency >= LANDING_GRACE_PERIOD + now[b]
<1>1. TimersInv /\ AirborneInv /\ [Next]_vars => [ConfirmingStep]_vars
  <2>. SUFFICES ASSUME TimersInv, AirborneInv, Next, NEW b \in Boards, ConfirmsLanding(b)
                PROVE  airborne' + MaxLatency >= LANDING_GRACE_PERIOD + now[b]
    OBVIOUS
  <2>1. /\ SessionTypeOK /\ pc[b] = "calling" /\ pc'[b] = "idle" /\ b \in Sessions
        /\ settled = Unsettled /\ settled'.reason = LANDED_REASON /\ settled' # settled
    BY InvParts DEF ConfirmsLanding, Sessions, Unsettled, LANDED_REASON
  <2>2. ASSUME NEW t \in Sessions, t # b, EndSession(t) PROVE FALSE
    BY <2>1, <2>2 DEF EndSession, SessionTypeOK
  <2>3. BoardAnswer(b)
    <3>1. \/ \E t \in Boards : BoardAnswer(t)
          \/ \E t \in Checks : CheckAnswer(t)
      BY <2>1 DEF Next, Tick, Call, Abort, Board, Check, BoardBegin, BoardFailed, CheckBegin,
                  timerVars
    <3>2. b \notin Checks
      BY TimersAssumption
    <3>. QED
      BY <2>2, <3>1, <3>2 DEF BoardAnswer, CheckAnswer, Sessions
  <2>4. PICK q : Sweep(q, now[b]) /\ Suspicion(q, airborne')
    BY <2>1, <2>3, BoardSuspicion
  <2>5. q.landing_suspected_at - now[b] >= LANDING_GRACE_PERIOD
    BY <2>1, <2>4, SweepSettles DEF Grace, landing_grace_period_elapsed, minutes_since
  <2>6. q.landing_suspected_at <= airborne' + MaxLatency
    BY <2>4 DEF Suspicion
  <2>7. q.landing_suspected_at \in Int
    BY <2>4 DEF Suspicion
  <2>8. now[b] \in Int /\ airborne' \in Int
    BY <2>1, <2>3 DEF SessionTypeOK, BoardAnswer
  <2>. QED
    BY <2>5, <2>6, <2>7, <2>8, Limits
<1>. QED
  BY <1>1, TimersInvariant, AirborneInvariant, PTL DEF Spec, GraceUnbroken

(* What a rental pays.                                                     *)

(* Round is off by half a unit at most.                                    *)
LEMMA RoundIsNear ==
  ASSUME NEW n \in Nat, NEW d \in {100, 1000}
  PROVE  /\ Round(n, d) \in Nat
         /\ 2 * n - d <= 2 * d * Round(n, d)
         /\ 2 * d * Round(n, d) <= 2 * n + d
<1>1. CASE d = 100
  BY <1>1 DEF Round
<1>2. CASE d = 1000
  BY <1>2 DEF Round
<1>. QED
  BY <1>1, <1>2

(* A landing is worth least on the shortest of flights.                    *)
ThousandFold(fee, multiplier, duration) ==
  fee * DurationBucketMultiplier(duration) * multiplier

LEMMA LandingPaysAtLeast ==
  ASSUME NEW fee \in Nat, NEW multiplier \in Nat, multiplier >= 115, NEW duration \in Int
  PROVE  /\ ThousandFold(fee, multiplier, duration) \in Nat
         /\ ThousandFold(fee, multiplier, duration) >= 1380 * fee
<1>. DEFINE bucket == DurationBucketMultiplier(duration)
<1>1. bucket \in {12, 15, 20}
  <2>1. ShortHaul \in Int /\ MediumHaul \in Int
    BY BucketsAssumption
  <2>. QED
    BY <2>1 DEF DurationBucketMultiplier
<1>2. fee * multiplier \in Nat /\ fee * multiplier >= 115 * fee
  BY SMT
<1>3. ThousandFold(fee, multiplier, duration) = bucket * (fee * multiplier)
  BY <1>1 DEF ThousandFold
<1>. HIDE DEF bucket
<1>4. bucket * (fee * multiplier) \in Nat /\ bucket * (fee * multiplier) >= 1380 * fee
  BY <1>1, <1>2
<1>. QED
  BY <1>3, <1>4 DEF bucket

(* "Deliberately worse than any real landing outcome" (compute_settlement),*)
(* and still a profit: of any fee above 10, with any item whose multiplier *)
(* is at least 1.15, whatever the two flights' durations.                  *)
Lost(fee) == Round(fee * FallbackMultiplier, 100)
Landed(fee, multiplier, duration) == Round(ThousandFold(fee, multiplier, duration), 1000)

LEMMA RoundedBetween ==
  ASSUME NEW fee \in Nat, fee > 10, NEW multiplier \in Nat, multiplier >= 115,
         NEW duration \in Int
  PROVE  /\ Lost(fee) \in Nat /\ Landed(fee, multiplier, duration) \in Nat
         /\ Lost(fee) > fee /\ Lost(fee) < Landed(fee, multiplier, duration)
<1>. DEFINE lost == fee * FallbackMultiplier
            landed == ThousandFold(fee, multiplier, duration)
<1>1. lost \in Nat /\ lost = 105 * fee
  BY DEF FallbackMultiplier
<1>2. landed \in Nat /\ landed >= 1380 * fee
  BY LandingPaysAtLeast
<1>. HIDE DEF lost, landed
<1>3. /\ Round(lost, 100) \in Nat
      /\ 2 * lost - 100 <= 2 * 100 * Round(lost, 100)
      /\ 2 * 100 * Round(lost, 100) <= 2 * lost + 100
  BY <1>1, RoundIsNear
<1>4. /\ Round(landed, 1000) \in Nat
      /\ 2 * landed - 1000 <= 2 * 1000 * Round(landed, 1000)
  BY <1>2, RoundIsNear
<1>5. Round(lost, 100) > fee /\ Round(lost, 100) < Round(landed, 1000)
  BY <1>1, <1>2, <1>3, <1>4
<1>. QED
  BY <1>3, <1>4, <1>5 DEF lost, landed, Lost, Landed

LEMMA FallbackBetweenFeeAndLanding ==
  ASSUME NEW r, r.fee \in Nat, r.fee > 10, r.multiplier \in Nat, r.multiplier >= 115,
         NEW reason \in ResolutionReason \ {LANDED_REASON}, NEW e, NEW d \in Int
  PROVE  /\ compute_settlement(r, e, reason) > r.fee
         /\ compute_settlement(r, e, reason) < compute_settlement(r, d, LANDED_REASON)
<1>1. /\ Lost(r.fee) \in Nat /\ Landed(r.fee, r.multiplier, d) \in Nat
      /\ Lost(r.fee) > r.fee /\ Lost(r.fee) < Landed(r.fee, r.multiplier, d)
  BY RoundedBetween
<1>2. /\ compute_settlement(r, e, reason) = AtLeastOne(Lost(r.fee))
      /\ compute_settlement(r, d, LANDED_REASON) = AtLeastOne(Landed(r.fee, r.multiplier, d))
  BY DEF compute_settlement, ThousandFold, Lost, Landed
<1>. QED
  BY <1>1, <1>2 DEF AtLeastOne

(* The rentals that the API accepts have such fees and multipliers.        *)
LEMMA RentalsAreSuch ==
  ASSUME NEW r \in Rentals
  PROVE  r.fee \in Nat /\ r.fee > 10 /\ r.multiplier \in Nat /\ r.multiplier >= 115
<1>1. PICK i \in Items : i[1] = r.multiplier
  BY DEF Rentals
<1>2. r.fee \in Fees
  BY DEF Rentals
<1>. QED
  BY <1>1, <1>2 DEF Items, Fees

(* However a flight has been given up, each of its rentals got a profit,   *)
(* and less than a landing would have paid it.                             *)
THEOREM FallbackPaysLess == Spec => []FallbackIsWorse
<1>1. FallbackIsWorse
  BY FallbackBetweenFeeAndLanding, RentalsAreSuch, BucketsAssumption DEF FallbackIsWorse
<1>. QED
  BY <1>1, PTL
===============================================================================
