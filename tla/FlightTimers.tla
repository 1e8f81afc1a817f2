----------------------------- MODULE FlightTimers -----------------------------
(***************************************************************************)
(* One tracked flight and the clock: the rental window, the grace period,  *)
(* the ceilings and the throttles, as board refreshes and landing checks   *)
(* run them on what adsb.fi reports.                                       *)
(*                                                                         *)
(* A session reads the clock once, then waits for adsb.fi, then writes     *)
(* with the time it had read.  What it does after its wait is one step     *)
(* here: FlightLifecycle takes those transactions apart.                   *)
(*                                                                         *)
(* A time stamp is kept as its age in ticks, up to a limit beyond which no *)
(* test tells ages apart; Never is NULL.  The time a session has read is   *)
(* an age too, so minutes_since(t, now) is t - now.                        *)
(*                                                                         *)
(* All calls to adsb.fi go through the lock of the one AdsbClient.  The    *)
(* second that it lets pass between two calls is less than a tick.         *)
(***************************************************************************)
EXTENDS AdsbReports, Settlement

CONSTANTS
  Boards, Checks,                      \* sessions: board refreshes, landing checks
  None,                                \* no session
  CAPACITY_WINDOW, LANDING_GRACE_PERIOD, LOST_SIGNAL_CEILING,
  MAX_FLIGHT_DURATION_CEILING, AIRPORT_POLL_MIN_INTERVAL,
  STATUS_CHECK_MIN_INTERVAL,           \* worker/thresholds.py, in ticks
  MaxLatency                           \* how long a session can wait for adsb.fi

Sessions == Boards \cup Checks

ASSUME TimersAssumption ==
  /\ Boards \cap Checks = {} /\ None \notin Sessions
  /\ {CAPACITY_WINDOW, LANDING_GRACE_PERIOD, LOST_SIGNAL_CEILING, AIRPORT_POLL_MIN_INTERVAL,
      STATUS_CHECK_MIN_INTERVAL, MAX_FLIGHT_DURATION_CEILING, MaxLatency} \subseteq Nat
  /\ MaxLatency <= LANDING_GRACE_PERIOD /\ MaxLatency <= LOST_SIGNAL_CEILING
  /\ \A t \in {CAPACITY_WINDOW, LANDING_GRACE_PERIOD, LOST_SIGNAL_CEILING,
               AIRPORT_POLL_MIN_INTERVAL, STATUS_CHECK_MIN_INTERVAL} :
       t <= MAX_FLIGHT_DURATION_CEILING

VARIABLES
  flight,     \* the flight's row: status and time stamps
  settled,    \* what its rentals were settled with
  polled,     \* last_polled_at of its airport
  checked,    \* last_status_check_at of the flight
  caller,     \* the session that has _rate_limit_lock of the AdsbClient
  heard,      \* when a report of the flight was last received, until it is settled
  airborne,   \* when a board last received one that looks like no landing
  pc, now,    \* where each session is, and the time it has read
  loaded      \* last_seen_at of the flight, as a landing check has loaded it

timerVars == <<flight, settled, polled, checked, heard, airborne>>
sessionVars == <<caller, pc, now, loaded>>
vars == <<timerVars, sessionVars>>

Larger(m, n) == IF m < n THEN n ELSE m

Old   == MAX_FLIGHT_DURATION_CEILING + MaxLatency + 1
Age   == 0 .. Old
SuspectedLimit == LANDING_GRACE_PERIOD + MaxLatency
PolledLimit    == Larger(AIRPORT_POLL_MIN_INTERVAL, MaxLatency)
CheckedLimit   == Larger(STATUS_CHECK_MIN_INTERVAL, MaxLatency)
Never == -1

OpenStatus     == {"AIRBORNE_OPEN", "AIRBORNE_LOCKED", "LANDING_SUSPECTED"}
ResolvedStatus == {"RESOLVED_LANDED", "RESOLVED_TIMEOUT", "RESOLVED_LOST_SIGNAL"}
Absent         == "absent"

Row == [status : OpenStatus \cup ResolvedStatus \cup {Absent},
        first_seen_at : Age, last_seen_at : Age, landing_suspected_at : Age \cup {Never}]
NoRow == [status |-> Absent, first_seen_at |-> 0, last_seen_at |-> 0,
          landing_suspected_at |-> Never]

Settlements == [reason : ResolutionReason, duration : -MaxLatency .. Old]
Unsettled == [reason |-> "null", duration |-> 0]

TypeOK ==
  /\ flight \in Row
  /\ settled \in Settlements \cup {Unsettled}
  /\ polled \in Age \cup {Never} /\ checked \in Age \cup {Never}
  /\ heard \in Age /\ airborne \in 0 .. LANDING_GRACE_PERIOD
  /\ caller \in Sessions \cup {None}
  /\ pc \in [Sessions -> {"idle", "queued", "calling"}]
  /\ now \in [Sessions -> 0 .. MaxLatency]
  /\ loaded \in [Sessions -> Age]
  /\ \A s \in Sessions : caller = s <=> pc[s] = "calling"

Init ==
  /\ caller = None
  /\ flight = NoRow /\ settled = Unsettled
  /\ polled = Never /\ checked = Never /\ heard = 0 /\ airborne = 0
  /\ pc = [s \in Sessions |-> "idle"]
  /\ now = [s \in Sessions |-> 0]
  /\ loaded = [s \in Sessions |-> 0]

-------------------------------------------------------------------------------
(* The tests on the clock, at the time n that a session has read.          *)

minutes_since(t, n) == t - n
window_elapsed(row, n) == minutes_since(row.first_seen_at, n) >= CAPACITY_WINDOW
duration_ceiling_breached(row, n) ==
  minutes_since(row.first_seen_at, n) > MAX_FLIGHT_DURATION_CEILING
lost_signal_ceiling_breachedFault(row, n) ==
  minutes_since(row.last_seen_at, n) >= LOST_SIGNAL_CEILING
lost_signal_ceiling_breached(row, n) ==
  minutes_since(row.last_seen_at, n) > LOST_SIGNAL_CEILING
landing_grace_period_elapsed(row, n) ==
  /\ row.landing_suspected_at # Never
  /\ minutes_since(row.landing_suspected_at, n) >= LANDING_GRACE_PERIOD

(* A stamp is due again if it is unset or an interval old.                 *)
Due(stamp, interval) == stamp = Never \/ minutes_since(stamp, 0) >= interval

-------------------------------------------------------------------------------
(* Each of the following gives the row and the settlement that become of   *)
(* row r and settlement d.                                                 *)

create_tracked_flight(n) ==
  [status |-> "AIRBORNE_OPEN", first_seen_at |-> n, last_seen_at |-> n,
   landing_suspected_at |-> Never]

record_sampleFault(r, n) == r
record_sample(r, n) == [r EXCEPT !.last_seen_at = n]

(* The branches of _process_airport_states on a reported aircraft.         *)
SampledFault(r, report, n) ==
  LET seen == record_sample(r, n) IN
  CASE r.status = "AIRBORNE_OPEN" /\ window_elapsed(r, n) ->
         [seen EXCEPT !.status = "AIRBORNE_LOCKED"]
    [] r.status = "AIRBORNE_LOCKED" /\ report.landing ->
         [seen EXCEPT !.status = "LANDING_SUSPECTED", !.landing_suspected_at = n]
    [] OTHER -> seen
Sampled(r, report, n) ==
  LET seen == record_sample(r, n) IN
  CASE r.status = "AIRBORNE_OPEN" /\ window_elapsed(r, n) ->
         [seen EXCEPT !.status = "AIRBORNE_LOCKED"]
    [] r.status = "AIRBORNE_LOCKED" /\ report.landing ->
         [seen EXCEPT !.status = "LANDING_SUSPECTED", !.landing_suspected_at = n]
    [] r.status = "LANDING_SUSPECTED" /\ ~report.landing ->
         [seen EXCEPT !.status = "AIRBORNE_LOCKED", !.landing_suspected_at = Never]
    [] OTHER -> seen

(* A further takeoff of the aircraft, once the flight is resolved, would   *)
(* be another flight.                                                      *)
Reported(r, report, n) ==
  CASE r.status = Absent /\ report.takeoff  -> create_tracked_flight(n)
    [] r.status = Absent /\ ~report.takeoff -> r
    [] r.status \in OpenStatus              -> Sampled(r, report, n)
    [] r.status \in ResolvedStatus          -> r

(* resolve_tracked_flight settles the rentals that are not settled yet.    *)
Resolve(r, status, reason, n) ==
  /\ flight' = [r EXCEPT !.status = status]
  /\ settled' = IF settled = Unsettled
                THEN [reason |-> reason, duration |-> minutes_since(r.first_seen_at, n)]
                ELSE settled

Keep(r) == flight' = r /\ UNCHANGED settled

(* _resolve_via_ceiling_or_grace                                           *)
Grace(r, n) == r.status = "LANDING_SUSPECTED" /\ landing_grace_period_elapsed(r, n)

SweepFault(r, n) ==
  \/ r.status \notin OpenStatus /\ Keep(r)
  \/ /\ r.status \in OpenStatus
     /\ \/ lost_signal_ceiling_breached(r, n)
           /\ Resolve(r, "RESOLVED_LOST_SIGNAL", LOST_SIGNAL_REASON, n)
        \/ ~lost_signal_ceiling_breached(r, n) /\ Keep(r)
Sweep(r, n) ==
  \/ r.status \notin OpenStatus /\ Keep(r)
  \/ /\ r.status \in OpenStatus
     /\ \/ Grace(r, n) /\ Resolve(r, "RESOLVED_LANDED", LANDED_REASON, n)
        \/ /\ ~Grace(r, n) /\ duration_ceiling_breached(r, n)
           /\ Resolve(r, "RESOLVED_TIMEOUT", TIMEOUT_REASON, n)
        \/ /\ ~Grace(r, n) /\ ~duration_ceiling_breached(r, n)
           /\ lost_signal_ceiling_breached(r, n)
           /\ Resolve(r, "RESOLVED_LOST_SIGNAL", LOST_SIGNAL_REASON, n)
        \/ /\ ~Grace(r, n) /\ ~duration_ceiling_breached(r, n)
           /\ ~lost_signal_ceiling_breached(r, n) /\ Keep(r)

-------------------------------------------------------------------------------
(* Sessions.                                                               *)

Goto(s, from, to) == pc[s] = from /\ pc' = [pc EXCEPT ![s] = to]

(* _throttled_get: the call starts with the lock and ends with its release,*)
(* whether adsb.fi has answered or not.                                    *)
Call(s) ==
  /\ Goto(s, "queued", "calling")
  /\ caller = None
  /\ caller' = s
  /\ UNCHANGED <<timerVars, now, loaded>>

ReleaseLockFault(s) == UNCHANGED caller
ReleaseLock(s) == caller = s /\ caller' = None

(* The session ends; what it knew is forgotten.                            *)
EndSession(s) ==
  /\ pc' = [pc EXCEPT ![s] = "idle"]
  /\ now' = [now EXCEPT ![s] = 0]
  /\ loaded' = [loaded EXCEPT ![s] = 0]

(* adsb.fi answers a check with an error status, or a connection is lost:  *)
(* the session fails and nothing is committed.                             *)
Abort(s) ==
  /\ pc[s] = "calling"
  /\ ReleaseLock(s)
  /\ EndSession(s)
  /\ UNCHANGED timerVars

(* refresh_board_for_airports                                              *)
BoardBegin(b) ==
  /\ Goto(b, "idle", "queued")
  /\ Due(polled, AIRPORT_POLL_MIN_INTERVAL)
  /\ now' = [now EXCEPT ![b] = 0]
  /\ UNCHANGED <<caller, timerVars, loaded>>

(* adsb.fi has answered: with a report of the aircraft, or without one, be *)
(* it out of range or the answer a 429.                                    *)
BoardAnswer(b) ==
  /\ pc[b] = "calling"
  /\ ReleaseLock(b)
  /\ \/ Sweep(flight, now[b]) /\ UNCHANGED <<heard, airborne>>
     \/ \E report \in Reports :
          /\ Sweep(Reported(flight, report, now[b]), now[b])
          /\ heard' = 0
          /\ airborne' = IF report.landing THEN airborne ELSE 0
  /\ polled' = now[b]
  /\ EndSession(b)
  /\ UNCHANGED checked

(* The query raised: the airport counts as polled and is not swept.        *)
BoardFailed(b) ==
  /\ pc[b] = "calling"
  /\ ReleaseLock(b)
  /\ polled' = now[b]
  /\ EndSession(b)
  /\ UNCHANGED <<flight, settled, checked, heard, airborne>>

(* refresh_flight_status                                                   *)
CheckBegin(c) ==
  /\ Goto(c, "idle", "queued")
  /\ flight.status \in OpenStatus
  /\ Due(checked, STATUS_CHECK_MIN_INTERVAL)
  /\ now' = [now EXCEPT ![c] = 0]
  /\ loaded' = [loaded EXCEPT ![c] = flight.last_seen_at]
  /\ UNCHANGED <<caller, timerVars>>

(* The ceilings are tested on the stamps as loaded (first_seen_at never    *)
(* changes); what is written goes over the row as it is by then.           *)
CheckLanded(c, n) ==
  /\ Resolve(flight, "RESOLVED_LANDED", LANDED_REASON, n)
  /\ heard' = 0
CheckAirborne(c, n) ==
  /\ \/ /\ duration_ceiling_breached(flight, n)
        /\ Resolve(record_sample(flight, n), "RESOLVED_TIMEOUT", TIMEOUT_REASON, n)
     \/ ~duration_ceiling_breached(flight, n) /\ Keep(record_sample(flight, n))
  /\ heard' = 0
CheckUnreported(c, n) ==
  /\ \/ /\ duration_ceiling_breached(flight, n)
        /\ Resolve(flight, "RESOLVED_TIMEOUT", TIMEOUT_REASON, n)
     \/ /\ ~duration_ceiling_breached(flight, n)
        /\ minutes_since(loaded[c], n) > LOST_SIGNAL_CEILING
        /\ Resolve(flight, "RESOLVED_LOST_SIGNAL", LOST_SIGNAL_REASON, n)
     \/ /\ ~duration_ceiling_breached(flight, n)
        /\ minutes_since(loaded[c], n) <= LOST_SIGNAL_CEILING
        /\ Keep(flight)
  /\ UNCHANGED heard

CheckAnswer(c) ==
  /\ pc[c] = "calling"
  /\ ReleaseLock(c)
  /\ CheckLanded(c, now[c]) \/ CheckAirborne(c, now[c]) \/ CheckUnreported(c, now[c])
  /\ checked' = now[c]
  /\ EndSession(c)
  /\ UNCHANGED <<polled, airborne>>
-------------------------------------------------------------------------------
(* A tick of the clock.  None passes a session that has waited MaxLatency. *)
Older(t, limit) == IF t # Never /\ t < limit THEN t + 1 ELSE t
OlderRow(r) ==
  IF r.status = Absent THEN r
  ELSE [r EXCEPT !.first_seen_at = Older(@, Old), !.last_seen_at = Older(@, Old),
                 !.landing_suspected_at = Older(@, SuspectedLimit)]

Tick ==
  /\ \A s \in Sessions : pc[s] # "idle" => now[s] < MaxLatency
  /\ flight' = OlderRow(flight)
  /\ polled' = Older(polled, PolledLimit) /\ checked' = Older(checked, CheckedLimit)
  /\ heard' = IF settled = Unsettled THEN Older(heard, Old) ELSE 0
  /\ airborne' = IF settled = Unsettled /\ flight.status # Absent
                 THEN Older(airborne, LANDING_GRACE_PERIOD) ELSE 0
  /\ now' = [s \in Sessions |-> IF pc[s] = "idle" THEN 0 ELSE now[s] + 1]
  /\ loaded' = [s \in Sessions |-> IF pc[s] = "idle" THEN 0 ELSE Older(loaded[s], Old)]
  /\ UNCHANGED <<caller, settled, pc>>

Board(b) == BoardBegin(b) \/ BoardAnswer(b) \/ BoardFailed(b)
Check(c) == CheckBegin(c) \/ CheckAnswer(c)

Next ==
  \/ Tick
  \/ \E s \in Sessions : Call(s) \/ Abort(s)
  \/ \E b \in Boards : Board(b)
  \/ \E c \in Checks : Check(c)

(* Time passes.  A call gets its turn (asyncio.Lock is first come first    *)
(* served) and ends (httpx has a timeout).  Somebody keeps loading the     *)
(* board, and not every one of its queries fails.                          *)
Fairness ==
  /\ WF_vars(Tick)
  /\ \A s \in Sessions : SF_vars(Call(s))
  /\ \A c \in Checks : WF_vars(CheckAnswer(c) \/ Abort(c))
  /\ \A b \in Boards : /\ WF_vars(BoardBegin(b))
                       /\ WF_vars(BoardAnswer(b) \/ BoardFailed(b) \/ Abort(b))
                       /\ SF_vars(BoardAnswer(b))

Spec == Init /\ [][Next]_vars
FairSpec == Spec /\ Fairness
-------------------------------------------------------------------------------
(* Properties.                                                             *)

(* Whatever times the sessions had read, a settlement is computed from a   *)
(* duration that the flight can have had: a lost flight was out at least   *)
(* for the ceiling, less one session's wait; a timed out one for more than *)
(* its ceiling; and no landing has a negative duration, although a slow    *)
(* board may stamp a flight with a time from before it was first seen.     *)
(* (resolved_at - first_seen_at in resolve_tracked_flight.)                *)
DurationPlausible ==
  /\ settled.duration >= 0
  /\ settled.reason = TIMEOUT_REASON => settled.duration > MAX_FLIGHT_DURATION_CEILING
  /\ settled.reason = LOST_SIGNAL_REASON =>
       settled.duration > LOST_SIGNAL_CEILING - MaxLatency

(* A fallback pays every rental a profit, and less than any landing would  *)
(* have paid it, however short ("deliberately worse than any real landing  *)
(* outcome", compute_settlement).                                          *)
FallbackIsWorse ==
  settled.reason \in ResolutionReason \ {LANDED_REASON} =>
    \A r \in Rentals : \A d \in {0, ShortHaul, MediumHaul} :
      /\ compute_settlement(r, settled.duration, settled.reason) > r.fee
      /\ compute_settlement(r, settled.duration, settled.reason)
           < compute_settlement(r, d, LANDED_REASON)

(* Rentals are settled as lost only if no report of the flight had been    *)
(* received for the ceiling, less one session's wait; the exception is a   *)
(* report that came in while the session that settles them was waiting.    *)
(* (The stamps are older than the reports, and a check has loaded them     *)
(* before its wait.)                                                       *)
SettlesLost(s) ==
  pc[s] = "calling" /\ pc'[s] = "idle" /\ settled = Unsettled
  /\ settled'.reason = LOST_SIGNAL_REASON
LostIsUnheard ==
  [][\A s \in Sessions : SettlesLost(s) =>
       heard > LOST_SIGNAL_CEILING - MaxLatency \/ heard <= now[s]]_vars

(* A board confirms a landing only if no board had received a report of    *)
(* the aircraft in the air for the grace period, less one session's wait:  *)
(* a suspicion that was ruled out never counts, although a slow board may  *)
(* suspect again with a time from before it was.  (A landing check that    *)
(* sees the aircraft in the air rules nothing out: it only records.)       *)
ConfirmsLanding(b) ==
  pc[b] = "calling" /\ pc'[b] = "idle" /\ settled = Unsettled
  /\ settled'.reason = LANDED_REASON
GraceUnbroken ==
  [][\A b \in Boards : ConfirmsLanding(b) =>
       airborne' + MaxLatency >= LANDING_GRACE_PERIOD + now[b]]_vars

(* Every flight is resolved and its rentals settled, whatever is reported  *)
(* of it and whatever fails, as long as somebody keeps loading the board.  *)
(* ("Ceilings that guarantee every tracked flight eventually resolves")    *)
FlightResolves == flight.status \in OpenStatus ~> settled # Unsettled

(* The rental window: how long a flight "stays open (capacity rentable)    *)
(* before locking".                                                        *)
WindowCloses ==
  [][\A b \in Boards :
       BoardAnswer(b) /\ flight.status = "AIRBORNE_OPEN" /\ window_elapsed(flight, now[b])
       => flight'.status # "AIRBORNE_OPEN"]_vars
===============================================================================
