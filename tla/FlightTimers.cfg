\* Throttles <= window <= grace; a suspicion counts from an age of 2 (>=), a signal is
\* lost from 3 and a flight too long from 4 (both >), in the order of the code.
CONSTANTS
  b1 = b1
  b2 = b2
  c1 = c1
  None = None
  Boards = {b1, b2}
  Checks = {c1}
  CAPACITY_WINDOW = 1
  LANDING_GRACE_PERIOD = 2
  LOST_SIGNAL_CEILING = 2
  MAX_FLIGHT_DURATION_CEILING = 3
  AIRPORT_POLL_MIN_INTERVAL = 1
  STATUS_CHECK_MIN_INTERVAL = 1
  MaxLatency = 1
  ShortHaul = 2
  MediumHaul = 3
SPECIFICATION FairSpec
INVARIANT TypeOK
INVARIANT DurationPlausible
INVARIANT FallbackIsWorse
PROPERTY LostIsUnheard
PROPERTY GraceUnbroken
PROPERTY FlightResolves
