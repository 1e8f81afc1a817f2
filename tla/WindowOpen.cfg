CONSTANTS
  b1 = b1
  c1 = c1
  None = None
  Boards = {b1}
  Checks = {c1}
  CAPACITY_WINDOW = 1
  LANDING_GRACE_PERIOD = 1
  LOST_SIGNAL_CEILING = 2
  MAX_FLIGHT_DURATION_CEILING = 4
  AIRPORT_POLL_MIN_INTERVAL = 1
  STATUS_CHECK_MIN_INTERVAL = 1
  MaxLatency = 1
  ShortHaul = 2
  MediumHaul = 3
SPECIFICATION Spec
PROPERTY WindowCloses
