SPECIFICATION Spec
CONSTANTS
  a1 = a1
  a2 = a2
  x1 = x1
  f1 = f1
  f2 = f2
  r1 = r1
  r2 = r2
  u1 = u1
  s1 = s1
  s2 = s2
  None = None
  Airports = {a1}
  Aircraft = {x1}
  Flights = {f1}
  Rentals = {r1}
  Users = {u1}
  Sessions = {s1, s2}
  Icao24 <- MCIcao24
  Origin <- MCOrigin
  FlightOf <- MCFlightOf
  OwnerOf <- MCOwnerOf
  CrewCount <- OneCrew
SYMMETRY MCSymmetry
INVARIANTS
  CreditedOnce
