SPECIFICATION HistorySpec
CONSTANTS
  home = home
  away = away
  family = family
  u1 = u1
  r1 = r1
  s1 = s1
  s2 = s2
  None = None
  Users = {u1}
  Airports = {home, away}
  Licences = {away, family}
  StarterCrew = {home}
  Rentals = {r1}
  OwnerOf <- MCOwnerOf
  Sessions = {s1, s2}
  SIGNUP_BONUS_CREDITS = 6
  CREW_BASE_COST_CREDITS = 1
  RentalFee = 1
  SettlementCredits = 2
  UnlockCost <- MCUnlockCost
  MaxEntries = 4
INVARIANT BalanceIsLedgerSum
CHECK_DEADLOCK FALSE
