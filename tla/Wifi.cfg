CONSTANTS
  Callers = {c1, c2}
  Credentials = {right, wrong}
  Valid = {right}
  Erased = Erased
  MaxJoins = 2
  MaxFaults = 1
  MaxOutages = 1
  MaxRestarts = 2
SPECIFICATION WifiSpec
CHECK_DEADLOCK FALSE
INVARIANTS UnconfiguredIsOnboarding NetworkStatusTrue
PROPERTIES StationReturns
