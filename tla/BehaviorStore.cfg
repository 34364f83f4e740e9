CONSTANTS
  Clients = {c1, c2}
  Ids = {i1, i2}
  Specs = {manual, auto}
  AutoSpecs = {auto}
  NoSpec = NoSpec
  TornSpec = TornSpec
  Unknown = Unknown
  MaxCalls = 3
  MaxLapses = 1
  MaxRestarts = 1
SPECIFICATION BehaviorSpec
SYMMETRY Symmetric
CHECK_DEADLOCK FALSE
INVARIANTS AckedIsStored BootStartsSaved RemovedStaysDown
