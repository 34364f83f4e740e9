CONSTANTS
  Callers = {c1, c2}
  NSlots = 2
  Watches <- WatchesValue
  Levels = {0, 1}
  Channels = {0, 1}
  NoName = ""
  MaxCalls = 3
  MaxMoves = 2
SPECIFICATION WatchSpec
INVARIANTS AddedIsWatched
PROPERTIES CrossingsAreReal
PROPERTY CrossingsAreHeard
