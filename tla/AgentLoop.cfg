SPECIFICATION Spec
CONSTANTS
  Turns = {a}
  Others <- MCOthers
  Tools = {"app.install", "task.start"}
  CallMax = 2
  Modes = {"stored", "stateless", "ephemeral"}
  Providers = {"codex", "openai"}
  Demands <- MCDemands
  MaxIterations = 3
  HistoryMax = 7
  ReadMax = 5
  Room = 6
  MaxLosses = 1
INVARIANTS ContextComplete DemandsRetried
PROPERTY TurnsEnd
CHECK_DEADLOCK FALSE
