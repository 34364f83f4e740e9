CONSTANTS
  Port = "esp"
  MaxSlots = 2
  QueueMax = 1
  TaskIds = {t1, t2}
  EventNames = {e1}
  Schedules = {"event", "periodic"}
  Iterations = {1}
  Starters = {starter1, starter2}
  Emitters = {emitter}
  Stoppers = {stopper}
  NoId = NoId
  NoEvent = NoEvent
  MaxStarts = 2
  MaxEmits = 1
SYMMETRY Symmetric
SPECIFICATION Spec
INVARIANTS OneWorkerPerSlot ActiveMeansRunning HandleIsLive NoWakeupLostWithHandle
PROPERTIES ImplementsRegistry

