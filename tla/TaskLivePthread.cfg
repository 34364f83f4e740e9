CONSTANTS
  Port = "pthread"
  MaxSlots = 1
  QueueMax = 2
  TaskIds = {t1}
  EventNames = {e1}
  Schedules = {"event", "periodic"}
  Iterations = {0, 2}
  Starters = {starter}
  Emitters = {emitter}
  Stoppers = {stopper}
  NoId = NoId
  NoEvent = NoEvent
  MaxStarts = 2
  MaxEmits = 4
SPECIFICATION FairSpec
INVARIANTS EventsInOrder
PROPERTIES StopHonoured EventsTakenUp
