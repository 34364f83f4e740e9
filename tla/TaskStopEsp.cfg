CONSTANTS
  Port = "esp"
  MaxSlots = 1
  QueueMax = 2
  TaskIds = {t1}
  EventNames = {e1}
  Schedules = {"event"}
  Iterations = {0}
  Starters = {starter}
  Emitters = {}
  Stoppers = {stopper}
  NoId = NoId
  NoEvent = NoEvent
  MaxStarts = 2
  MaxEmits = 0
SPECIFICATION FairSpec
PROPERTIES StopHonoured
