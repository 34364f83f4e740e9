CONSTANTS
  Requesters = {poller, console}
  Poller = poller
  Worker = worker
  None = None
  MaxRequests = 3
  MaxTyped = 1
  MaxUpdates = 3
  MaxRestarts = 1
  Held = 2
  MaxReplies = 1
SPECIFICATION Spec
INVARIANTS AnswerIsOwn ForgottenWasHandled RepeatsHaveACause
PROPERTY MessagesHandled
