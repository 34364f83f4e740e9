----------------------------- MODULE TaskRuntime ----------------------------
(***************************************************************************)
(* The task runtime (task_runtime.c): a table of slots, each of which may  *)
(* hold one background task, a worker thread per started task, and the     *)
(* threads that start tasks, stop them and emit events to them.            *)
(*                                                                         *)
(* A step is a maximal piece of code that runs under a slot's lock, or one *)
(* unlocked read or write of shared state; between two steps of a thread   *)
(* every other thread may run.  Both concurrent ports are modelled: on     *)
(* "esp" a worker sleeps in ulTaskNotifyTake and is woken through the task *)
(* handle kept in its slot, on "pthread" it sleeps on the slot's condition *)
(* variable.                                                               *)
(*                                                                         *)
(* Abstractions.  Time is left out: a periodic worker may always take its  *)
(* next step.  The Lua step of a worker (espclaw_app_vm_step) succeeds or  *)
(* fails; a handler that itself emits events is one more emitting thread.  *)
(* An unbounded task's iteration counter is not advanced, since no         *)
(* decision reads it.  Events carry their name and a number, both history: *)
(* the code queues only the payload.                                       *)
(***************************************************************************)
EXTENDS Naturals, Sequences

CONSTANTS
  Port,        \* "esp" or "pthread"
  MaxSlots,    \* ESPCLAW_TASK_RUNTIME_MAX
  QueueMax,    \* payloads a slot can hold
  TaskIds, EventNames,
  Schedules,   \* the schedules callers ask for, of "event" and "periodic"
  Iterations,  \* the values of max_iterations callers ask for; 0 is unlimited
  Starters,    \* threads that call espclaw_task_start_with_schedule
  Emitters,    \* threads that call espclaw_task_emit_event
  Stoppers,    \* threads that call espclaw_task_stop or _shutdown_all
  NoId,        \* the empty task_id of a slot never used
  NoEvent,
  MaxStarts,   \* bound: starts that pick a slot in a behaviour
  MaxEmits     \* bound: events emitted in a behaviour

ASSUME TaskRuntimeAssumption ==
  /\ Port \in {"esp", "pthread"}
  /\ MaxSlots \in Nat \ {0} /\ QueueMax \in Nat \ {0}
  /\ Schedules \subseteq {"event", "periodic"}
  /\ Iterations \subseteq Nat
  /\ MaxStarts \in Nat /\ MaxEmits \in Nat
  /\ NoId \notin TaskIds
  /\ Starters \cap Emitters = {} /\ Starters \cap Stoppers = {} /\ Emitters \cap Stoppers = {}

Slots == 1 .. MaxSlots
Callers == Starters \cup Emitters \cup Stoppers
Workers == 1 .. MaxStarts    \* a worker is named by the start that created it
NoTask == 0                  \* a NULL task handle
Events == [name : EventNames, n : 1 .. MaxEmits]

VARIABLES
  status,   \* slot -> the fields of espclaw_task_status_t that control reads
  pending,  \* slot -> the payloads in its ring, as the queue PendingRing implements
  handle,   \* slot -> slot->task, the handle of the worker to notify (esp)
  owner,    \* slot -> the start that armed it last (history)
  worker,   \* worker -> its program counter and locals
  token,    \* worker -> its FreeRTOS notification count, as zero or not
  caller,   \* caller -> its program counter and locals
  starts,   \* starts that picked a slot so far
  emits,    \* events emitted so far
  contested \* slots two starts picked at once, until they are at rest (history)

vars == <<status, pending, handle, owner, worker, token, caller, starts, emits, contested>>

Queue == INSTANCE PendingQueue WITH queue <- pending, Payloads <- Events

-----------------------------------------------------------------------------
(* The data.                                                               *)

Blank == [id |-> NoId, trigger |-> NoId, schedule |-> "none", max |-> 0, iterations |-> 0,
          active |-> FALSE, completed |-> FALSE, stop |-> FALSE]

Statuses ==
  [id : TaskIds \cup {NoId}, trigger : EventNames \cup {NoId},
   schedule : Schedules \cup {"none"}, max : Iterations \cup {0}, iterations : Nat,
   active : BOOLEAN, completed : BOOLEAN, stop : BOOLEAN]

Requests == [id : TaskIds, trigger : EventNames, schedule : Schedules, max : Iterations]

IdleCaller == [pc |-> "idle", slot |-> 1, request |-> NoEvent, target |-> NoTask]

NewWorker == [pc |-> "none", slot |-> 1, event |-> NoEvent, isEvent |-> FALSE, completed |-> 0]

\* The least slot of a set, as a set: empty if there is none.
First(S) == {s \in S : \A t \in S : s <= t}

\* find_task_index looks for the first of these.
SlotsOf(id) == {s \in Slots : status[s].id = id}

\* find_free_task_index looks for the first of these.
FreeSlots == {s \in Slots : ~status[s].active}

\* Mutant of Picked: the test of active is missing.
Picked_ActiveNotTested(id) ==
  IF SlotsOf(id) # {} THEN First(SlotsOf(id)) ELSE First(FreeSlots)

\* The slot espclaw_task_start_with_schedule picks for id, if it picks one.
Picked(id) ==
  IF SlotsOf(id) # {} THEN First(SlotsOf(id)) \cap FreeSlots ELSE First(FreeSlots)

Matches(s, name) ==
  status[s].active /\ status[s].schedule = "event" /\ status[s].trigger = name

Goto(c, pc) == caller' = [caller EXCEPT ![c].pc = pc]

\* A caller that walks the table goes on with the next slot, or returns.
NextSlot(c, pc) ==
  LET next == [caller[c] EXCEPT !.pc = pc, !.slot = caller[c].slot + 1, !.target = NoTask]
  IN  caller' = [caller EXCEPT ![c] = IF next.slot \in Slots THEN next ELSE IdleCaller]

\* The worker has not yet finished its task in the table.
Running(w) == worker[w].pc \in {"open", "loop", "wait", "blocked", "step", "finish"}

\* Other starts that picked slot s and have not armed it, or have armed it.
Rivals(c, s, pcs) == {d \in Starters \ {c} : caller[d].pc \in pcs /\ caller[d].slot = s}

\* History: a slot is contested from when a start picks it while another has picked
\* it, until a start picks it again and nothing is left of the earlier ones.
Contest(c, s) ==
  IF Rivals(c, s, {"claim"}) # {} THEN contested \cup {s}
  ELSE IF Rivals(c, s, {"create"}) # {} \/ \E w \in Workers : Running(w) /\ worker[w].slot = s
    THEN contested
    ELSE contested \ {s}

-----------------------------------------------------------------------------
(* espclaw_task_start_with_schedule.                                       *)

\* The searches, which hold no lock: the chosen slot is only remembered.
StartPick(c) ==
  /\ caller[c].pc = "idle"
  /\ starts < MaxStarts
  /\ starts' = starts + 1
  /\ \E r \in Requests : \E s \in Picked(r.id) :
       /\ caller' = [caller EXCEPT ![c] =
            [pc |-> "claim", slot |-> s, request |-> r, target |-> starts + 1]]
       /\ contested' = Contest(c, s)
  /\ UNCHANGED <<status, pending, handle, owner, worker, token, emits>>

\* Mutant of StartClaim: the ring of the slot is not emptied.
StartClaim_KeepsPending(c) ==
  /\ caller[c].pc = "claim"
  /\ LET s == caller[c].slot
         r == caller[c].request
     IN  /\ status' = [status EXCEPT ![s] =
              [Blank EXCEPT !.id = r.id, !.trigger = r.trigger, !.schedule = r.schedule,
                            !.max = r.max, !.active = TRUE]]
         /\ owner' = [owner EXCEPT ![s] = caller[c].target]
  /\ Goto(c, "create")
  /\ UNCHANGED <<pending, handle, worker, token, starts, emits, contested>>

\* The critical section that clears the slot and arms it.
StartClaim(c) ==
  /\ caller[c].pc = "claim"
  /\ LET s == caller[c].slot
         r == caller[c].request
     IN  /\ status' = [status EXCEPT ![s] =
              [Blank EXCEPT !.id = r.id, !.trigger = r.trigger, !.schedule = r.schedule,
                            !.max = r.max, !.active = TRUE]]
         /\ pending' = [pending EXCEPT ![s] = <<>>]
         /\ owner' = [owner EXCEPT ![s] = caller[c].target]
  /\ Goto(c, "create")
  /\ UNCHANGED <<handle, worker, token, starts, emits, contested>>

\* The worker thread is created, and on esp its handle stored in the slot.
StartCreate(c) ==
  /\ caller[c].pc = "create"
  /\ LET s == caller[c].slot
         w == caller[c].target
     IN  /\ worker' = [worker EXCEPT ![w] = [NewWorker EXCEPT !.pc = "open", !.slot = s]]
         /\ handle' = IF Port = "esp" THEN [handle EXCEPT ![s] = w] ELSE handle
  /\ caller' = [caller EXCEPT ![c] = IdleCaller]
  /\ UNCHANGED <<status, pending, owner, token, starts, emits, contested>>

\* Mutant of StartCreateFails: the slot stays armed.
StartCreateFails_StaysActive(c) ==
  /\ caller[c].pc = "create"
  /\ caller' = [caller EXCEPT ![c] = IdleCaller]
  /\ UNCHANGED <<status, pending, handle, owner, worker, token, starts, emits, contested>>

\* No thread could be created: esp clears the status, pthread only active.
StartCreateFails(c) ==
  /\ caller[c].pc = "create"
  /\ LET s == caller[c].slot
     IN  status' = [status EXCEPT ![s] = IF Port = "esp" THEN Blank ELSE [@ EXCEPT !.active = FALSE]]
  /\ caller' = [caller EXCEPT ![c] = IdleCaller]
  /\ UNCHANGED <<pending, handle, owner, worker, token, starts, emits, contested>>

-----------------------------------------------------------------------------
(* notify_task_worker, called by stop, shutdown and emit: slot->task is    *)
(* tested and then used, without the lock.                                 *)

NotifyPcs == {"stopNotify", "shutdownNotify", "pushNotify"}

\* slot->task was found not to be NULL: the caller goes on to use it.
NotifyFound(c) ==
  /\ Port = "esp"
  /\ caller[c].pc \in NotifyPcs /\ caller[c].target = NoTask
  /\ handle[caller[c].slot] # NoTask
  /\ caller' = [caller EXCEPT ![c].target = handle[caller[c].slot]]
  /\ UNCHANGED <<status, pending, handle, owner, worker, token, starts, emits, contested>>

\* slot->task is NULL: nobody is notified.
NotifyNobody(c) ==
  /\ Port = "esp"
  /\ caller[c].target = NoTask /\ handle[caller[c].slot] = NoTask
  /\ UNCHANGED <<worker, token>>

\* xTaskNotifyGive of the handle that was found or, when the compiler reads it
\* again, of what slot->task is now.  Given to NULL or to a task that has deleted
\* itself it is undefined; here it then changes nothing of the runtime's state.
NotifyGive(c) ==
  /\ Port = "esp"
  /\ caller[c].target # NoTask
  /\ \E h \in {caller[c].target, handle[caller[c].slot]} :
       token' = [w \in Workers |-> token[w] \/ w = h]
  /\ UNCHANGED worker

\* A signal of the condition variable wakes one of the threads blocked on it.
NotifySignal(c) ==
  /\ Port = "pthread"
  /\ LET blocked == {w \in Workers : worker[w].pc = "blocked" /\ worker[w].slot = caller[c].slot}
     IN  IF blocked = {} THEN UNCHANGED worker
         ELSE \E w \in blocked : worker' = [worker EXCEPT ![w].pc = "wait"]
  /\ UNCHANGED token

\* The last step of notify_task_worker.
Notify(c) == NotifyNobody(c) \/ NotifyGive(c) \/ NotifySignal(c)

-----------------------------------------------------------------------------
(* espclaw_task_stop and espclaw_task_shutdown_all.                        *)

\* find_task_index without the lock.
StopFind(c) ==
  /\ caller[c].pc = "idle"
  /\ \E id \in TaskIds : \E s \in First(SlotsOf(id)) :
       caller' = [caller EXCEPT ![c] =
         [pc |-> "stop", slot |-> s, request |-> id, target |-> NoTask]]
  /\ UNCHANGED <<status, pending, handle, owner, worker, token, starts, emits, contested>>

\* Mutant of StopRequest: nobody is notified.
StopRequest_NoNotify(c) ==
  /\ caller[c].pc = "stop"
  /\ status' = [status EXCEPT ![caller[c].slot].stop = TRUE]
  /\ caller' = [caller EXCEPT ![c] = IdleCaller]
  /\ UNCHANGED <<pending, handle, owner, worker, token, starts, emits, contested>>

StopRequest(c) ==
  /\ caller[c].pc = "stop"
  /\ status' = [status EXCEPT ![caller[c].slot].stop = TRUE]
  /\ Goto(c, "stopNotify")
  /\ UNCHANGED <<pending, handle, owner, worker, token, starts, emits, contested>>

StopNotify(c) ==
  /\ caller[c].pc = "stopNotify"
  /\ Notify(c)
  /\ caller' = [caller EXCEPT ![c] = IdleCaller]
  /\ UNCHANGED <<status, pending, handle, owner, starts, emits, contested>>

ShutdownBegin(c) ==
  /\ caller[c].pc = "idle"
  /\ caller' = [caller EXCEPT ![c] = [IdleCaller EXCEPT !.pc = "shutdown"]]
  /\ UNCHANGED <<status, pending, handle, owner, worker, token, starts, emits, contested>>

ShutdownSkip(c) ==
  /\ caller[c].pc = "shutdown"
  /\ status[caller[c].slot].id = NoId
  /\ NextSlot(c, "shutdown")
  /\ UNCHANGED <<status, pending, handle, owner, worker, token, starts, emits, contested>>

ShutdownRequest(c) ==
  /\ caller[c].pc = "shutdown"
  /\ status[caller[c].slot].id # NoId
  /\ status' = [status EXCEPT ![caller[c].slot].stop = TRUE]
  /\ Goto(c, "shutdownNotify")
  /\ UNCHANGED <<pending, handle, owner, worker, token, starts, emits, contested>>

ShutdownNotify(c) ==
  /\ caller[c].pc = "shutdownNotify"
  /\ Notify(c)
  /\ NextSlot(c, "shutdown")
  /\ UNCHANGED <<status, pending, handle, owner, starts, emits, contested>>

-----------------------------------------------------------------------------
(* espclaw_task_emit_event: the slots are visited in order; the test of    *)
(* a slot holds no lock, the push does not repeat the test.                *)

EmitBegin(c) ==
  /\ caller[c].pc = "idle"
  /\ emits < MaxEmits
  /\ emits' = emits + 1
  /\ \E name \in EventNames :
       caller' = [caller EXCEPT ![c] =
         [pc |-> "emit", slot |-> 1, request |-> [name |-> name, n |-> emits + 1], target |-> NoTask]]
  /\ UNCHANGED <<status, pending, handle, owner, worker, token, starts, contested>>

EmitSkip(c) ==
  /\ caller[c].pc = "emit"
  /\ ~Matches(caller[c].slot, caller[c].request.name)
  /\ NextSlot(c, "emit")
  /\ UNCHANGED <<status, pending, handle, owner, worker, token, starts, emits, contested>>

EmitMatch(c) ==
  /\ caller[c].pc = "emit"
  /\ Matches(caller[c].slot, caller[c].request.name)
  /\ Goto(c, "push")
  /\ UNCHANGED <<status, pending, handle, owner, worker, token, starts, emits, contested>>

\* Mutant of EmitPush: a full ring loses its oldest payload to the new one.
EmitPush_OverwritesOldest(c) ==
  /\ caller[c].pc = "push"
  /\ pending' = [pending EXCEPT ![caller[c].slot] =
       IF Len(@) < QueueMax THEN Append(@, caller[c].request) ELSE [@ EXCEPT ![1] = caller[c].request]]
  /\ Goto(c, "pushNotify")
  /\ UNCHANGED <<status, handle, owner, worker, token, starts, emits, contested>>

EmitPush(c) ==
  /\ caller[c].pc = "push"
  /\ pending' = [pending EXCEPT ![caller[c].slot] = Queue!Pushed(@, caller[c].request)]
  /\ Goto(c, "pushNotify")
  /\ UNCHANGED <<status, handle, owner, worker, token, starts, emits, contested>>

\* Mutant of EmitNotify: the worker is not notified.
EmitNotify_Silent(c) ==
  /\ caller[c].pc = "pushNotify"
  /\ NextSlot(c, "emit")
  /\ UNCHANGED <<status, pending, handle, owner, worker, token, starts, emits, contested>>

EmitNotify(c) ==
  /\ caller[c].pc = "pushNotify"
  /\ Notify(c)
  /\ NextSlot(c, "emit")
  /\ UNCHANGED <<status, pending, handle, owner, starts, emits, contested>>

-----------------------------------------------------------------------------
(* run_task_worker.                                                        *)

WGoto(w, pc) == worker' = [worker EXCEPT ![w].pc = pc]

\* espclaw_app_vm_open succeeds; the schedule is read once, without the lock.
WorkerOpen(w) ==
  /\ worker[w].pc = "open"
  /\ worker' = [worker EXCEPT ![w].pc = "loop",
                              ![w].isEvent = status[worker[w].slot].schedule = "event"]
  /\ UNCHANGED <<status, pending, handle, owner, token, caller, starts, emits, contested>>

WorkerOpenFails(w) ==
  /\ worker[w].pc = "open"
  /\ WGoto(w, "finish")
  /\ UNCHANGED <<status, pending, handle, owner, token, caller, starts, emits, contested>>

\* The completed iterations reached the limit of the task.
LimitReached(s, completed) == status[s].max > 0 /\ completed >= status[s].max

\* The critical section at the top of the loop, for each way out of it.
LoopStop(w) ==
  /\ worker[w].pc = "loop"
  /\ status[worker[w].slot].stop
  /\ WGoto(w, "finish")
  /\ UNCHANGED <<status, pending, handle, owner, token, caller, starts, emits, contested>>

LoopPeriodic(w) ==
  /\ worker[w].pc = "loop"
  /\ ~worker[w].isEvent /\ ~status[worker[w].slot].stop
  /\ WGoto(w, IF LimitReached(worker[w].slot, worker[w].completed) THEN "finish" ELSE "step")
  /\ UNCHANGED <<status, pending, handle, owner, token, caller, starts, emits, contested>>

LoopTake(w) ==
  /\ worker[w].pc = "loop"
  /\ worker[w].isEvent /\ ~status[worker[w].slot].stop
  /\ LET s == worker[w].slot
     IN  /\ pending[s] # <<>>
         /\ pending' = [pending EXCEPT ![s] = Tail(@)]
         /\ worker' = [worker EXCEPT
              ![w].event = Head(pending[s]),
              ![w].pc = IF LimitReached(s, worker[w].completed) THEN "finish" ELSE "step"]
  /\ UNCHANGED <<status, handle, owner, token, caller, starts, emits, contested>>

LoopEmpty(w) ==
  /\ worker[w].pc = "loop"
  /\ worker[w].isEvent /\ ~status[worker[w].slot].stop /\ pending[worker[w].slot] = <<>>
  /\ WGoto(w, "wait")
  /\ UNCHANGED <<status, pending, handle, owner, token, caller, starts, emits, contested>>

\* ulTaskNotifyTake(pdTRUE, portMAX_DELAY)
WaitNotified(w) ==
  /\ Port = "esp"
  /\ worker[w].pc = "wait" /\ token[w]
  /\ token' = [token EXCEPT ![w] = FALSE]
  /\ WGoto(w, "loop")
  /\ UNCHANGED <<status, pending, handle, owner, caller, starts, emits, contested>>

\* The pthread wait tests its condition under the mutex, and gives the mutex
\* up together with going to sleep.
WaitOnCondition(w) ==
  /\ Port = "pthread"
  /\ worker[w].pc = "wait"
  /\ WGoto(w, IF status[worker[w].slot].stop \/ pending[worker[w].slot] # <<>> THEN "loop" ELSE "blocked")
  /\ UNCHANGED <<status, pending, handle, owner, token, caller, starts, emits, contested>>

\* espclaw_app_vm_step returned, with success or not; the result is recorded
\* and the end of the task decided in one critical section.
StepRecord(w) ==
  /\ worker[w].pc = "step"
  /\ LET s == worker[w].slot
         done == IF status[s].max > 0 THEN status[s].iterations + 1 ELSE 0
     IN  /\ status' = [status EXCEPT ![s].iterations = done]
         /\ \E ok \in BOOLEAN :
              worker' = [worker EXCEPT
                ![w].completed = done, ![w].event = NoEvent,
                ![w].pc = IF ~ok \/ status[s].stop \/ LimitReached(s, done) THEN "finish" ELSE "loop"]
  /\ UNCHANGED <<pending, handle, owner, token, caller, starts, emits, contested>>

\* mark_task_finished; a pthread worker then returns.
Finish(w) ==
  /\ worker[w].pc = "finish"
  /\ status' = [status EXCEPT ![worker[w].slot].active = FALSE, ![worker[w].slot].completed = TRUE]
  /\ WGoto(w, IF Port = "esp" THEN "exit" ELSE "dead")
  /\ UNCHANGED <<pending, handle, owner, token, caller, starts, emits, contested>>

\* Mutant of Exit: the handle stays in the slot.
Exit_KeepsHandle(w) ==
  /\ worker[w].pc = "exit"
  /\ WGoto(w, "dead")
  /\ UNCHANGED <<status, pending, handle, owner, token, caller, starts, emits, contested>>

\* task_runtime_worker on esp: slot->task = NULL, without the lock.
Exit(w) ==
  /\ worker[w].pc = "exit"
  /\ handle' = [handle EXCEPT ![worker[w].slot] = NoTask]
  /\ WGoto(w, "dead")
  /\ UNCHANGED <<status, pending, owner, token, caller, starts, emits, contested>>

-----------------------------------------------------------------------------
Init ==
  /\ status = [s \in Slots |-> Blank]
  /\ pending = [s \in Slots |-> <<>>]
  /\ handle = [s \in Slots |-> NoTask]
  /\ owner = [s \in Slots |-> 0]
  /\ worker = [w \in Workers |-> NewWorker]
  /\ token = [w \in Workers |-> FALSE]
  /\ caller = [c \in Callers |-> IdleCaller]
  /\ starts = 0
  /\ emits = 0
  /\ contested = {}

StartStep(c) == StartPick(c) \/ StartClaim(c) \/ StartCreate(c) \/ StartCreateFails(c)

StopStep(c) ==
  \/ StopFind(c) \/ StopRequest(c) \/ NotifyFound(c) \/ StopNotify(c)
  \/ ShutdownBegin(c) \/ ShutdownSkip(c) \/ ShutdownRequest(c) \/ ShutdownNotify(c)

EmitStep(c) ==
  \/ EmitBegin(c) \/ EmitSkip(c) \/ EmitMatch(c) \/ EmitPush(c) \/ NotifyFound(c) \/ EmitNotify(c)

WorkerStep(w) ==
  \/ WorkerOpen(w) \/ WorkerOpenFails(w)
  \/ LoopStop(w) \/ LoopPeriodic(w) \/ LoopTake(w) \/ LoopEmpty(w)
  \/ WaitNotified(w) \/ WaitOnCondition(w)
  \/ StepRecord(w) \/ Finish(w) \/ Exit(w)

Next ==
  \/ \E c \in Starters : StartStep(c)
  \/ \E c \in Stoppers : StopStep(c)
  \/ \E c \in Emitters : EmitStep(c)
  \/ \E w \in Workers : WorkerStep(w)

Spec == Init /\ [][Next]_vars

\* A call that began runs to its end, and a worker that can run does: the
\* scheduler is preemptive and no lock is held forever.  No call must begin.
Fairness ==
  /\ \A c \in Callers : WF_vars(caller[c].pc # "idle" /\ (StartStep(c) \/ StopStep(c) \/ EmitStep(c)))
  /\ \A w \in Workers : WF_vars(WorkerStep(w))

FairSpec == Spec /\ Fairness
-----------------------------------------------------------------------------
(* Properties.                                                             *)

CallerPcs ==
  NotifyPcs \cup {"idle", "claim", "create", "stop", "shutdown", "emit", "push"}

CallerStates ==
  [pc : CallerPcs, slot : Slots, request : Requests \cup TaskIds \cup Events \cup {NoEvent},
   target : {NoTask} \cup Workers]

WorkerPcs == {"none", "open", "loop", "wait", "blocked", "step", "finish", "exit", "dead"}

WorkerStates ==
  [pc : WorkerPcs,
   slot : Slots, event : Events \cup {NoEvent}, isEvent : BOOLEAN, completed : Nat]

\* Every variable keeps its type; in particular no slot holds more than
\* QueueMax payloads.
TypeOK ==
  /\ status \in [Slots -> Statuses]
  /\ pending \in [Slots -> Seq(Events)] /\ \A s \in Slots : Len(pending[s]) <= QueueMax
  /\ handle \in [Slots -> {NoTask} \cup Workers]
  /\ owner \in [Slots -> {0} \cup Workers]
  /\ worker \in [Workers -> WorkerStates]
  /\ token \in [Workers -> BOOLEAN]
  /\ caller \in [Callers -> CallerStates]
  /\ starts \in 0 .. MaxStarts /\ emits \in 0 .. MaxEmits
  /\ contested \in SUBSET Slots

\* However many threads start tasks, at most one worker runs on a slot, except
\* where two starts picked the slot before either had armed it: the unlocked search
\* of espclaw_task_start_with_schedule gives no other slot away whose worker is still
\* going to touch it, and a contested slot has one worker again after it was at rest.
OneWorkerPerSlot ==
  \A w1, w2 \in Workers :
    Running(w1) /\ Running(w2) /\ worker[w1].slot = worker[w2].slot
      => w1 = w2 \/ worker[w1].slot \in contested

\* A task id names one slot, so that find_task_index finds the task a caller
\* means whatever slot it was restarted in.  Two starts of one id that search at
\* different times can give it two.
UniqueIds ==
  \A s1, s2 \in Slots : status[s1].id = status[s2].id /\ status[s1].id # NoId => s1 = s2

\* A slot that was not contested is active exactly while a worker runs on it or is
\* being created for it: none stays occupied after its task ended, none is free too
\* early.
ActiveMeansRunning ==
  \A s \in Slots \ contested : status[s].active <=>
    \/ \E w \in Workers : Running(w) /\ worker[w].slot = s
    \/ \E c \in Callers : caller[c].pc = "create" /\ caller[c].slot = s

\* A handle left in a slot is that of a worker of the slot that has not deleted
\* itself.  A thread between its test of slot->task and its use of it holds the
\* handle of a worker of the slot it means, or of one whose handle was taken out of
\* the slot since: nothing keeps that worker from deleting itself in the gap.
HandleIsLive ==
  /\ \A s \in Slots : handle[s] # NoTask =>
       worker[handle[s]].pc \notin {"none", "dead"} /\ worker[handle[s]].slot = s
  /\ \A c \in Callers : caller[c].pc \in NotifyPcs /\ caller[c].target # NoTask =>
       LET w == caller[c].target
       IN  /\ worker[w].pc # "none" /\ worker[w].slot = caller[c].slot
           /\ worker[w].pc = "dead" => handle[caller[c].slot] # w

\* Events of one thread are handled in the order of their emission and no
\* event twice: numbers grow from the event in a worker's hands through the
\* queue of its slot, also across an overflow.
EventsInOrder ==
  \A s \in Slots :
    /\ \A i, j \in DOMAIN pending[s] : i < j => pending[s][i].n < pending[s][j].n
    /\ \A w \in Workers : worker[w].pc = "step" /\ worker[w].isEvent /\ worker[w].slot = s =>
         \A i \in DOMAIN pending[s] : worker[w].event.n < pending[s][i].n

HasWork(s) == status[s].stop \/ pending[s] # <<>>

\* Somebody is about to notify worker w of slot s: he has not yet looked for its
\* handle, or has found it.
NotifyDue(s, w) ==
  \E c \in Callers :
    /\ caller[c].slot = s /\ caller[c].pc \in NotifyPcs
    /\ caller[c].target \in {NoTask, w}

Sleeping(w) ==
  \/ Port = "esp" /\ worker[w].pc = "wait" /\ ~token[w]
  \/ worker[w].pc = "blocked"

\* No worker sleeps while it has work, unless somebody is about to notify it.  On
\* esp this is said of the workers whose handle is still in their slot: the erasing
\* of the handle is the only way to lose a wakeup.  On pthread, where a signal wakes
\* one of those that wait, it is said of the slots that were not contested.
NoWakeupLostWithHandle ==
  \A w \in Workers :
    LET s == worker[w].slot
    IN  /\ Sleeping(w) /\ HasWork(s)
        /\ IF Port = "esp" THEN handle[s] = w ELSE s \notin contested
        => NotifyDue(s, w)

\* A stop that was requested of an active task ends it.
StopHonoured ==
  \A s \in Slots : status[s].active /\ status[s].stop ~> ~status[s].active

Queued(s, n) == \E i \in DOMAIN pending[s] : pending[s][i].n = n

\* A payload accepted for an active task is taken up by its worker, or gives
\* way to a newer one in a full queue, or the task ends.
EventsTakenUp ==
  \A s \in Slots, n \in 1 .. MaxEmits :
    status[s].active /\ status[s].schedule = "event" /\ Queued(s, n) ~> ~status[s].active \/ ~Queued(s, n)

-----------------------------------------------------------------------------
(* The abstract view: the active slots are the running tasks.              *)

ActiveSlots == {s \in Slots : status[s].active}

RunningIds == {status[s].id : s \in ActiveSlots}
StoppingIds == {status[s].id : s \in {a \in ActiveSlots : status[a].stop}}
QueueOf ==
  [id \in TaskIds |->
     IF id \in RunningIds THEN pending[CHOOSE s \in ActiveSlots : status[s].id = id] ELSE <<>>]

Registry == INSTANCE TaskRegistry WITH
  Capacity <- MaxSlots, running <- RunningIds, stopping <- StoppingIds, queue <- QueueOf

\* No slot was given to two starts at once, and no id has two slots.
Settled == contested = {} /\ UniqueIds

\* While no two starts have collided, the table of slots with its unlocked searches
\* is the registry its users see, whoever starts, stops and emits: a task is started
\* only while it does not run and there is room, keeps its stop request and its
\* queue until it ends, and starts afresh.
ImplementsRegistry ==
  /\ Registry!Init
  /\ [][Settled /\ Settled' => Registry!Next \/ UNCHANGED Registry!vars]_vars
=============================================================================
