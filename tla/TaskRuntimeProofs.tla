-------------------------- MODULE TaskRuntimeProofs -------------------------
(***************************************************************************)
(* Theorems about the task runtime for any number of slots, threads, tasks *)
(* and events.  Who owns a slot is proved of the slots that no two starts  *)
(* picked at once, which the unlocked searches of                          *)
(* espclaw_task_start_with_schedule allow; on pthread the wakeups rest on  *)
(* it, and the registry is implemented while there is no such slot.  The   *)
(* order of events is that of one emitting thread.                         *)
(***************************************************************************)
EXTENDS TaskRuntime, FiniteSetTheorems, TLAPS

\* What the locals of a caller are good for at each program counter.
CallerInv ==
  \A c \in Callers :
    /\ caller[c].pc \in {"claim", "create"} =>
         c \in Starters /\ caller[c].request \in Requests /\ caller[c].target \in 1 .. starts
    /\ caller[c].pc \in {"emit", "push", "pushNotify"} => caller[c].request \in Events
    /\ caller[c].pc \in {"stop", "shutdown", "emit", "push"} => caller[c].target = NoTask

TypeInv == TypeOK /\ CallerInv

-----------------------------------------------------------------------------
(* The bounded queue of a slot.                                            *)

\* A payload put into a queue that respects the limit leaves one that does.
LEMMA PushedType ==
  ASSUME NEW q \in Seq(Events), Len(q) <= QueueMax, NEW e \in Events
  PROVE  Queue!Pushed(q, e) \in Seq(Events) /\ Len(Queue!Pushed(q, e)) <= QueueMax
<1>1. QueueMax \in Nat \ {0}
  BY TaskRuntimeAssumption
<1>2. CASE Len(q) < QueueMax
  BY <1>1, <1>2 DEF Queue!Pushed
<1>3. CASE ~ (Len(q) < QueueMax)
  <2>1. Queue!Pushed(q, e) = [q EXCEPT ![QueueMax] = e]
    BY <1>3 DEF Queue!Pushed
  <2> QED BY <2>1, <1>1, <1>3
<1> QED BY <1>2, <1>3

\* A queue that a payload was put into is not empty.
LEMMA PushedNotEmpty ==
  ASSUME NEW q \in Seq(Events), NEW e \in Events
  PROVE  Queue!Pushed(q, e) # <<>>
<1>1. QueueMax \in Nat \ {0}
  BY TaskRuntimeAssumption
<1>2. CASE Len(q) < QueueMax
  BY <1>1, <1>2 DEF Queue!Pushed
<1>3. CASE ~ (Len(q) < QueueMax)
  <2>1. Queue!Pushed(q, e) = [q EXCEPT ![QueueMax] = e]
    BY <1>3 DEF Queue!Pushed
  <2> QED BY <2>1, <1>1, <1>3
<1> QED BY <1>2, <1>3

\* A payload taken from a queue is an event and leaves a queue.
LEMMA TailType ==
  ASSUME NEW q \in Seq(Events), q # <<>>, Len(q) <= QueueMax
  PROVE  /\ Tail(q) \in Seq(Events) /\ Len(Tail(q)) <= QueueMax
         /\ Head(q) \in Events
BY TaskRuntimeAssumption

\* The fields of a cleared slot, of an idle caller and of a worker not yet
\* created have their types.
LEMMA BlankType == Blank \in Statuses
BY DEF Blank, Statuses

LEMMA IdleType == IdleCaller \in CallerStates
BY TaskRuntimeAssumption DEF IdleCaller, CallerStates, CallerPcs, Slots

LEMMA NewWorkerType == NewWorker \in WorkerStates
BY TaskRuntimeAssumption DEF NewWorker, WorkerStates, WorkerPcs, Slots

\* An emptied ring is a queue.
LEMMA EmptyType == <<>> \in Seq(Events) /\ Len(<<>>) <= QueueMax
BY TaskRuntimeAssumption

\* There is a first slot.
LEMMA SlotOne == 1 \in Slots
BY TaskRuntimeAssumption DEF Slots

\* The updates of a slot's fields keep their types: a stop request, the end of
\* a task, its iterations.
LEMMA StopType ==
  ASSUME NEW r \in Statuses
  PROVE  [r EXCEPT !.stop = TRUE] \in Statuses
BY DEF Statuses

LEMMA EndType ==
  ASSUME NEW r \in Statuses
  PROVE  /\ [r EXCEPT !.active = FALSE] \in Statuses
         /\ [r EXCEPT !.active = FALSE, !.completed = TRUE] \in Statuses
BY DEF Statuses

LEMMA CountType ==
  ASSUME NEW r \in Statuses, NEW n \in Nat
  PROVE  [r EXCEPT !.iterations = n] \in Statuses
BY DEF Statuses

\* So does a move of a worker's program counter.
LEMMA PcType ==
  ASSUME NEW r \in WorkerStates, NEW p \in WorkerPcs
  PROVE  [r EXCEPT !.pc = p] \in WorkerStates
BY DEF WorkerStates, WorkerPcs

LEMMA WGotoType ==
  ASSUME TypeOK, NEW w \in Workers, NEW p \in WorkerPcs, WGoto(w, p)
  PROVE  worker' \in [Workers -> WorkerStates]
BY PcType DEF TypeOK, WGoto

\* So do the moves of a caller: to another program counter, with another target,
\* to the next slot or out of the call.
LEMMA CallerPcType ==
  ASSUME NEW r \in CallerStates
  PROVE  /\ \A p \in CallerPcs : [r EXCEPT !.pc = p] \in CallerStates
         /\ \A w \in Workers : [r EXCEPT !.target = w] \in CallerStates
BY DEF CallerStates

LEMMA GotoType ==
  ASSUME TypeOK, NEW c \in Callers, NEW p \in CallerPcs, Goto(c, p)
  PROVE  caller' \in [Callers -> CallerStates]
BY CallerPcType DEF TypeOK, Goto

LEMMA NextSlotType ==
  ASSUME TypeOK, NEW c \in Callers, NEW pc \in {"shutdown", "emit"}, NextSlot(c, pc)
  PROVE  caller' \in [Callers -> CallerStates]
<1> DEFINE next == [caller[c] EXCEPT !.pc = pc, !.slot = caller[c].slot + 1, !.target = NoTask]
<1>1. ASSUME next.slot \in Slots
      PROVE  next \in CallerStates
  BY <1>1 DEF TypeOK, CallerStates, CallerPcs
<1>2. caller' = [caller EXCEPT ![c] = IF next.slot \in Slots THEN next ELSE IdleCaller]
  BY DEF NextSlot
<1> HIDE DEF next
<1> QED BY <1>1, <1>2, IdleType DEF TypeOK

\* A notification keeps the types of the workers and their tokens.
LEMMA NotifyType ==
  ASSUME TypeOK, NEW c \in Callers, Notify(c)
  PROVE  worker' \in [Workers -> WorkerStates] /\ token' \in [Workers -> BOOLEAN]
<1>1. worker' = worker \/ \E w \in Workers : WGoto(w, "wait")
  BY DEF Notify, NotifyNobody, NotifyGive, NotifySignal, WGoto
<1>2. worker' \in [Workers -> WorkerStates]
  BY <1>1, WGotoType DEF TypeOK, WorkerPcs
<1>3. token' \in [Workers -> BOOLEAN]
  BY DEF Notify, NotifyNobody, NotifyGive, NotifySignal, TypeOK
<1> QED BY <1>2, <1>3

-----------------------------------------------------------------------------
\* The initial states have their types.
LEMMA TypeInit == Init => TypeInv
BY TaskRuntimeAssumption, BlankType, IdleType, NewWorkerType
DEF Init, TypeInv, TypeOK, CallerInv, IdleCaller, Workers

\* Every step keeps them.
LEMMA TypeStep == TypeInv /\ [Next]_vars => TypeInv'
<1> SUFFICES ASSUME TypeInv, [Next]_vars
             PROVE  TypeInv'
  OBVIOUS
<1> USE DEF TypeInv, TypeOK
<1>1. ASSUME NEW c \in Starters, StartPick(c) PROVE TypeInv'
  <2>0. starts + 1 \in Workers
    BY <1>1, TaskRuntimeAssumption DEF StartPick, Workers
  <2>1. caller' \in [Callers -> CallerStates]
    BY <1>1, <2>0 DEF StartPick, CallerStates, CallerPcs, Picked, First, SlotsOf, FreeSlots, Callers
  <2>2. starts' \in 0 .. MaxStarts /\ contested' \in SUBSET Slots
    BY <1>1, TaskRuntimeAssumption DEF StartPick, Contest, Picked, First, SlotsOf, FreeSlots
  <2>3. CallerInv'
    BY <1>1 DEF StartPick, CallerInv, Callers
  <2> QED BY <1>1, <2>1, <2>2, <2>3 DEF StartPick
<1>2. ASSUME NEW c \in Starters, StartClaim(c) PROVE TypeInv'
  <2>0. caller[c].target \in Workers
    BY <1>2, TaskRuntimeAssumption DEF StartClaim, CallerInv, Callers, Workers
  <2>1. status' \in [Slots -> Statuses]
    BY <1>2 DEF StartClaim, CallerInv, CallerStates, Callers, Requests, Statuses, Blank
  <2>2. pending' \in [Slots -> Seq(Events)] /\ \A s \in Slots : Len(pending'[s]) <= QueueMax
    BY <1>2, EmptyType DEF StartClaim
  <2>3. owner' \in [Slots -> {0} \cup Workers]
    BY <1>2, <2>0 DEF StartClaim
  <2>4. caller' \in [Callers -> CallerStates]
    BY <1>2, GotoType DEF StartClaim, CallerPcs, NotifyPcs, Callers
  <2>5. CallerInv'
    BY <1>2 DEF StartClaim, Goto, CallerInv, CallerStates, Callers
  <2> QED BY <1>2, <2>1, <2>2, <2>3, <2>4, <2>5 DEF StartClaim
<1>3. ASSUME NEW c \in Starters, StartCreate(c) PROVE TypeInv'
  <2>1. handle' \in [Slots -> {NoTask} \cup Workers]
    BY <1>3 DEF StartCreate, CallerInv, CallerStates, Callers, Workers
  <2>2. worker' \in [Workers -> WorkerStates]
    BY <1>3, NewWorkerType DEF StartCreate, NewWorker, WorkerStates, WorkerPcs, CallerStates, Callers
  <2>3. caller' \in [Callers -> CallerStates]
    BY <1>3, IdleType DEF StartCreate, Callers
  <2>4. CallerInv'
    BY <1>3 DEF StartCreate, CallerInv, IdleCaller, Callers
  <2> QED BY <1>3, <2>1, <2>2, <2>3, <2>4 DEF StartCreate
<1>4. ASSUME NEW c \in Starters, StartCreateFails(c) PROVE TypeInv'
  <2>1. status' \in [Slots -> Statuses]
    BY <1>4, BlankType, EndType DEF StartCreateFails
  <2>2. caller' \in [Callers -> CallerStates]
    BY <1>4, IdleType DEF StartCreateFails, Callers
  <2>3. CallerInv'
    BY <1>4 DEF StartCreateFails, CallerInv, IdleCaller, Callers
  <2> QED BY <1>4, <2>1, <2>2, <2>3 DEF StartCreateFails
<1>5. ASSUME NEW c \in Stoppers, StopFind(c) PROVE TypeInv'
  <2>1. caller' \in [Callers -> CallerStates]
    BY <1>5 DEF StopFind, CallerStates, CallerPcs, SlotsOf, First, Callers
  <2>2. CallerInv'
    BY <1>5 DEF StopFind, CallerInv, Callers
  <2> QED BY <1>5, <2>1, <2>2 DEF StopFind
<1>6. ASSUME NEW c \in Stoppers, StopRequest(c) PROVE TypeInv'
  <2>1. status' \in [Slots -> Statuses]
    BY <1>6, StopType DEF StopRequest
  <2>2. caller' \in [Callers -> CallerStates]
    BY <1>6, GotoType DEF StopRequest, CallerPcs, NotifyPcs, Callers
  <2>3. CallerInv'
    BY <1>6 DEF StopRequest, Goto, CallerInv, CallerStates, Callers
  <2> QED BY <1>6, <2>1, <2>2, <2>3 DEF StopRequest
<1>7. ASSUME NEW c \in Stoppers, StopNotify(c) PROVE TypeInv'
  <2>1. worker' \in [Workers -> WorkerStates]
    BY <1>7, NotifyType DEF StopNotify, CallerStates, Callers
  <2>2. token' \in [Workers -> BOOLEAN]
    BY <1>7, NotifyType DEF StopNotify, CallerStates, Callers
  <2>3. caller' \in [Callers -> CallerStates]
    BY <1>7, IdleType DEF StopNotify, Callers
  <2>4. CallerInv'
    BY <1>7 DEF StopNotify, CallerInv, IdleCaller, Callers
  <2> QED BY <1>7, <2>1, <2>2, <2>3, <2>4 DEF StopNotify
<1>8. ASSUME NEW c \in Stoppers, ShutdownBegin(c) PROVE TypeInv'
  <2>1. caller' \in [Callers -> CallerStates]
    BY <1>8, IdleType, CallerPcType DEF ShutdownBegin, CallerPcs, Callers
  <2>2. CallerInv'
    BY <1>8 DEF ShutdownBegin, CallerInv, IdleCaller, Callers
  <2> QED BY <1>8, <2>1, <2>2 DEF ShutdownBegin
<1>9. ASSUME NEW c \in Stoppers, ShutdownSkip(c) PROVE TypeInv'
  <2>1. caller' \in [Callers -> CallerStates]
    BY <1>9, NextSlotType DEF ShutdownSkip, Callers
  <2>2. CallerInv'
    BY <1>9 DEF ShutdownSkip, NextSlot, CallerInv, IdleCaller, CallerStates, Callers
  <2> QED BY <1>9, <2>1, <2>2 DEF ShutdownSkip
<1>10. ASSUME NEW c \in Stoppers, ShutdownRequest(c) PROVE TypeInv'
  <2>1. status' \in [Slots -> Statuses]
    BY <1>10, StopType DEF ShutdownRequest
  <2>2. caller' \in [Callers -> CallerStates]
    BY <1>10, GotoType DEF ShutdownRequest, CallerPcs, NotifyPcs, Callers
  <2>3. CallerInv'
    BY <1>10 DEF ShutdownRequest, Goto, CallerInv, CallerStates, Callers
  <2> QED BY <1>10, <2>1, <2>2, <2>3 DEF ShutdownRequest
<1>11. ASSUME NEW c \in Stoppers, ShutdownNotify(c) PROVE TypeInv'
  <2>1. worker' \in [Workers -> WorkerStates]
    BY <1>11, NotifyType DEF ShutdownNotify, CallerStates, Callers
  <2>2. token' \in [Workers -> BOOLEAN]
    BY <1>11, NotifyType DEF ShutdownNotify, CallerStates, Callers
  <2>3. caller' \in [Callers -> CallerStates]
    BY <1>11, NextSlotType DEF ShutdownNotify, Callers
  <2>4. CallerInv'
    BY <1>11 DEF ShutdownNotify, NextSlot, CallerInv, IdleCaller, CallerStates, Callers
  <2> QED BY <1>11, <2>1, <2>2, <2>3, <2>4 DEF ShutdownNotify
<1>12. ASSUME NEW c \in Emitters, EmitBegin(c) PROVE TypeInv'
  <2>0. emits + 1 \in 1 .. MaxEmits
    BY <1>12, TaskRuntimeAssumption DEF EmitBegin
  <2>1. caller' \in [Callers -> CallerStates]
    BY <1>12, <2>0, SlotOne DEF EmitBegin, CallerStates, CallerPcs, Events, Callers
  <2>2. emits' \in 0 .. MaxEmits
    BY <1>12, <2>0, TaskRuntimeAssumption DEF EmitBegin
  <2>3. CallerInv'
    BY <1>12, <2>0 DEF EmitBegin, CallerInv, Events, Callers
  <2> QED BY <1>12, <2>1, <2>2, <2>3 DEF EmitBegin
<1>13. ASSUME NEW c \in Emitters, EmitSkip(c) PROVE TypeInv'
  <2>1. caller' \in [Callers -> CallerStates]
    BY <1>13, NextSlotType DEF EmitSkip, Callers
  <2>2. CallerInv'
    BY <1>13 DEF EmitSkip, NextSlot, CallerInv, IdleCaller, CallerStates, Callers
  <2> QED BY <1>13, <2>1, <2>2 DEF EmitSkip
<1>14. ASSUME NEW c \in Emitters, EmitMatch(c) PROVE TypeInv'
  <2>1. caller' \in [Callers -> CallerStates]
    BY <1>14, GotoType DEF EmitMatch, CallerPcs, NotifyPcs, Callers
  <2>2. CallerInv'
    BY <1>14 DEF EmitMatch, Goto, CallerInv, CallerStates, Callers
  <2> QED BY <1>14, <2>1, <2>2 DEF EmitMatch
<1>15. ASSUME NEW c \in Emitters, EmitPush(c) PROVE TypeInv'
  <2>1. pending' \in [Slots -> Seq(Events)] /\ \A s \in Slots : Len(pending'[s]) <= QueueMax
    BY <1>15, PushedType DEF EmitPush, CallerInv, CallerStates, Callers
  <2>2. caller' \in [Callers -> CallerStates]
    BY <1>15, GotoType DEF EmitPush, CallerPcs, NotifyPcs, Callers
  <2>3. CallerInv'
    BY <1>15 DEF EmitPush, Goto, CallerInv, CallerStates, Callers
  <2> QED BY <1>15, <2>1, <2>2, <2>3 DEF EmitPush
<1>16. ASSUME NEW c \in Emitters, EmitNotify(c) PROVE TypeInv'
  <2>1. worker' \in [Workers -> WorkerStates]
    BY <1>16, NotifyType DEF EmitNotify, CallerStates, Callers
  <2>2. token' \in [Workers -> BOOLEAN]
    BY <1>16, NotifyType DEF EmitNotify, CallerStates, Callers
  <2>3. caller' \in [Callers -> CallerStates]
    BY <1>16, NextSlotType DEF EmitNotify, Callers
  <2>4. CallerInv'
    BY <1>16 DEF EmitNotify, NextSlot, CallerInv, IdleCaller, CallerStates, Callers
  <2> QED BY <1>16, <2>1, <2>2, <2>3, <2>4 DEF EmitNotify
<1>17. ASSUME NEW w \in Workers, WorkerOpen(w) PROVE TypeInv'
  <2>1. worker' \in [Workers -> WorkerStates]
    <3>1. ASSUME NEW r \in WorkerStates, NEW b \in BOOLEAN
          PROVE  [r EXCEPT !.pc = "loop", !.isEvent = b] \in WorkerStates
      BY DEF WorkerStates, WorkerPcs
    <3> QED BY <1>17, <3>1 DEF WorkerOpen
  <2> QED BY <1>17, <2>1 DEF WorkerOpen, CallerInv
<1>18. ASSUME NEW w \in Workers, WorkerOpenFails(w) PROVE TypeInv'
  <2>1. worker' \in [Workers -> WorkerStates]
    BY <1>18, WGotoType DEF WorkerOpenFails, WorkerPcs
  <2> QED BY <1>18, <2>1 DEF WorkerOpenFails, CallerInv
<1>19. ASSUME NEW w \in Workers, LoopStop(w) PROVE TypeInv'
  <2>1. worker' \in [Workers -> WorkerStates]
    BY <1>19, WGotoType DEF LoopStop, WorkerPcs
  <2> QED BY <1>19, <2>1 DEF LoopStop, CallerInv
<1>20. ASSUME NEW w \in Workers, LoopPeriodic(w) PROVE TypeInv'
  <2>1. worker' \in [Workers -> WorkerStates]
    <3>1. PICK p \in WorkerPcs : WGoto(w, p)
      BY <1>20, Zenon DEF LoopPeriodic, WorkerPcs
    <3> QED BY <3>1, WGotoType
  <2> QED BY <1>20, <2>1 DEF LoopPeriodic, CallerInv
<1>21. ASSUME NEW w \in Workers, LoopTake(w) PROVE TypeInv'
  <2>1. pending' \in [Slots -> Seq(Events)] /\ \A s \in Slots : Len(pending'[s]) <= QueueMax
    BY <1>21, TailType DEF LoopTake, WorkerStates, WorkerPcs
  <2>2. worker' \in [Workers -> WorkerStates]
    <3>1. ASSUME NEW r \in WorkerStates, NEW e \in Events, NEW p \in WorkerPcs
          PROVE  [r EXCEPT !.event = e, !.pc = p] \in WorkerStates
      BY DEF WorkerStates, WorkerPcs
    <3>2. Head(pending[worker[w].slot]) \in Events
      BY <1>21, TailType DEF LoopTake, WorkerStates, WorkerPcs
    <3>3. PICK p \in WorkerPcs :
            worker' = [worker EXCEPT ![w].event = Head(pending[worker[w].slot]), ![w].pc = p]
      BY <1>21 DEF LoopTake, WorkerPcs
    <3> QED BY <3>1, <3>2, <3>3
  <2> QED BY <1>21, <2>1, <2>2 DEF LoopTake, CallerInv
<1>22. ASSUME NEW w \in Workers, LoopEmpty(w) PROVE TypeInv'
  <2>1. worker' \in [Workers -> WorkerStates]
    BY <1>22, WGotoType DEF LoopEmpty, WorkerPcs
  <2> QED BY <1>22, <2>1 DEF LoopEmpty, CallerInv
<1>23. ASSUME NEW w \in Workers, WaitNotified(w) PROVE TypeInv'
  <2>1. worker' \in [Workers -> WorkerStates]
    BY <1>23, WGotoType DEF WaitNotified, WorkerPcs
  <2>2. token' \in [Workers -> BOOLEAN]
    BY <1>23 DEF WaitNotified
  <2> QED BY <1>23, <2>1, <2>2 DEF WaitNotified, CallerInv
<1>24. ASSUME NEW w \in Workers, WaitOnCondition(w) PROVE TypeInv'
  <2>1. worker' \in [Workers -> WorkerStates]
    <3>1. PICK p \in WorkerPcs : WGoto(w, p)
      BY <1>24, Zenon DEF WaitOnCondition, WorkerPcs
    <3> QED BY <3>1, WGotoType
  <2> QED BY <1>24, <2>1 DEF WaitOnCondition, CallerInv
<1>25. ASSUME NEW w \in Workers, StepRecord(w) PROVE TypeInv'
  <2> DEFINE s == worker[w].slot
             done == IF status[s].max > 0 THEN status[s].iterations + 1 ELSE 0
  <2>0. done \in Nat
    BY DEF WorkerStates, WorkerPcs, Statuses
  <2>1. status' \in [Slots -> Statuses]
    <3>1. status' = [status EXCEPT ![s].iterations = done]
      BY <1>25 DEF StepRecord
    <3> HIDE DEF done
    <3> QED BY <2>0, <3>1, CountType
  <2>2. worker' \in [Workers -> WorkerStates]
    <3>1. ASSUME NEW r \in WorkerStates, NEW d \in Nat, NEW p \in WorkerPcs
          PROVE  [r EXCEPT !.completed = d, !.event = NoEvent, !.pc = p] \in WorkerStates
      BY DEF WorkerStates, WorkerPcs
    <3>2. PICK p \in WorkerPcs :
            worker' = [worker EXCEPT ![w].completed = done, ![w].event = NoEvent, ![w].pc = p]
      BY <1>25 DEF StepRecord, WorkerPcs
    <3> HIDE DEF done
    <3> QED BY <2>0, <3>1, <3>2
  <2> QED BY <1>25, <2>1, <2>2 DEF StepRecord, CallerInv
<1>26. ASSUME NEW w \in Workers, Finish(w) PROVE TypeInv'
  <2>1. status' \in [Slots -> Statuses]
    BY <1>26, EndType DEF Finish
  <2>2. worker' \in [Workers -> WorkerStates]
    <3>1. PICK p \in WorkerPcs : WGoto(w, p)
      BY <1>26, Zenon DEF Finish, WorkerPcs
    <3> QED BY <3>1, WGotoType
  <2> QED BY <1>26, <2>1, <2>2 DEF Finish, CallerInv
<1>27. ASSUME NEW w \in Workers, Exit(w) PROVE TypeInv'
  <2>1. handle' \in [Slots -> {NoTask} \cup Workers]
    BY <1>27 DEF Exit
  <2>2. worker' \in [Workers -> WorkerStates]
    BY <1>27, WGotoType DEF Exit, WorkerPcs
  <2> QED BY <1>27, <2>1, <2>2 DEF Exit, CallerInv
<1>28. ASSUME NEW c \in Callers, NotifyFound(c) PROVE TypeInv'
  <2>1. caller' \in [Callers -> CallerStates]
    <3>1. handle[caller[c].slot] \in Workers
      BY <1>28 DEF NotifyFound, CallerStates
    <3> QED BY <1>28, <3>1, CallerPcType DEF NotifyFound
  <2>2. CallerInv'
    BY <1>28 DEF NotifyFound, NotifyPcs, CallerInv, CallerStates
  <2> QED BY <1>28, <2>1, <2>2 DEF NotifyFound
<1>29. CASE UNCHANGED vars
  BY <1>29 DEF vars, CallerInv
<1> QED
  BY <1>1, <1>2, <1>3, <1>4, <1>5, <1>6, <1>7, <1>8, <1>9, <1>10, <1>11, <1>12,
     <1>13, <1>14, <1>15, <1>16, <1>17, <1>18, <1>19, <1>20, <1>21,
     <1>22, <1>23, <1>24, <1>25, <1>26, <1>27, <1>28, <1>29
  DEF Next, StartStep, StopStep, EmitStep, WorkerStep, Callers

\* Every variable of the task runtime keeps its type in every system, with
\* the locals of every caller as its program counter requires; in particular
\* no ring of pending payloads holds more than QueueMax of them.
THEOREM TypeCorrect == Spec => []TypeOK
BY TypeInit, TypeStep, PTL DEF Spec, TypeInv

-----------------------------------------------------------------------------
(* Whom a handle names.                                                    *)

Starting(c) == caller[c].pc \in {"claim", "create"}

\* No worker exists whose start has not happened.
FreshWorkers == \A w \in Workers : w > starts => worker[w].pc = "none"

Exists(w) == worker[w].pc \notin {"none", "dead"}

\* The worker a start is about to create does not exist, and no two starts are
\* about to create the same one.
TargetsFresh ==
  \A c \in Callers : Starting(c) =>
    /\ worker[caller[c].target].pc = "none"
    /\ \A d \in Callers : Starting(d) /\ caller[d].target = caller[c].target => d = c

\* Only esp keeps handles.
NoHandles == Port # "esp" => \A s \in Slots : handle[s] = NoTask

\* The handles in the slots, and those that callers have found there.
HandlesLive ==
  \A s \in Slots : handle[s] # NoTask => Exists(handle[s]) /\ worker[handle[s]].slot = s

Found(c) == caller[c].pc \in NotifyPcs /\ caller[c].target # NoTask

TargetsNamed ==
  \A c \in Callers : Found(c) =>
    worker[caller[c].target].pc # "none" /\ worker[caller[c].target].slot = caller[c].slot

HandleInv ==
  TypeInv /\ HandlesLive /\ TargetsNamed /\ TargetsFresh /\ FreshWorkers /\ NoHandles

\* What has been found in a slot may have ended since, but then it is not there.
LEMMA HandleInvImplies == HandleInv => HandleIsLive
BY DEF HandleInv, HandlesLive, TargetsNamed, Found, HandleIsLive, Exists, TypeInv, TypeOK, CallerStates

\* A step that creates no worker, ends none that has a handle and picks no slot.
LEMMA HandleFrame ==
  ASSUME HandleInv, TypeInv', UNCHANGED <<handle, starts>>,
         \A w \in Workers : /\ worker'[w].slot = worker[w].slot
                            /\ worker[w].pc = "none" <=> worker'[w].pc = "none"
                            /\ Port = "esp" => (Exists(w) => Exists(w)'),
         \A c \in Callers : Starting(c)' => Starting(c) /\ caller'[c].target = caller[c].target,
         \A c \in Callers : Found(c)' =>
           Found(c) /\ caller'[c].target = caller[c].target /\ caller'[c].slot = caller[c].slot
  PROVE  HandleInv'
<1> USE DEF HandleInv
<1>0. \A c \in Callers : Starting(c) => caller[c].target \in Workers
  BY TaskRuntimeAssumption DEF TypeInv, TypeOK, CallerInv, Starting, Workers
<1>1. HandlesLive'
  BY DEF HandlesLive, NoHandles, TypeInv, TypeOK
<1>2. TargetsFresh'
  BY <1>0 DEF TargetsFresh
<1>3. FreshWorkers' /\ NoHandles'
  BY DEF FreshWorkers, NoHandles
<1>4. \A c \in Callers : Found(c) => caller[c].target \in Workers
  BY DEF Found, TypeInv, TypeOK, CallerStates
<1>5. TargetsNamed'
  BY <1>4 DEF TargetsNamed
<1> QED BY <1>1, <1>2, <1>3, <1>5

\* A notification wakes a worker that exists.
LEMMA NotifyExists ==
  ASSUME TypeOK, NEW c \in Callers, Notify(c)
  PROVE  \A v \in Workers : /\ worker'[v].slot = worker[v].slot
                            /\ worker[v].pc = "none" <=> worker'[v].pc = "none"
                            /\ Exists(v) => Exists(v)'
<1>1. \/ worker' = worker
      \/ \E w \in Workers : worker[w].pc = "blocked" /\ WGoto(w, "wait")
  BY DEF Notify, NotifyNobody, NotifyGive, NotifySignal, WGoto
<1>2. CASE worker' = worker
  BY <1>2 DEF Exists
<1>3. ASSUME NEW w \in Workers, worker[w].pc = "blocked", WGoto(w, "wait")
      PROVE  \A v \in Workers : /\ worker'[v].slot = worker[v].slot
                                /\ worker[v].pc = "none" <=> worker'[v].pc = "none"
                                /\ Exists(v) => Exists(v)'
  BY <1>3 DEF TypeOK, WGoto, Exists, WorkerStates, WorkerPcs
<1> QED BY <1>1, <1>2, <1>3

\* A caller that stops tasks or emits an event starts none, and finds no handle but
\* in NotifyFound.
LEMMA OthersStartNothing ==
  ASSUME TypeInv, NEW c \in Callers, StopStep(c) \/ EmitStep(c)
  PROVE  /\ ~Starting(c) /\ ~Starting(c)'
         /\ \A d \in Callers : d # c => caller'[d] = caller[d]
         /\ Found(c)' => NotifyFound(c)
<1>0. /\ TypeOK /\ caller \in [Callers -> CallerStates] /\ caller[c] \in CallerStates
      /\ caller[c].pc \in {"stop", "shutdown", "emit", "push"} => caller[c].target = NoTask
  BY DEF TypeInv, TypeOK, CallerInv
<1>1. \A d \in Callers : d # c => caller'[d] = caller[d]
  BY <1>0 DEF NextSlot, Goto, StopStep, StopFind, StopRequest, NotifyFound, StopNotify, ShutdownBegin,
       ShutdownSkip, ShutdownRequest, ShutdownNotify, EmitStep, EmitBegin, EmitSkip, EmitMatch, EmitPush, EmitNotify
<1>2. ~Starting(c)
  BY DEF Starting, NotifyPcs, StopStep, StopFind, StopRequest, NotifyFound, StopNotify, ShutdownBegin,
       ShutdownSkip, ShutdownRequest, ShutdownNotify, EmitStep, EmitBegin, EmitSkip, EmitMatch, EmitPush, EmitNotify
<1>3. CASE StopFind(c) \/ EmitBegin(c)
  <2>1. caller'[c].target = NoTask /\ caller'[c].pc \in {"stop", "emit"}
    BY <1>0, <1>3 DEF StopFind, EmitBegin
  <2> QED BY <1>1, <1>2, <2>1 DEF Starting, Found
<1>4. CASE StopRequest(c) \/ ShutdownRequest(c) \/ EmitMatch(c) \/ EmitPush(c)
  <2>1. PICK pc \in {"stopNotify", "shutdownNotify", "push", "pushNotify"} :
          caller' = [caller EXCEPT ![c].pc = pc]
    BY <1>4 DEF StopRequest, ShutdownRequest, EmitMatch, EmitPush, Goto
  <2>2. caller'[c].pc = pc /\ caller'[c].target = caller[c].target
    BY <1>0, <2>1 DEF CallerStates
  <2>3. caller[c].target = NoTask
    BY <1>0, <1>4 DEF StopRequest, ShutdownRequest, EmitMatch, EmitPush
  <2> QED BY <1>1, <1>2, <2>2, <2>3 DEF Starting, Found
<1>5. CASE NotifyFound(c)
  <2>1. caller'[c].pc = caller[c].pc
    BY <1>0, <1>5 DEF NotifyFound, CallerStates
  <2> QED BY <1>1, <1>2, <1>5, <2>1 DEF Starting
<1>6. CASE StopNotify(c) \/ ShutdownBegin(c)
  <2>1. caller'[c].pc \in {"idle", "shutdown"}
    BY <1>0, <1>6 DEF StopNotify, ShutdownBegin, IdleCaller
  <2> QED BY <1>1, <1>2, <2>1 DEF Starting, Found, NotifyPcs
<1>7. CASE NextSlot(c, "shutdown") \/ NextSlot(c, "emit")
  <2>1. PICK pc \in {"shutdown", "emit"} : NextSlot(c, pc)
    BY <1>7
  <2> DEFINE next == [caller[c] EXCEPT !.pc = pc, !.slot = caller[c].slot + 1, !.target = NoTask]
  <2>2. next.pc = pc /\ IdleCaller.pc = "idle"
    BY <1>0 DEF CallerStates, IdleCaller
  <2>3. caller' = [caller EXCEPT ![c] = IF next.slot \in Slots THEN next ELSE IdleCaller]
    BY <2>1 DEF NextSlot
  <2> HIDE DEF next
  <2>4. caller'[c].pc \in {"idle", "shutdown", "emit"}
    BY <1>0, <2>2, <2>3
  <2> QED BY <1>1, <1>2, <2>4 DEF Starting, Found, NotifyPcs
<1> QED
  BY <1>3, <1>4, <1>5, <1>6, <1>7
  DEF StopStep, EmitStep, ShutdownSkip, ShutdownNotify, EmitSkip, EmitNotify

\* However many threads start, stop and emit, the handles are in order.
LEMMA AlwaysHandles == Spec => []HandleInv
<1>1. Init => HandleInv
  <2> SUFFICES ASSUME Init PROVE HandleInv
    OBVIOUS
  <2>1. HandlesLive /\ TargetsNamed /\ TargetsFresh /\ FreshWorkers /\ NoHandles
    BY DEF Init, HandlesLive, TargetsNamed, Found, TargetsFresh, FreshWorkers, NoHandles, Starting, IdleCaller, NewWorker
  <2> QED BY <2>1, TypeInit DEF HandleInv
<1>2. HandleInv /\ [Next]_vars => HandleInv'
  <2> SUFFICES ASSUME HandleInv, [Next]_vars PROVE HandleInv'
    OBVIOUS
  <2>0. TypeInv /\ TypeOK /\ TypeInv' /\ TypeOK'
    BY TypeStep DEF HandleInv, TypeInv
  <2>a. \A c \in Callers : Starting(c) =>
          caller[c].target \in Workers /\ caller[c].target <= starts /\ caller[c].slot \in Slots
    BY <2>0, TaskRuntimeAssumption DEF TypeInv, TypeOK, CallerInv, Starting, CallerStates, Workers
  <2>1. ASSUME NEW c \in Starters, StartPick(c) PROVE HandleInv'
    <3>1. PICK r \in Requests, s \in Slots :
            caller' = [caller EXCEPT ![c] =
              [pc |-> "claim", slot |-> s, request |-> r, target |-> starts + 1]]
      BY <2>1 DEF StartPick, Picked, First, SlotsOf, FreeSlots
    <3>2. /\ starts' = starts + 1 /\ starts + 1 \in Workers /\ worker[starts + 1].pc = "none"
          /\ UNCHANGED <<handle, worker>>
      BY <2>0, <2>1, TaskRuntimeAssumption
      DEF StartPick, Workers, TypeOK, HandleInv, FreshWorkers
    <3>3. /\ caller'[c].target = starts + 1
          /\ \A d \in Callers : d # c => caller'[d] = caller[d]
      BY <2>0, <3>1 DEF TypeOK, Callers
    <3>4. TargetsFresh'
      <4>1. \A d \in Callers : d # c /\ Starting(d)' =>
              /\ Starting(d) /\ caller'[d].target = caller[d].target
              /\ caller'[d].target <= starts /\ caller'[d].target \in Workers
        BY <2>a, <3>3 DEF Starting
      <4>2. starts \in Nat
        BY <2>0 DEF TypeOK
      <4>3. \A d \in Callers : d # c /\ Starting(d)' => caller'[d].target # starts + 1
        BY <4>1, <4>2 DEF Workers
      <4> QED BY <3>2, <3>3, <4>1, <4>3 DEF HandleInv, TargetsFresh
    <3>5. FreshWorkers'
      BY <2>0, <3>2 DEF HandleInv, FreshWorkers, TypeOK, Workers
    <3>6. TargetsNamed'
      <4>1. caller'[c].pc = "claim"
        BY <2>0, <3>1 DEF TypeOK, Callers
      <4> QED BY <3>2, <3>3, <4>1 DEF HandleInv, TargetsNamed, Found, NotifyPcs
    <3> QED BY <2>0, <3>2, <3>4, <3>5, <3>6 DEF HandleInv, HandlesLive, NoHandles, Exists
  <2>2. ASSUME NEW c \in Starters, StartClaim(c) \/ StartCreateFails(c) PROVE HandleInv'
    <3>0. caller \in [Callers -> CallerStates] /\ c \in Callers /\ caller[c] \in CallerStates
      BY <2>0 DEF TypeOK, Callers
    <3>1. /\ \A d \in Callers : Starting(d)' => Starting(d) /\ caller'[d].target = caller[d].target
          /\ \A d \in Callers : d # c => caller'[d] = caller[d]
          /\ ~Found(c)'
      <4>1. CASE StartClaim(c)
        <5>1. caller[c].pc = "claim" /\ caller' = [caller EXCEPT ![c] = [caller[c] EXCEPT !.pc = "create"]]
          BY <3>0, <4>1 DEF StartClaim, Goto
        <5> QED BY <3>0, <5>1 DEF Starting, CallerStates, Found, NotifyPcs
      <4>2. CASE StartCreateFails(c)
        BY <3>0, <4>2 DEF StartCreateFails, IdleCaller, Starting, Found, NotifyPcs
      <4> QED BY <2>2, <4>1, <4>2
    <3>2. UNCHANGED <<handle, starts, worker>>
      BY <2>2 DEF StartClaim, StartCreateFails
    <3>3. \A d \in Callers : Found(d)' => Found(d) /\ caller'[d] = caller[d]
      BY <3>1 DEF Found
    <3> QED BY <2>0, <3>1, <3>2, <3>3, HandleFrame DEF Exists
  <2>3. ASSUME NEW c \in Starters, StartCreate(c) PROVE HandleInv'
    <3> DEFINE s == caller[c].slot
               w == caller[c].target
    <3>1. /\ c \in Callers /\ Starting(c) /\ s \in Slots /\ w \in Workers /\ w <= starts
          /\ worker[w].pc = "none"
      BY <2>3, <2>a DEF StartCreate, Starting, Callers, HandleInv, TargetsFresh
    <3>2. /\ worker'[w].pc = "open" /\ worker'[w].slot = s
          /\ \A v \in Workers : v # w => worker'[v] = worker[v]
      BY <2>0, <2>3, <3>1 DEF StartCreate, NewWorker, TypeOK
    <3>3. /\ ~Starting(c)' /\ ~Found(c)'
          /\ \A d \in Callers : d # c => caller'[d] = caller[d]
      BY <2>0, <2>3, <3>1 DEF StartCreate, IdleCaller, Starting, Found, NotifyPcs, TypeOK
    <3>4. UNCHANGED starts /\ handle' = IF Port = "esp" THEN [handle EXCEPT ![s] = w] ELSE handle
      BY <2>3 DEF StartCreate
    <3>5. \A d \in Callers : Starting(d) /\ d # c => caller[d].target # w
      BY <3>1 DEF HandleInv, TargetsFresh
    <3> HIDE DEF s, w
    <3>6. HandlesLive'
      <4> SUFFICES ASSUME NEW t \in Slots, handle'[t] # NoTask
                   PROVE  /\ worker'[handle'[t]].pc \notin {"none", "dead"}
                          /\ worker'[handle'[t]].slot = t
        BY DEF HandlesLive, Exists
      <4>0. handle \in [Slots -> {NoTask} \cup Workers]
        BY <2>0 DEF TypeOK
      <4>1. CASE Port = "esp" /\ t = s
        BY <3>1, <3>2, <3>4, <4>0, <4>1
      <4>2. CASE ~(Port = "esp" /\ t = s)
        <5>1. handle'[t] = handle[t] /\ handle[t] \in Workers
          BY <3>4, <4>0, <4>2
        <5>2. /\ worker[handle[t]].pc \notin {"none", "dead"}
              /\ worker[handle[t]].slot = t
          BY <5>1 DEF HandleInv, HandlesLive, Exists
        <5> QED BY <3>1, <3>2, <5>1, <5>2
      <4> QED BY <4>1, <4>2
    <3>7. TargetsFresh'
      BY <2>a, <3>2, <3>3, <3>5 DEF HandleInv, TargetsFresh, Starting
    <3>8. FreshWorkers' /\ NoHandles'
      BY <2>0, <3>1, <3>2, <3>4 DEF HandleInv, FreshWorkers, NoHandles, TypeOK, Workers
    <3>9. TargetsNamed'
      <4>1. \A d \in Callers : Found(d) => caller[d].target \in Workers
        BY <2>0 DEF Found, TypeOK, CallerStates
      <4>2. \A d \in Callers : Found(d)' => d # c /\ Found(d) /\ caller'[d] = caller[d]
        BY <3>3 DEF Found
      <4> QED BY <3>1, <3>2, <4>1, <4>2 DEF HandleInv, TargetsNamed
    <3> QED BY <2>0, <3>6, <3>7, <3>8, <3>9 DEF HandleInv
  <2>4. ASSUME NEW c \in Callers, NotifyFound(c) PROVE HandleInv'
    <3>1. /\ caller[c].slot \in Slots /\ handle[caller[c].slot] \in Workers
          /\ caller'[c].target = handle[caller[c].slot] /\ caller'[c].slot = caller[c].slot
          /\ caller'[c].pc = caller[c].pc /\ caller[c].pc \in NotifyPcs
          /\ \A d \in Callers : d # c => caller'[d] = caller[d]
          /\ UNCHANGED <<handle, starts, worker>>
      BY <2>0, <2>4 DEF NotifyFound, TypeOK, CallerStates
    <3>2. TargetsNamed'
      BY <3>1 DEF HandleInv, HandlesLive, Exists, TargetsNamed, Found
    <3>3. TargetsFresh'
      BY <3>1 DEF HandleInv, TargetsFresh, Starting, NotifyPcs
    <3>4. HandlesLive' /\ FreshWorkers' /\ NoHandles'
      BY <3>1 DEF HandleInv, HandlesLive, Exists, FreshWorkers, NoHandles
    <3> QED BY <2>0, <3>2, <3>3, <3>4 DEF HandleInv
  <2>8. ASSUME NEW c \in Callers, StopStep(c) \/ EmitStep(c), ~NotifyFound(c) PROVE HandleInv'
    <3>1. /\ \A d \in Callers : Starting(d)' => Starting(d) /\ caller'[d].target = caller[d].target
          /\ \A d \in Callers : Found(d)' => Found(d) /\ caller'[d] = caller[d]
      BY <2>0, <2>8, OthersStartNothing DEF Starting, Found
    <3>2. UNCHANGED worker \/ Notify(c)
      BY <2>8 DEF StopStep, StopFind, StopRequest, StopNotify, ShutdownBegin, ShutdownSkip,
           ShutdownRequest, ShutdownNotify, EmitStep, EmitBegin, EmitSkip, EmitMatch, EmitPush, EmitNotify
    <3>3. UNCHANGED <<handle, starts>>
      BY <2>8 DEF StopStep, StopFind, StopRequest, StopNotify, ShutdownBegin, ShutdownSkip,
           ShutdownRequest, ShutdownNotify, EmitStep, EmitBegin, EmitSkip, EmitMatch, EmitPush, EmitNotify
    <3>5. \A v \in Workers : /\ worker'[v].slot = worker[v].slot
                             /\ worker[v].pc = "none" <=> worker'[v].pc = "none"
                             /\ Exists(v) => Exists(v)'
      BY <2>0, <3>2, NotifyExists DEF Exists
    <3> QED BY <2>0, <3>1, <3>3, <3>5, HandleFrame
  <2>5. ASSUME NEW w \in Workers, Exit(w) PROVE HandleInv'
    <3>1. /\ worker'[w].pc = "dead" /\ worker'[w].slot = worker[w].slot /\ worker[w].pc # "none"
          /\ \A v \in Workers : v # w => worker'[v] = worker[v]
      BY <2>0, <2>5 DEF Exit, WGoto, TypeOK, WorkerStates
    <3>2. handle' = [handle EXCEPT ![worker[w].slot] = NoTask] /\ UNCHANGED <<starts, caller>>
      BY <2>5 DEF Exit
    <3>3. HandlesLive'
      <4> SUFFICES ASSUME NEW s \in Slots, handle'[s] # NoTask
                   PROVE Exists(handle[s])' /\ (worker[handle[s]].slot)' = s
        BY DEF HandlesLive
      <4>1. handle'[s] = handle[s] /\ s # worker[w].slot
        BY <2>0, <3>2 DEF TypeOK
      <4>2. handle[s] \in Workers /\ Exists(handle[s]) /\ worker[handle[s]].slot = s
        BY <2>0, <4>1 DEF HandleInv, HandlesLive, TypeOK, NoTask
      <4>3. handle[s] # w /\ worker'[handle[s]] = worker[handle[s]]
        BY <3>1, <4>1, <4>2
      <4> QED BY <4>1, <4>2, <4>3 DEF Exists
    <3>6. TargetsNamed'
      BY <2>0, <3>1, <3>2 DEF HandleInv, TargetsNamed, Found, TypeOK, CallerStates
    <3>4. TargetsFresh'
      BY <2>a, <3>1, <3>2 DEF HandleInv, TargetsFresh, Starting
    <3>5. FreshWorkers' /\ NoHandles'
      BY <2>0, <3>1, <3>2 DEF HandleInv, FreshWorkers, NoHandles, TypeOK
    <3> QED BY <2>0, <3>3, <3>4, <3>5, <3>6 DEF HandleInv
  <2>6. ASSUME NEW w \in Workers, WorkerStep(w), ~Exit(w) PROVE HandleInv'
    <3>1. UNCHANGED <<handle, starts, caller>>
      BY <2>6 DEF WorkerStep, WorkerOpen, WorkerOpenFails, LoopStop, LoopPeriodic, LoopTake, LoopEmpty,
           WaitNotified, WaitOnCondition, StepRecord, Finish
    <3>2. /\ worker \in [Workers -> WorkerStates] /\ worker[w] \in WorkerStates
          /\ worker[w].pc \notin {"none", "dead"}
      BY <2>0, <2>6 DEF WorkerStep, WorkerOpen, WorkerOpenFails, LoopStop, LoopPeriodic, LoopTake, LoopEmpty,
           WaitNotified, WaitOnCondition, StepRecord, Finish, TypeOK
    <3>3. /\ \A v \in Workers : v # w => worker'[v] = worker[v]
          /\ worker'[w].slot = worker[w].slot
          /\ worker'[w].pc # "none" /\ (Port = "esp" => worker'[w].pc # "dead")
      <4>1. CASE WorkerOpen(w) \/ WorkerOpenFails(w) \/ LoopStop(w) \/ LoopPeriodic(w) \/ LoopEmpty(w)
        BY <3>2, <4>1 DEF WorkerOpen, WorkerOpenFails, LoopStop, LoopPeriodic, LoopEmpty, WGoto, WorkerStates
      <4>2. CASE LoopTake(w)
        BY <3>2, <4>2 DEF LoopTake, WorkerStates
      <4>3. CASE StepRecord(w)
        BY <3>2, <4>3 DEF StepRecord, WorkerStates
      <4>4. CASE WaitNotified(w) \/ WaitOnCondition(w) \/ Finish(w)
        BY <3>2, <4>4 DEF WaitNotified, WaitOnCondition, Finish, WGoto, WorkerStates
      <4> QED BY <2>6, <4>1, <4>2, <4>3, <4>4 DEF WorkerStep
    <3>4. \A v \in Workers : /\ worker'[v].slot = worker[v].slot
                             /\ worker[v].pc = "none" <=> worker'[v].pc = "none"
                             /\ Port = "esp" => (Exists(v) => Exists(v)')
      BY <3>2, <3>3 DEF Exists
    <3> QED BY <2>0, <3>1, <3>4, HandleFrame DEF Starting, Found
  <2>7. CASE UNCHANGED vars
    BY <2>0, <2>7, HandleFrame DEF vars, Exists, Starting, Found
  <2> QED BY <2>1, <2>2, <2>3, <2>4, <2>5, <2>6, <2>7, <2>8 DEF Next, StartStep, Callers
<1> QED BY <1>1, <1>2, PTL DEF Spec

\* However many threads start, stop and emit, a handle left in a slot is that of a
\* worker of the slot that has not deleted itself (what task_runtime_worker writes
\* last, 416, makes this true); and what a caller has found in a slot and is about to
\* use is a worker of that slot, or was one and is not named there any more.
THEOREM HandlesAreLive == Spec => []HandleIsLive
BY AlwaysHandles, HandleInvImplies, PTL

-----------------------------------------------------------------------------
(* Who owns a slot.                                                        *)

StartingAt(c, s) == Starting(c) /\ caller[c].slot = s
RunningOn(w, s) == Running(w) /\ worker[w].slot = s

\* A slot that was not contested: one start at most is about to arm it or has armed
\* it; until then it is free and nothing runs on it, and from then on it is active
\* until the worker of that start, which is the only one that runs on it, ends.
SlotInv(s) ==
  /\ \A c, d \in Callers : StartingAt(c, s) /\ StartingAt(d, s) => c = d
  /\ \A c \in Callers : StartingAt(c, s) =>
       (caller[c].pc = "claim" => ~status[s].active)
         /\ (caller[c].pc = "create" => status[s].active /\ owner[s] = caller[c].target)
  /\ \A w \in Workers : RunningOn(w, s) => status[s].active /\ owner[s] = w
  /\ status[s].active =>
       \/ \E c \in Callers : caller[c].pc = "create" /\ caller[c].slot = s
       \/ owner[s] \in Workers /\ RunningOn(owner[s], s)

OwnInv == HandleInv /\ \A s \in Slots \ contested : SlotInv(s)

\* A step that concerns other slots.
LEMMA SlotFrame ==
  ASSUME NEW s \in Slots, SlotInv(s),
         status'[s].active = status[s].active, owner'[s] = owner[s],
         \A w \in Workers : RunningOn(w, s)' <=> RunningOn(w, s),
         \A c \in Callers : StartingAt(c, s)' <=> StartingAt(c, s),
         \A c \in Callers : StartingAt(c, s) =>
           caller'[c].pc = caller[c].pc /\ caller'[c].target = caller[c].target
  PROVE  SlotInv(s)'
<1>1. /\ \A c, d \in Callers : StartingAt(c, s)' /\ StartingAt(d, s)' => c = d
      /\ \A w \in Workers : RunningOn(w, s)' => status'[s].active /\ owner'[s] = w
  BY DEF SlotInv
<1>2. ASSUME NEW c \in Callers, StartingAt(c, s)'
      PROVE  /\ caller'[c].pc = "claim" => ~status'[s].active
             /\ caller'[c].pc = "create" => status'[s].active /\ owner'[s] = caller'[c].target
  BY <1>2 DEF SlotInv
<1>3. ASSUME status'[s].active
      PROVE  \/ \E c \in Callers : caller'[c].pc = "create" /\ caller'[c].slot = s
             \/ (owner[s] \in Workers /\ RunningOn(owner[s], s))'
  <2>1. CASE \E c \in Callers : caller[c].pc = "create" /\ caller[c].slot = s
    <3>1. PICK c \in Callers : caller[c].pc = "create" /\ caller[c].slot = s
      BY <2>1
    <3>2. StartingAt(c, s)' /\ caller'[c].pc = "create"
      BY <3>1 DEF StartingAt, Starting
    <3> QED BY <3>2 DEF StartingAt
  <2>2. CASE owner[s] \in Workers /\ RunningOn(owner[s], s)
    <3>1. PICK w \in Workers : w = owner[s]
      BY <2>2
    <3>2. RunningOn(w, s)' /\ owner'[s] = w
      BY <2>2, <3>1
    <3>3. Running(owner[s])' /\ worker'[owner'[s]].slot = s
      BY <3>2 DEF RunningOn, Running
    <3> QED BY <3>1, <3>2, <3>3 DEF RunningOn
  <2> QED BY <1>3, <2>1, <2>2 DEF SlotInv
<1> QED BY <1>1, <1>2, <1>3 DEF SlotInv

\* A notification creates no worker, ends none and moves none to another slot.
LEMMA NotifyFrame ==
  ASSUME TypeOK, NEW c \in Callers, Notify(c)
  PROVE  \A v \in Workers : worker'[v].slot = worker[v].slot /\ (Running(v)' <=> Running(v))
<1>1. \/ worker' = worker
      \/ \E w \in Workers : worker[w].pc = "blocked" /\ WGoto(w, "wait")
  BY DEF Notify, NotifyNobody, NotifyGive, NotifySignal, WGoto
<1>2. CASE worker' = worker
  BY <1>2 DEF Running
<1>3. ASSUME NEW w \in Workers, worker[w].pc = "blocked", WGoto(w, "wait")
      PROVE  \A v \in Workers : worker'[v].slot = worker[v].slot /\ (Running(v)' <=> Running(v))
  BY <1>3 DEF TypeOK, WGoto, Running, WorkerStates, WorkerPcs
<1> QED BY <1>1, <1>2, <1>3

\* What a start knows of the slot it picks.
LEMMA PickedFree ==
  ASSUME NEW id, NEW s \in Picked(id)
  PROVE  s \in Slots /\ ~status[s].active
BY DEF Picked, First, SlotsOf, FreeSlots

\* Only a slot that was not picked by two at once is uncontested after a start
\* picked it.
LEMMA PickOwns ==
  ASSUME OwnInv, NEW c \in Starters, StartPick(c), NEW t \in Slots, t \notin contested'
  PROVE  SlotInv(t)'
<1>0. /\ c \in Callers /\ caller \in [Callers -> CallerStates] /\ UNCHANGED <<status, owner, worker>>
      /\ Callers \cap Starters = Starters
      /\ \A d \in Callers : Starting(d) => d \in Starters
  BY DEF OwnInv, HandleInv, TypeInv, TypeOK, CallerInv, Starting, StartPick, Callers
<1>a. PICK r \in Requests : \E s \in Picked(r.id) :
        /\ caller' = [caller EXCEPT ![c] =
             [pc |-> "claim", slot |-> s, request |-> r, target |-> starts + 1]]
        /\ contested' = Contest(c, s)
  BY DEF StartPick
<1>1. PICK s \in Picked(r.id) :
        /\ caller' = [caller EXCEPT ![c] =
             [pc |-> "claim", slot |-> s, request |-> r, target |-> starts + 1]]
        /\ contested' = Contest(c, s)
  BY <1>a
<1>2. /\ caller[c].pc = "idle" /\ caller'[c].pc = "claim" /\ caller'[c].slot = s
      /\ \A d \in Callers : d # c => caller'[d] = caller[d]
  BY <1>0, <1>1 DEF StartPick
<1>3. s \in Slots /\ ~status[s].active
  BY PickedFree
<1>4. CASE t # s
  <2>1. t \notin contested
    BY <1>1, <1>4 DEF Contest
  <2>2. \A d \in Callers : d # c => (StartingAt(d, t)' <=> StartingAt(d, t))
    BY <1>2 DEF StartingAt, Starting
  <2>3. ~StartingAt(c, t) /\ ~StartingAt(c, t)'
    BY <1>2, <1>4 DEF StartingAt, Starting
  <2>4. \A w \in Workers : RunningOn(w, t)' <=> RunningOn(w, t)
    BY <1>0 DEF RunningOn, Running
  <2> QED BY <1>0, <1>2, <2>1, <2>2, <2>3, <2>4, SlotFrame DEF OwnInv
<1>5. CASE t = s
  <2>1. Rivals(c, s, {"claim"}) = {}
    BY <1>1, <1>5 DEF Contest
  <2>2. Rivals(c, s, {"create"}) = {} /\ \A w \in Workers : ~RunningOn(w, s)
    <3>1. CASE s \in contested
      BY <1>1, <1>5, <2>1, <3>1 DEF Contest, RunningOn
    <3>2. CASE s \notin contested
      <4>1. SlotInv(s)
        BY <1>3, <3>2 DEF OwnInv
      <4>2. \A d \in Callers : caller[d].pc = "create" => caller[d].slot # s
        BY <1>3, <4>1 DEF SlotInv, StartingAt, Starting
      <4> QED BY <1>0, <1>3, <4>1, <4>2 DEF SlotInv, Rivals
    <3> QED BY <3>1, <3>2
  <2>3. \A d \in Callers : d # c => ~StartingAt(d, s)
    BY <1>0, <2>1, <2>2 DEF Rivals, StartingAt, Starting
  <2>4. \A d \in Callers : StartingAt(d, s)' => d = c
    BY <1>2, <2>3 DEF StartingAt, Starting
  <2>5. \A w \in Workers : ~RunningOn(w, s)'
    BY <1>0, <2>2 DEF RunningOn, Running
  <2> QED BY <1>0, <1>2, <1>3, <1>5, <2>4, <2>5 DEF SlotInv
<1> QED BY <1>4, <1>5

\* The slot a start has picked is its own when it arms it.
LEMMA ClaimOwns ==
  ASSUME OwnInv, NEW c \in Starters, StartClaim(c), NEW t \in Slots, t \notin contested
  PROVE  SlotInv(t)'
<1> DEFINE s == caller[c].slot
           w == caller[c].target
<1>0. /\ c \in Callers /\ caller \in [Callers -> CallerStates] /\ s \in Slots
      /\ status \in [Slots -> Statuses] /\ owner \in [Slots -> {0} \cup Workers]
      /\ UNCHANGED worker /\ caller[c].pc = "claim" /\ SlotInv(t)
  BY DEF OwnInv, HandleInv, TypeInv, TypeOK, CallerStates, StartClaim, Callers
<1>1. /\ status'[s].active /\ owner'[s] = w
      /\ \A u \in Slots : u # s => status'[u] = status[u] /\ owner'[u] = owner[u]
  BY <1>0 DEF StartClaim, Blank
<1>2. /\ caller'[c].pc = "create" /\ caller'[c].slot = s /\ caller'[c].target = w
      /\ \A d \in Callers : d # c => caller'[d] = caller[d]
  BY <1>0 DEF StartClaim, Goto, CallerStates
<1>3. \A v \in Workers : RunningOn(v, t)' <=> RunningOn(v, t)
  BY <1>0 DEF RunningOn, Running
<1>4. \A d \in Callers : StartingAt(d, t)' <=> StartingAt(d, t)
  BY <1>0, <1>2 DEF StartingAt, Starting
<1> HIDE DEF s, w
<1>5. CASE t # s
  <2>1. ~StartingAt(c, t)
    BY <1>5 DEF StartingAt, s
  <2>2. \A d \in Callers : StartingAt(d, t) => caller'[d] = caller[d]
    BY <1>2, <2>1
  <2> QED BY <1>0, <1>1, <1>3, <1>4, <1>5, <2>2, SlotFrame
<1>6. CASE t = s
  <2>1. StartingAt(c, t)
    BY <1>0, <1>6 DEF StartingAt, Starting, s
  <2>2. \A d \in Callers : StartingAt(d, t) => d = c
    BY <1>0, <2>1 DEF SlotInv
  <2>3. ~status[t].active
    BY <1>0, <2>1 DEF SlotInv
  <2>4. \A v \in Workers : ~RunningOn(v, t)'
    BY <1>0, <1>3, <2>3 DEF SlotInv
  <2> QED BY <1>0, <1>1, <1>2, <1>4, <1>6, <2>2, <2>4 DEF SlotInv
<1> QED BY <1>5, <1>6

\* So is it when its worker is created.
LEMMA CreateOwns ==
  ASSUME OwnInv, NEW c \in Starters, StartCreate(c), NEW t \in Slots, t \notin contested
  PROVE  SlotInv(t)'
<1> DEFINE s == caller[c].slot
           w == caller[c].target
<1>0. /\ c \in Callers /\ caller \in [Callers -> CallerStates] /\ s \in Slots /\ w \in Workers
      /\ UNCHANGED <<status, owner>> /\ caller[c].pc = "create" /\ SlotInv(t)
  BY TaskRuntimeAssumption
  DEF OwnInv, HandleInv, TypeInv, TypeOK, CallerInv, CallerStates, StartCreate, Callers, Workers
<1>1. /\ worker[w].pc = "none" /\ worker'[w].pc = "open" /\ worker'[w].slot = s
      /\ \A v \in Workers : v # w => worker'[v] = worker[v]
  BY <1>0 DEF StartCreate, NewWorker, OwnInv, HandleInv, TargetsFresh, Starting, TypeInv, TypeOK
<1>2. /\ caller'[c].pc = "idle"
      /\ \A d \in Callers : d # c => caller'[d] = caller[d]
  BY <1>0 DEF StartCreate, IdleCaller
<1>3. \A d \in Callers : StartingAt(d, t)' <=> StartingAt(d, t) /\ d # c
  BY <1>0, <1>2 DEF StartingAt, Starting
<1>4. \A v \in Workers : RunningOn(v, t)' <=> RunningOn(v, t) \/ (v = w /\ t = s)
  BY <1>0, <1>1 DEF RunningOn, Running
<1> HIDE DEF s, w
<1>5. CASE t # s
  <2>1. ~StartingAt(c, t)
    BY <1>5 DEF StartingAt, s
  <2> QED BY <1>0, <1>2, <1>3, <1>4, <1>5, <2>1, SlotFrame
<1>6. CASE t = s
  <2>1. StartingAt(c, t)
    BY <1>0, <1>6 DEF StartingAt, Starting, s
  <2>2. \A d \in Callers : ~StartingAt(d, t)'
    BY <1>0, <1>3, <2>1 DEF SlotInv
  <2>3. status[t].active /\ owner[t] = w
    BY <1>0, <2>1 DEF SlotInv, w
  <2>4. \A v \in Workers : RunningOn(v, t) => v = w
    BY <1>0, <2>3 DEF SlotInv
  <2> QED BY <1>0, <1>4, <1>6, <2>2, <2>3, <2>4 DEF SlotInv
<1> QED BY <1>5, <1>6

\* And it is given back when the worker cannot be created.
LEMMA FailOwns ==
  ASSUME OwnInv, NEW c \in Starters, StartCreateFails(c), NEW t \in Slots, t \notin contested
  PROVE  SlotInv(t)'
<1> DEFINE s == caller[c].slot
<1>0. /\ c \in Callers /\ caller \in [Callers -> CallerStates] /\ s \in Slots
      /\ status \in [Slots -> Statuses] /\ caller[c].target \in Workers
      /\ UNCHANGED <<worker, owner>> /\ caller[c].pc = "create" /\ SlotInv(t)
  BY TaskRuntimeAssumption
  DEF OwnInv, HandleInv, TypeInv, TypeOK, CallerInv, CallerStates, StartCreateFails, Callers, Workers
<1>1. ~status'[s].active /\ \A u \in Slots : u # s => status'[u] = status[u]
  BY <1>0 DEF StartCreateFails, Blank, Statuses
<1>2. /\ caller'[c].pc = "idle"
      /\ \A d \in Callers : d # c => caller'[d] = caller[d]
  BY <1>0 DEF StartCreateFails, IdleCaller
<1>3. \A d \in Callers : StartingAt(d, t)' <=> StartingAt(d, t) /\ d # c
  BY <1>0, <1>2 DEF StartingAt, Starting
<1>4. \A v \in Workers : RunningOn(v, t)' <=> RunningOn(v, t)
  BY <1>0 DEF RunningOn, Running
<1>5. worker[caller[c].target].pc = "none"
  BY <1>0 DEF OwnInv, HandleInv, TargetsFresh, Starting
<1> HIDE DEF s
<1>6. CASE t # s
  <2>1. ~StartingAt(c, t)
    BY <1>6 DEF StartingAt, s
  <2> QED BY <1>0, <1>1, <1>2, <1>3, <1>4, <1>6, <2>1, SlotFrame
<1>7. CASE t = s
  <2>1. StartingAt(c, t)
    BY <1>0, <1>7 DEF StartingAt, Starting, s
  <2>2. \A d \in Callers : ~StartingAt(d, t)'
    BY <1>0, <1>3, <2>1 DEF SlotInv
  <2>3. owner[t] = caller[c].target
    BY <1>0, <2>1 DEF SlotInv
  <2>4. \A v \in Workers : ~RunningOn(v, t)
    BY <1>0, <1>5, <2>3 DEF SlotInv, RunningOn, Running
  <2> QED BY <1>1, <1>4, <1>7, <2>2, <2>4 DEF SlotInv
<1> QED BY <1>6, <1>7

\* A worker that ends its task gives its slot back.
LEMMA FinishOwns ==
  ASSUME OwnInv, NEW w \in Workers, Finish(w), NEW t \in Slots, t \notin contested
  PROVE  SlotInv(t)'
<1> DEFINE s == worker[w].slot
<1>0. /\ s \in Slots /\ status \in [Slots -> Statuses] /\ worker \in [Workers -> WorkerStates]
      /\ UNCHANGED <<caller, owner>> /\ worker[w].pc = "finish" /\ SlotInv(t)
  BY DEF OwnInv, HandleInv, TypeInv, TypeOK, WorkerStates, Finish
<1>1. ~status'[s].active /\ \A u \in Slots : u # s => status'[u] = status[u]
  BY <1>0 DEF Finish, Statuses
<1>2. /\ worker'[w].pc \in {"exit", "dead"}
      /\ \A v \in Workers : v # w => worker'[v] = worker[v]
  BY <1>0 DEF Finish, WGoto, WorkerStates
<1>3. \A d \in Callers : StartingAt(d, t)' <=> StartingAt(d, t)
  BY <1>0 DEF StartingAt, Starting
<1>4. \A v \in Workers : RunningOn(v, t)' <=> RunningOn(v, t) /\ v # w
  BY <1>0, <1>2 DEF RunningOn, Running
<1> HIDE DEF s
<1>5. CASE t # s
  <2>1. ~RunningOn(w, t)
    BY <1>5 DEF RunningOn, s
  <2> QED BY <1>0, <1>1, <1>3, <1>4, <1>5, <2>1, SlotFrame
<1>6. CASE t = s
  <2>1. RunningOn(w, t)
    BY <1>0, <1>6 DEF RunningOn, Running, s
  <2>2. status[t].active /\ owner[t] = w
    BY <1>0, <2>1 DEF SlotInv
  <2>3. \A v \in Workers : ~RunningOn(v, t)'
    BY <1>0, <1>4, <2>2 DEF SlotInv
  <2>4. \A d \in Callers : ~StartingAt(d, t)
    <3>1. ASSUME NEW d \in Callers, StartingAt(d, t) PROVE FALSE
      <4>1. caller[d].pc = "create" /\ owner[t] = caller[d].target
        BY <1>0, <2>2, <3>1 DEF SlotInv, StartingAt, Starting
      <4>2. worker[w].pc = "none"
        BY <2>2, <3>1, <4>1 DEF OwnInv, HandleInv, TargetsFresh, StartingAt
      <4> QED BY <1>0, <4>2
    <3> QED BY <3>1
  <2> QED BY <1>1, <1>3, <1>6, <2>3, <2>4 DEF SlotInv
<1> QED BY <1>5, <1>6

\* A worker's other steps neither create nor end one.
LEMMA WorkerRuns ==
  ASSUME TypeOK, NEW w \in Workers, WorkerStep(w), ~Finish(w)
  PROVE  \A v \in Workers : worker'[v].slot = worker[v].slot /\ (Running(v)' <=> Running(v))
<1>0. worker \in [Workers -> WorkerStates] /\ worker[w] \in WorkerStates
  BY DEF TypeOK
<1>1. SUFFICES /\ \A v \in Workers : v # w => worker'[v] = worker[v]
               /\ worker'[w].slot = worker[w].slot /\ (Running(w)' <=> Running(w))
  BY DEF Running
<1>2. CASE WorkerOpen(w) \/ WorkerOpenFails(w) \/ LoopStop(w) \/ LoopPeriodic(w) \/ LoopEmpty(w)
  BY <1>0, <1>2 DEF WorkerOpen, WorkerOpenFails, LoopStop, LoopPeriodic, LoopEmpty, WGoto, Running, WorkerStates
<1>3. CASE LoopTake(w)
  BY <1>0, <1>3 DEF LoopTake, Running, WorkerStates
<1>4. CASE StepRecord(w)
  BY <1>0, <1>4 DEF StepRecord, Running, WorkerStates
<1>5. CASE WaitNotified(w) \/ WaitOnCondition(w) \/ Exit(w)
  BY <1>0, <1>5 DEF WaitNotified, WaitOnCondition, Exit, WGoto, Running, WorkerStates
<1> QED BY <1>2, <1>3, <1>4, <1>5 DEF WorkerStep

\* In every state every uncontested slot has its owner.
LEMMA AlwaysOwned == Spec => []OwnInv
<1>1. Init => OwnInv
  <2> SUFFICES ASSUME Init PROVE OwnInv
    OBVIOUS
  <2>1. HandlesLive /\ TargetsNamed /\ TargetsFresh /\ FreshWorkers /\ NoHandles
    BY DEF Init, HandlesLive, TargetsNamed, Found, TargetsFresh, FreshWorkers, NoHandles, Starting, IdleCaller, NewWorker
  <2>2. \A s \in Slots : SlotInv(s)
    BY DEF Init, SlotInv, StartingAt, Starting, RunningOn, Running, IdleCaller, NewWorker, Blank
  <2> QED BY <2>1, <2>2, TypeInit DEF OwnInv, HandleInv
<1>2. OwnInv /\ HandleInv' /\ [Next]_vars => OwnInv'
  <2> SUFFICES ASSUME OwnInv, HandleInv', [Next]_vars, NEW t \in Slots, t \notin contested'
               PROVE  SlotInv(t)'
    BY DEF OwnInv, Slots
  <2>0. TypeInv /\ TypeOK
    BY DEF OwnInv, HandleInv, TypeInv
  <2>1. ASSUME NEW c \in Starters, StartPick(c) PROVE SlotInv(t)'
    BY <2>1, PickOwns
  <2>2. ASSUME NEW c \in Starters, StartClaim(c) PROVE SlotInv(t)'
    BY <2>2, ClaimOwns DEF StartClaim
  <2>3. ASSUME NEW c \in Starters, StartCreate(c) PROVE SlotInv(t)'
    BY <2>3, CreateOwns DEF StartCreate
  <2>4. ASSUME NEW c \in Starters, StartCreateFails(c) PROVE SlotInv(t)'
    BY <2>4, FailOwns DEF StartCreateFails
  <2>5. ASSUME NEW w \in Workers, Finish(w) PROVE SlotInv(t)'
    BY <2>5, FinishOwns DEF Finish
  <2>6. ASSUME NEW c \in Callers, StopStep(c) \/ EmitStep(c) PROVE SlotInv(t)'
    <3>1. \A d \in Callers : StartingAt(d, t) \/ StartingAt(d, t)' => caller'[d] = caller[d]
      BY <2>0, <2>6, OthersStartNothing DEF StartingAt
    <3>2. UNCHANGED worker \/ Notify(c)
      BY <2>6 DEF StopStep, StopFind, StopRequest, NotifyFound, StopNotify, ShutdownBegin, ShutdownSkip,
           ShutdownRequest, ShutdownNotify, EmitStep, EmitBegin, EmitSkip, EmitMatch, EmitPush, EmitNotify
    <3>3. UNCHANGED <<owner, contested>>
      BY <2>6 DEF StopStep, StopFind, StopRequest, NotifyFound, StopNotify, ShutdownBegin, ShutdownSkip,
           ShutdownRequest, ShutdownNotify, EmitStep, EmitBegin, EmitSkip, EmitMatch, EmitPush, EmitNotify
    <3>4. status'[t].active = status[t].active
      <4>1. CASE StopRequest(c) \/ ShutdownRequest(c)
        <5>1. status' = [status EXCEPT ![caller[c].slot].stop = TRUE]
          BY <4>1 DEF StopRequest, ShutdownRequest
        <5>2. status \in [Slots -> Statuses]
          BY <2>0 DEF TypeOK
        <5> QED BY <5>1, <5>2 DEF Statuses
      <4>2. CASE ~StopRequest(c) /\ ~ShutdownRequest(c)
        BY <2>6, <4>2 DEF StopStep, StopFind, NotifyFound, StopNotify, ShutdownBegin, ShutdownSkip,
             ShutdownNotify, EmitStep, EmitBegin, EmitSkip, EmitMatch, EmitPush, EmitNotify
      <4> QED BY <4>1, <4>2
    <3>5. \A v \in Workers : RunningOn(v, t)' <=> RunningOn(v, t)
      BY <2>0, <3>2, NotifyFrame DEF RunningOn, Running
    <3>6. \A d \in Callers : StartingAt(d, t)' <=> StartingAt(d, t)
      BY <3>1 DEF StartingAt, Starting
    <3> QED BY <3>1, <3>3, <3>4, <3>5, <3>6, SlotFrame DEF OwnInv
  <2>7. ASSUME NEW w \in Workers, WorkerStep(w), ~Finish(w) PROVE SlotInv(t)'
    <3>1. UNCHANGED <<caller, owner, contested>>
      BY <2>7 DEF WorkerStep, WorkerOpen, WorkerOpenFails, LoopStop, LoopPeriodic, LoopTake, LoopEmpty,
           WaitNotified, WaitOnCondition, StepRecord, Exit
    <3>2. \A v \in Workers : RunningOn(v, t)' <=> RunningOn(v, t)
      BY <2>0, <2>7, WorkerRuns DEF RunningOn
    <3>3. status'[t].active = status[t].active
      <4>1. CASE StepRecord(w)
        BY <2>0, <4>1 DEF StepRecord, TypeOK, Statuses
      <4>2. CASE ~StepRecord(w)
        BY <2>7, <4>2 DEF WorkerStep, WorkerOpen, WorkerOpenFails, LoopStop, LoopPeriodic, LoopTake, LoopEmpty,
             WaitNotified, WaitOnCondition, Exit
      <4> QED BY <4>1, <4>2
    <3> QED BY <3>1, <3>2, <3>3, SlotFrame DEF OwnInv, StartingAt, Starting
  <2>8. CASE UNCHANGED vars
    BY <2>8, SlotFrame DEF vars, OwnInv, StartingAt, Starting, RunningOn, Running
  <2> QED BY <2>1, <2>2, <2>3, <2>4, <2>5, <2>6, <2>7, <2>8 DEF Next, StartStep, Callers
<1> QED BY <1>1, <1>2, AlwaysHandles, PTL DEF Spec

\* However many threads start tasks, no two workers run on one slot, whatever is
\* stopped, fails or ends meanwhile, unless two starts picked the slot at once.
THEOREM SlotOwnership == Spec => []OneWorkerPerSlot
<1>1. OwnInv => OneWorkerPerSlot
  BY DEF OwnInv, HandleInv, TypeInv, TypeOK, WorkerStates, SlotInv, RunningOn, OneWorkerPerSlot
<1> QED BY <1>1, AlwaysOwned, PTL

\* However many threads start tasks, a slot that no two starts picked at once is active
\* exactly while a worker runs on it or is being created for it: none stays occupied
\* after its task ended, none is given away while its worker is still to write to it.
THEOREM ActiveSlotsRun == Spec => []ActiveMeansRunning
<1>1. OwnInv => ActiveMeansRunning
  BY DEF OwnInv, SlotInv, RunningOn, StartingAt, Starting, ActiveMeansRunning
<1> QED BY <1>1, AlwaysOwned, PTL

-----------------------------------------------------------------------------
(* No wakeup is lost.                                                      *)

Notifying(c) == caller[c].pc \in NotifyPcs

\* Only a pthread worker sleeps on a condition variable.
BlockedOnPthread == Port = "esp" => \A w \in Workers : worker[w].pc # "blocked"

\* A step that puts no worker to sleep and leaves no work unannounced.
LEMMA WakeFrame ==
  ASSUME TypeOK, NoWakeupLostWithHandle,
         \A w \in Workers : Sleeping(w)' =>
           /\ Sleeping(w) /\ worker'[w].slot = worker[w].slot
           /\ handle'[worker[w].slot] = w => handle[worker[w].slot] = w
           /\ worker[w].slot \in contested => worker[w].slot \in contested',
         \A s \in Slots : HasWork(s)' => HasWork(s) \/ \A w \in Workers : NotifyDue(s, w)',
         \A s \in Slots, w \in Workers : NotifyDue(s, w) => NotifyDue(s, w)'
  PROVE  NoWakeupLostWithHandle'
<1>1. \A w \in Workers : worker[w].slot \in Slots
  BY DEF TypeOK, WorkerStates
<1> QED BY <1>1 DEF NoWakeupLostWithHandle

\* Whoever is not notifying takes no notification away from the others.
LEMMA DueKept ==
  ASSUME NEW c \in Callers, ~Notifying(c), \A d \in Callers : d # c => caller'[d] = caller[d]
  PROVE  \A s \in Slots, w \in Workers : NotifyDue(s, w) => NotifyDue(s, w)'
BY DEF NotifyDue, Notifying

\* Starting a task wakes nobody who sleeps, and puts nobody to sleep.
LEMMA StartKeepsWake ==
  ASSUME TypeOK, TypeInv, NoWakeupLostWithHandle, NEW c \in Starters, StartStep(c)
  PROVE  NoWakeupLostWithHandle'
<1>0. /\ c \in Callers /\ caller \in [Callers -> CallerStates] /\ caller[c] \in CallerStates
      /\ status \in [Slots -> Statuses] /\ pending \in [Slots -> Seq(Events)]
      /\ worker \in [Workers -> WorkerStates] /\ handle \in [Slots -> {NoTask} \cup Workers]
      /\ token \in [Workers -> BOOLEAN]
  BY DEF TypeOK, Callers
<1>1. caller[c].slot \in Slots /\ ~Notifying(c)
  BY <1>0 DEF StartStep, StartPick, StartClaim, StartCreate, StartCreateFails, CallerStates, Notifying, NotifyPcs
<1>2. \A d \in Callers : d # c => caller'[d] = caller[d]
  BY <1>0 DEF StartStep, StartPick, StartClaim, StartCreate, StartCreateFails, Goto
<1>3. \A s \in Slots, w \in Workers : NotifyDue(s, w) => NotifyDue(s, w)'
  BY <1>0, <1>1, <1>2, DueKept
<1>4. CASE StartPick(c)
  <2>1. PICK s : contested' = Contest(c, s)
    BY <1>4 DEF StartPick
  <2>2. \A w \in Workers : Sleeping(w) /\ worker[w].slot \in contested => worker[w].slot \in contested'
    BY <2>1 DEF Contest, Sleeping, Running
  <2> QED BY <1>3, <1>4, <2>2, WakeFrame DEF StartPick, Sleeping, HasWork
<1>5. CASE StartClaim(c)
  <2>1. \A s \in Slots : HasWork(s)' => HasWork(s)
    BY <1>0, <1>1, <1>5 DEF StartClaim, HasWork, Blank
  <2> QED BY <1>3, <1>5, <2>1, WakeFrame DEF StartClaim, Sleeping
<1>6. CASE StartCreateFails(c)
  <2>1. \A s \in Slots : HasWork(s)' => HasWork(s)
    BY <1>0, <1>1, <1>6 DEF StartCreateFails, HasWork, Blank, Statuses
  <2> QED BY <1>3, <1>6, <2>1, WakeFrame DEF StartCreateFails, Sleeping
<1>7. CASE StartCreate(c)
  <2> DEFINE t == caller[c].target
  <2>1. t \in Workers
    BY <1>0, <1>7, TaskRuntimeAssumption DEF StartCreate, TypeInv, TypeOK, CallerInv, Workers
  <2>2. worker'[t].pc = "open" /\ \A w \in Workers : w # t => worker'[w] = worker[w]
    BY <1>0, <1>7, <2>1 DEF StartCreate, NewWorker
  <2>3. \A s \in Slots : handle'[s] = handle[s] \/ handle'[s] = t
    BY <1>0, <1>1, <1>7 DEF StartCreate
  <2>4. UNCHANGED <<status, pending, token>>
    BY <1>7 DEF StartCreate
  <2> HIDE DEF t
  <2>5. \A w \in Workers : Sleeping(w)' => w # t /\ Sleeping(w)
    BY <2>1, <2>2, <2>4 DEF Sleeping
  <2>6. \A w \in Workers : worker[w].slot \in Slots
    BY <1>0 DEF WorkerStates
  <2>7. \A w \in Workers : Sleeping(w)' =>
           /\ Sleeping(w) /\ worker'[w].slot = worker[w].slot
           /\ handle'[worker[w].slot] = w => handle[worker[w].slot] = w
    BY <2>2, <2>3, <2>5, <2>6
  <2>8. UNCHANGED contested
    BY <1>7 DEF StartCreate
  <2>9. \A s \in Slots : HasWork(s)' => HasWork(s)
    BY <2>4 DEF HasWork
  <2> QED BY <1>3, <2>7, <2>8, <2>9, WakeFrame
<1> QED BY <1>4, <1>5, <1>6, <1>7 DEF StartStep

\* A caller that finds the handle of the worker in the slot is about to notify it.
LEMMA FoundKeepsWake ==
  ASSUME TypeOK, NoWakeupLostWithHandle, NEW c \in Callers, NotifyFound(c)
  PROVE  NoWakeupLostWithHandle'
<1>0. /\ caller \in [Callers -> CallerStates] /\ \A w \in Workers : worker[w].slot \in Slots
      /\ UNCHANGED <<status, pending, handle, worker, token, contested>> /\ Port = "esp"
  BY DEF TypeOK, WorkerStates, NotifyFound
<1>1. /\ caller'[c].pc = caller[c].pc /\ caller'[c].slot = caller[c].slot
      /\ caller'[c].target = handle[caller[c].slot] /\ caller[c].pc \in NotifyPcs
      /\ \A d \in Callers : d # c => caller'[d] = caller[d]
  BY <1>0 DEF NotifyFound, CallerStates
<1>2. SUFFICES ASSUME NEW w \in Workers, Sleeping(w), HasWork(worker[w].slot), handle[worker[w].slot] = w
               PROVE  NotifyDue(worker[w].slot, w)'
  BY <1>0 DEF NoWakeupLostWithHandle, Sleeping, HasWork
<1>3. PICK d \in Callers : /\ caller[d].slot = worker[w].slot /\ caller[d].pc \in NotifyPcs
                           /\ caller[d].target \in {NoTask, w}
  BY <1>0, <1>2 DEF NoWakeupLostWithHandle, NotifyDue
<1>4. /\ caller'[d].slot = worker[w].slot /\ caller'[d].pc \in NotifyPcs
      /\ caller'[d].target \in {NoTask, w}
  BY <1>1, <1>2, <1>3
<1> QED BY <1>0, <1>4 DEF NotifyDue

\* The step that notifies the worker of a slot: the worker whose handle is in the
\* slot, or the only one that waits on its condition, does not sleep afterwards if
\* nobody else is about to notify it.
LEMMA NotifyWakes ==
  ASSUME OwnInv, BlockedOnPthread, NoWakeupLostWithHandle, NEW c \in Callers, Notify(c),
         \A d \in Callers : d # c => caller'[d] = caller[d],
         UNCHANGED <<status, pending, handle, contested>>
  PROVE  NoWakeupLostWithHandle'
<1> DEFINE s == caller[c].slot
<1>0. /\ s \in Slots /\ worker \in [Workers -> WorkerStates] /\ token \in [Workers -> BOOLEAN]
      /\ \A w \in Workers : worker[w].slot \in Slots
      /\ NoTask \notin Workers
  <2>1. TypeOK
    BY DEF OwnInv, HandleInv, TypeInv
  <2>2. s \in Slots /\ worker \in [Workers -> WorkerStates] /\ token \in [Workers -> BOOLEAN]
    BY <2>1 DEF TypeOK, CallerStates
  <2>3. \A w \in Workers : worker[w].slot \in Slots
    BY <2>2 DEF WorkerStates
  <2>4. NoTask \notin Workers
    BY TaskRuntimeAssumption DEF NoTask, Workers
  <2> QED BY <2>2, <2>3, <2>4
<1>1. \A w \in Workers : Sleeping(w)' => Sleeping(w) /\ worker'[w].slot = worker[w].slot
  <2>1. CASE Port = "esp"
    BY <2>1, <1>0 DEF Notify, NotifyNobody, NotifyGive, NotifySignal, Sleeping
  <2>2. CASE Port # "esp"
    <3>1. UNCHANGED token /\ (worker' = worker \/ \E w \in Workers : worker[w].pc = "blocked" /\ WGoto(w, "wait"))
      BY <2>2 DEF Notify, NotifyNobody, NotifyGive, NotifySignal, WGoto
    <3> QED BY <2>2, <3>1, <1>0 DEF Sleeping, WGoto, WorkerStates
  <2> QED BY <2>1, <2>2
<1>2. ASSUME NEW w \in Workers, Sleeping(w)', worker[w].slot = s,
             IF Port = "esp" THEN handle[s] = w ELSE s \notin contested
      PROVE  Port = "esp" /\ caller[c].target \notin {NoTask, w}
  <2>1. CASE Port = "esp"
    <3>1. worker' = worker /\ worker[w].pc # "blocked"
      BY <2>1 DEF Notify, NotifyNobody, NotifyGive, NotifySignal, BlockedOnPthread
    <3>2. ~token'[w]
      BY <1>2, <3>1 DEF Sleeping
    <3>3. ~NotifyNobody(c) /\ ~NotifySignal(c)
      BY <1>0, <1>2, <2>1 DEF NotifyNobody, NotifySignal
    <3>4. NotifyGive(c)
      BY <3>3 DEF Notify
    <3> QED BY <1>2, <2>1, <3>2, <3>4 DEF NotifyGive
  <2>2. CASE Port # "esp"
    <3> DEFINE blocked == {v \in Workers : worker[v].pc = "blocked" /\ worker[v].slot = s}
    <3>1. w \in blocked
      BY <1>1, <1>2, <2>2 DEF Sleeping
    <3>2. SlotInv(s)
      BY <1>0, <1>2, <2>2 DEF OwnInv
    <3>3. \A v \in blocked : v = w
      BY <3>1, <3>2 DEF SlotInv, RunningOn, Running
    <3>4. worker' = [worker EXCEPT ![w].pc = "wait"]
      BY <2>2, <3>1, <3>3 DEF Notify, NotifyNobody, NotifyGive, NotifySignal
    <3> QED BY <1>0, <1>2, <2>2, <3>4 DEF Sleeping, WorkerStates
  <2> QED BY <2>1, <2>2
<1> HIDE DEF s
<1>3. SUFFICES ASSUME NEW w \in Workers, Sleeping(w)', HasWork(worker[w].slot),
                      IF Port = "esp" THEN handle[worker[w].slot] = w ELSE worker[w].slot \notin contested
               PROVE  NotifyDue(worker[w].slot, w)'
  BY <1>0, <1>1 DEF NoWakeupLostWithHandle, HasWork
<1>4. PICK d \in Callers : /\ caller[d].slot = worker[w].slot /\ caller[d].pc \in NotifyPcs
                           /\ caller[d].target \in {NoTask, w}
  BY <1>0, <1>1, <1>3 DEF NoWakeupLostWithHandle, NotifyDue
<1>5. d # c
  <2> SUFFICES ASSUME d = c PROVE FALSE
    OBVIOUS
  <2>1. worker[w].slot = s
    BY <1>4 DEF s
  <2>2. caller[c].target \notin {NoTask, w}
    BY <1>2, <1>3, <2>1
  <2> QED BY <1>4, <2>2
<1>6. caller'[d] = caller[d] /\ worker'[w].slot = worker[w].slot
  BY <1>1, <1>3, <1>5
<1> QED BY <1>4, <1>6 DEF NotifyDue

\* What a caller that stops tasks or emits events leaves alone.
LEMMA OthersTouch ==
  ASSUME TypeOK, NEW c \in Callers, StopStep(c) \/ EmitStep(c)
  PROVE  /\ \A d \in Callers : d # c => caller'[d] = caller[d]
         /\ UNCHANGED <<handle, owner, starts, contested>>
         /\ caller[c].slot \in Slots
BY DEF TypeOK, CallerStates, NextSlot, Goto, StopStep, StopFind, StopRequest, NotifyFound, StopNotify, ShutdownBegin,
       ShutdownSkip, ShutdownRequest, ShutdownNotify, EmitStep, EmitBegin, EmitSkip, EmitMatch, EmitPush, EmitNotify

\* Whoever gives a sleeping worker work is about to notify it, and notifies it.
LEMMA OthersKeepWake ==
  ASSUME OwnInv, BlockedOnPthread, NoWakeupLostWithHandle,
         NEW c \in Callers, StopStep(c) \/ EmitStep(c)
  PROVE  NoWakeupLostWithHandle'
<1>0. /\ TypeOK /\ caller \in [Callers -> CallerStates] /\ caller[c] \in CallerStates
      /\ status \in [Slots -> Statuses] /\ pending \in [Slots -> Seq(Events)]
      /\ \A d \in Callers : d # c => caller'[d] = caller[d]
      /\ UNCHANGED <<handle, contested>> /\ caller[c].slot \in Slots
  BY OthersTouch DEF OwnInv, HandleInv, TypeInv, TypeOK
<1>1. CASE StopNotify(c) \/ ShutdownNotify(c) \/ EmitNotify(c)
  BY <1>0, <1>1, NotifyWakes DEF StopNotify, ShutdownNotify, EmitNotify
<1>2. CASE StopRequest(c) \/ ShutdownRequest(c) \/ EmitPush(c)
  <2>1. PICK pc \in {"stopNotify", "shutdownNotify", "pushNotify"} : caller' = [caller EXCEPT ![c].pc = pc]
    BY <1>2 DEF StopRequest, ShutdownRequest, EmitPush, Goto
  <2>2. caller'[c].pc = pc /\ caller'[c].slot = caller[c].slot /\ caller'[c].target = NoTask
    <3>1. caller[c].target = NoTask
      BY <1>2 DEF OwnInv, HandleInv, TypeInv, CallerInv, StopRequest, ShutdownRequest, EmitPush
    <3> QED BY <1>0, <2>1, <3>1 DEF CallerStates
  <2>3. \A s \in Slots, w \in Workers : s = caller[c].slot => NotifyDue(s, w)'
    BY <2>2 DEF NotifyDue, NotifyPcs
  <2>4. \A s \in Slots : s # caller[c].slot => (HasWork(s)' <=> HasWork(s))
    BY <1>0, <1>2 DEF StopRequest, ShutdownRequest, EmitPush, HasWork
  <2>5. UNCHANGED <<worker, token>> /\ ~Notifying(c)
    BY <1>2 DEF StopRequest, ShutdownRequest, EmitPush, Notifying, NotifyPcs
  <2>6. \A s \in Slots, w \in Workers : NotifyDue(s, w) => NotifyDue(s, w)'
    BY <1>0, <2>5, DueKept
  <2>7. \A s \in Slots : HasWork(s)' => HasWork(s) \/ \A w \in Workers : NotifyDue(s, w)'
    BY <1>0, <2>3, <2>4
  <2>8. \A w \in Workers : (Sleeping(w)' <=> Sleeping(w)) /\ worker'[w].slot = worker[w].slot
    BY <2>5 DEF Sleeping
  <2> QED BY <1>0, <2>6, <2>7, <2>8, WakeFrame
<1>3. CASE StopFind(c) \/ ShutdownBegin(c) \/ ShutdownSkip(c) \/ EmitBegin(c) \/ EmitSkip(c) \/ EmitMatch(c)
  <2>1. UNCHANGED <<worker, token, status, pending>> /\ ~Notifying(c)
    BY <1>3 DEF StopFind, ShutdownBegin, ShutdownSkip, EmitBegin, EmitSkip, EmitMatch, Notifying, NotifyPcs
  <2>2. \A s \in Slots, w \in Workers : NotifyDue(s, w) => NotifyDue(s, w)'
    BY <1>0, <2>1, DueKept
  <2> QED BY <1>0, <2>1, <2>2, WakeFrame DEF Sleeping, HasWork
<1>4. CASE NotifyFound(c)
  BY <1>0, <1>4, FoundKeepsWake
<1> QED BY <1>1, <1>2, <1>3, <1>4 DEF StopStep, EmitStep

\* A worker goes to sleep only after it found nothing to do, in the same step or
\* under the lock that it gives up as it falls asleep.
LEMMA WorkersKeepWake ==
  ASSUME TypeInv, NoWakeupLostWithHandle, NEW w \in Workers, WorkerStep(w)
  PROVE  NoWakeupLostWithHandle'
<1> DEFINE s == worker[w].slot
<1>0. /\ TypeOK /\ s \in Slots /\ worker \in [Workers -> WorkerStates] /\ worker[w] \in WorkerStates
      /\ status \in [Slots -> Statuses] /\ pending \in [Slots -> Seq(Events)]
      /\ handle \in [Slots -> {NoTask} \cup Workers] /\ token \in [Workers -> BOOLEAN]
      /\ \A v \in Workers : worker[v].slot \in Slots
  BY DEF TypeInv, TypeOK, WorkerStates
<1>1. UNCHANGED <<caller, contested>>
  BY DEF WorkerStep, WorkerOpen, WorkerOpenFails, LoopStop, LoopPeriodic, LoopTake, LoopEmpty,
         WaitNotified, WaitOnCondition, StepRecord, Finish, Exit
<1>2. \A t \in Slots, v \in Workers : NotifyDue(t, v) => NotifyDue(t, v)'
  BY <1>1 DEF NotifyDue
<1>3. \A v \in Workers : v # w => worker'[v] = worker[v]
  BY <1>0 DEF WorkerStep, WorkerOpen, WorkerOpenFails, LoopStop, LoopPeriodic, LoopTake, LoopEmpty,
         WaitNotified, WaitOnCondition, StepRecord, Finish, Exit, WGoto
<1>4. \A v \in Workers : token'[v] = token[v] \/ v = w
  BY <1>0 DEF WorkerStep, WorkerOpen, WorkerOpenFails, LoopStop, LoopPeriodic, LoopTake, LoopEmpty,
         WaitNotified, WaitOnCondition, StepRecord, Finish, Exit
<1>5. \A t \in Slots : HasWork(t)' => HasWork(t)
  <2>1. CASE LoopTake(w)
    BY <1>0, <2>1 DEF LoopTake, HasWork
  <2>2. CASE StepRecord(w) \/ Finish(w)
    <3>1. UNCHANGED pending
      BY <2>2 DEF StepRecord, Finish
    <3>2. \/ \E n : status' = [status EXCEPT ![s].iterations = n]
          \/ status' = [status EXCEPT ![s].active = FALSE, ![s].completed = TRUE]
      BY <2>2 DEF StepRecord, Finish
    <3>3. \A t \in Slots : status'[t].stop = status[t].stop
      <4>1. CASE \E n : status' = [status EXCEPT ![s].iterations = n]
        BY <1>0, <4>1 DEF Statuses
      <4>2. CASE status' = [status EXCEPT ![s].active = FALSE, ![s].completed = TRUE]
        BY <1>0, <4>2 DEF Statuses
      <4> QED BY <3>2, <4>1, <4>2
    <3> QED BY <3>1, <3>3 DEF HasWork
  <2>3. CASE UNCHANGED <<status, pending>>
    BY <2>3 DEF HasWork
  <2> QED BY <2>1, <2>2, <2>3 DEF WorkerStep, WorkerOpen, WorkerOpenFails, LoopStop, LoopPeriodic, LoopEmpty,
         WaitNotified, WaitOnCondition, Exit
<1>6. \A t \in Slots : handle'[t] = handle[t] \/ handle'[t] = NoTask
  BY <1>0 DEF WorkerStep, WorkerOpen, WorkerOpenFails, LoopStop, LoopPeriodic, LoopTake, LoopEmpty,
         WaitNotified, WaitOnCondition, StepRecord, Finish, Exit
<1>7. NoTask \notin Workers
  BY TaskRuntimeAssumption DEF NoTask, Workers
<1>8. \A v \in Workers : v # w /\ Sleeping(v)' =>
           /\ Sleeping(v) /\ worker'[v].slot = worker[v].slot
           /\ handle'[worker[v].slot] = v => handle[worker[v].slot] = v
  BY <1>0, <1>3, <1>4, <1>6, <1>7 DEF Sleeping
<1>9. CASE LoopEmpty(w)
  <2>1. worker'[w].slot = s /\ ~HasWork(s)
    BY <1>0, <1>9 DEF LoopEmpty, WGoto, HasWork, WorkerStates
  <2> HIDE DEF s
  <2> QED BY <1>0, <1>1, <1>2, <1>3, <1>5, <1>8, <2>1 DEF NoWakeupLostWithHandle
<1>10. CASE WaitOnCondition(w) /\ ~HasWork(s)
  <2>1. worker'[w].slot = s
    BY <1>0, <1>10 DEF WaitOnCondition, WGoto, WorkerStates
  <2> HIDE DEF s
  <2> QED BY <1>0, <1>2, <1>3, <1>5, <1>8, <1>10, <2>1, <1>1 DEF NoWakeupLostWithHandle
<1>11. CASE WaitOnCondition(w) /\ HasWork(s)
  <2>1. ~Sleeping(w)'
    BY <1>0, <1>11 DEF WaitOnCondition, WGoto, WorkerStates, HasWork, Sleeping
  <2> QED BY <1>0, <1>1, <1>2, <1>5, <1>8, <2>1, WakeFrame
<1>12. CASE ~LoopEmpty(w) /\ ~WaitOnCondition(w)
  <2>1. worker'[w].pc \notin {"wait", "blocked"}
    <3>1. CASE WorkerOpen(w) \/ LoopTake(w) \/ StepRecord(w)
      BY <1>0, <3>1 DEF WorkerOpen, LoopTake, StepRecord, WorkerStates
    <3>2. CASE WorkerOpenFails(w) \/ LoopStop(w) \/ LoopPeriodic(w) \/ WaitNotified(w) \/ Finish(w) \/ Exit(w)
      BY <1>0, <3>2 DEF WorkerOpenFails, LoopStop, LoopPeriodic, WaitNotified, Finish, Exit, WGoto, WorkerStates
    <3> QED BY <1>12, <3>1, <3>2 DEF WorkerStep
  <2>2. ~Sleeping(w)'
    BY <2>1 DEF Sleeping
  <2> QED BY <1>0, <1>1, <1>2, <1>5, <1>8, <2>2, WakeFrame
<1> QED BY <1>9, <1>10, <1>11, <1>12

\* Only WaitOnCondition blocks a worker.
LEMMA BlockedStep ==
  ASSUME TypeOK, BlockedOnPthread, [Next]_vars
  PROVE  BlockedOnPthread'
<1> SUFFICES ASSUME Port = "esp", NEW w \in Workers PROVE worker'[w].pc # "blocked"
  BY DEF BlockedOnPthread
<1>0. worker \in [Workers -> WorkerStates] /\ worker[w].pc # "blocked"
  BY DEF BlockedOnPthread, TypeOK
<1>1. ASSUME NEW c \in Starters, StartStep(c) PROVE worker'[w].pc # "blocked"
  BY <1>0, <1>1 DEF StartStep, StartPick, StartClaim, StartCreate, StartCreateFails, NewWorker
<1>2. ASSUME NEW c \in Callers, StopStep(c) \/ EmitStep(c) PROVE worker'[w].pc # "blocked"
  <2>1. UNCHANGED worker
    BY <1>2 DEF Notify, NotifyNobody, NotifyGive, NotifySignal, StopStep, StopFind, StopRequest, NotifyFound,
         StopNotify, ShutdownBegin, ShutdownSkip,
         ShutdownRequest, ShutdownNotify, EmitStep, EmitBegin, EmitSkip, EmitMatch, EmitPush, EmitNotify
  <2> QED BY <1>0, <2>1
<1>3. ASSUME NEW v \in Workers, WorkerStep(v) PROVE worker'[w].pc # "blocked"
  <2>1. CASE WorkerOpen(v) \/ LoopTake(v)
    BY <1>0, <2>1 DEF WorkerOpen, LoopTake, WorkerStates
  <2>3. CASE StepRecord(v)
    BY <1>0, <2>3 DEF StepRecord, WorkerStates
  <2>2. CASE WorkerOpenFails(v) \/ LoopStop(v) \/ LoopPeriodic(v) \/ LoopEmpty(v) \/ WaitNotified(v)
             \/ Finish(v) \/ Exit(v)
    BY <1>0, <2>2 DEF WorkerOpenFails, LoopStop, LoopPeriodic, LoopEmpty, WaitNotified, Finish, Exit, WGoto, WorkerStates
  <2> QED BY <1>3, <2>1, <2>2, <2>3 DEF WorkerStep, WaitOnCondition
<1>4. CASE UNCHANGED vars
  BY <1>0, <1>4 DEF vars
<1> QED BY <1>1, <1>2, <1>3, <1>4 DEF Next, Callers

\* However many threads start tasks, no stop and no payload stays unnoticed by a
\* sleeping worker whose handle is in its slot (esp), or whose slot no two starts
\* picked at once (pthread, where a signal wakes one of those that wait).
THEOREM NoWakeupLost == Spec => []NoWakeupLostWithHandle
<1> DEFINE WakeInv == BlockedOnPthread /\ NoWakeupLostWithHandle
<1>1. Init => WakeInv
  BY DEF Init, BlockedOnPthread, NoWakeupLostWithHandle, NewWorker, Sleeping
<1>2. OwnInv /\ WakeInv /\ [Next]_vars => WakeInv'
  <2> SUFFICES ASSUME OwnInv, WakeInv, [Next]_vars PROVE WakeInv'
    OBVIOUS
  <2>1. TypeInv /\ TypeOK /\ BlockedOnPthread'
    BY BlockedStep DEF OwnInv, HandleInv, TypeInv
  <2>2. ASSUME NEW c \in Starters, StartStep(c) PROVE NoWakeupLostWithHandle'
    BY <2>1, <2>2, StartKeepsWake
  <2>3. ASSUME NEW c \in Callers, StopStep(c) \/ EmitStep(c) PROVE NoWakeupLostWithHandle'
    BY <2>1, <2>3, OthersKeepWake
  <2>4. ASSUME NEW w \in Workers, WorkerStep(w) PROVE NoWakeupLostWithHandle'
    BY <2>1, <2>4, WorkersKeepWake
  <2>5. CASE UNCHANGED vars
    BY <2>1, <2>5 DEF vars, NoWakeupLostWithHandle, NotifyDue, HasWork, Sleeping
  <2> QED BY <2>1, <2>2, <2>3, <2>4, <2>5 DEF Next, Callers
<1> HIDE DEF WakeInv
<1>3. Spec => []WakeInv
  BY <1>1, <1>2, AlwaysOwned, PTL DEF Spec
<1>4. WakeInv => NoWakeupLostWithHandle
  BY DEF WakeInv
<1> QED BY <1>3, <1>4, PTL

-----------------------------------------------------------------------------
(* The order of the events of one emitting thread.                         *)

\* One thread at a time is in espclaw_task_emit_event.
SingleEmitter == \A a, b \in Emitters : a = b

Emitting(c) == caller[c].pc \in {"emit", "push", "pushNotify"}

\* The worker has an event in its hands.
Handling(w) == worker[w].pc = "step" /\ worker[w].isEvent

\* Everything queued for a slot, or in the hands of its worker, is older than n.
OlderThan(s, n) ==
  /\ \A i \in 1 .. Len(pending[s]) : pending[s][i].n < n
  /\ \A w \in Workers : Handling(w) /\ worker[w].slot = s => worker[w].event.n < n

\* What a worker handles is an event, and no number has been used that was not emitted.
NumbersUsed ==
  /\ \A w \in Workers : Handling(w) => worker[w].event \in Events
  /\ \A s \in Slots : OlderThan(s, emits + 1)

\* The event under way is the newest, and the slots still to be visited have only older ones.
NewestUnderWay ==
  \A c \in Emitters : Emitting(c) =>
    /\ caller[c].request.n = emits
    /\ \A s \in Slots :
         s > caller[c].slot \/ (s = caller[c].slot /\ caller[c].pc # "pushNotify") => OlderThan(s, emits)

OrderInv == TypeInv /\ EventsInOrder /\ NumbersUsed /\ NewestUnderWay

\* A step that queues nothing, hands nothing to a worker and emits nothing.
LEMMA OrderFrame ==
  ASSUME OrderInv, TypeInv', UNCHANGED <<pending, emits>>,
         \A w \in Workers : Handling(w)' =>
           Handling(w) /\ worker'[w].slot = worker[w].slot /\ worker'[w].event = worker[w].event,
         \A c \in Emitters : Emitting(c)' =>
           /\ Emitting(c) /\ caller'[c].request = caller[c].request
           /\ \/ caller'[c].slot > caller[c].slot
              \/ caller'[c].slot = caller[c].slot /\ (caller[c].pc = "pushNotify" => caller'[c].pc = "pushNotify")
  PROVE  OrderInv'
<1> USE DEF OrderInv
<1>0. \A c \in Callers : caller[c].slot \in Nat /\ caller'[c].slot \in Nat
  BY DEF TypeInv, TypeOK, CallerStates, Slots
<1>1. \A n : \A s \in Slots : OlderThan(s, n) => OlderThan(s, n)'
  BY DEF OlderThan
<1>2. EventsInOrder'
  BY DEF EventsInOrder, Handling
<1>3. NumbersUsed'
  BY <1>1 DEF NumbersUsed
<1>4. NewestUnderWay'
  <2> SUFFICES ASSUME NEW c \in Emitters, Emitting(c)'
               PROVE  /\ caller'[c].request.n = emits'
                      /\ \A s \in Slots :
                           s > caller'[c].slot \/ (s = caller'[c].slot /\ caller'[c].pc # "pushNotify")
                             => OlderThan(s, emits)'
    BY DEF NewestUnderWay
  <2>1. c \in Callers /\ Slots \subseteq Nat
    BY DEF Callers, Slots
  <2> QED BY <1>0, <1>1, <2>1 DEF NewestUnderWay
<1> QED BY <1>2, <1>3, <1>4

\* The queue after a payload was put into it: the new one is last, those before it
\* are where they were.
LEMMA PushedCells ==
  ASSUME NEW q \in Seq(Events), Len(q) <= QueueMax, NEW e \in Events, NEW p, p = Queue!Pushed(q, e)
  PROVE  /\ Len(p) \in 1 .. Len(q) + 1 /\ p[Len(p)] = e
         /\ \A i \in 1 .. Len(p) : i # Len(p) => i \in 1 .. Len(q) /\ p[i] = q[i]
<1>1. QueueMax \in Nat \ {0} /\ Len(q) \in Nat
  BY TaskRuntimeAssumption
<1>2. CASE Len(q) < QueueMax
  BY <1>1, <1>2 DEF Queue!Pushed
<1>3. CASE ~ (Len(q) < QueueMax)
  <2>1. p = [q EXCEPT ![QueueMax] = e] /\ Len(q) = QueueMax
    BY <1>1, <1>3 DEF Queue!Pushed
  <2> QED BY <2>1, <1>1
<1> QED BY <1>2, <1>3

\* The event that goes into a queue is newer than all in it.
LEMMA PushKeepsOrder ==
  ASSUME SingleEmitter, OrderInv, TypeInv', NEW c \in Emitters, EmitPush(c)
  PROVE  OrderInv'
<1> DEFINE s == caller[c].slot
           e == caller[c].request
<1>0. /\ TypeOK /\ c \in Callers /\ s \in Slots /\ Slots \subseteq Nat /\ e \in Events /\ emits \in Nat
      /\ pending \in [Slots -> Seq(Events)] /\ \A t \in Slots : Len(pending[t]) <= QueueMax
      /\ caller \in [Callers -> CallerStates]
  BY DEF OrderInv, TypeInv, TypeOK, CallerInv, CallerStates, EmitPush, Callers, Slots
<1>1. /\ pending' = [pending EXCEPT ![s] = Queue!Pushed(@, e)]
      /\ caller' = [caller EXCEPT ![c].pc = "pushNotify"]
      /\ UNCHANGED <<worker, emits>> /\ caller[c].pc = "push"
  BY DEF EmitPush, Goto
<1>2. e.n = emits /\ \A t \in Slots : t >= s => OlderThan(t, emits)
  BY <1>0, <1>1 DEF OrderInv, NewestUnderWay, Emitting
<1>3. /\ Len(pending'[s]) \in 1 .. Len(pending[s]) + 1 /\ pending'[s][Len(pending'[s])] = e
      /\ \A i \in 1 .. Len(pending'[s]) : i # Len(pending'[s]) =>
           i \in 1 .. Len(pending[s]) /\ pending'[s][i] = pending[s][i]
  BY <1>0, <1>1, PushedCells
<1>4. \A t \in Slots : t # s => pending'[t] = pending[t]
  BY <1>0, <1>1
<1>5. \A t \in Slots : \A i \in 1 .. Len(pending[t]) : pending[t][i] \in Events
  BY <1>0
<1>6. \A f \in Events : f.n \in Nat
  BY DEF Events
<1>7. caller'[c].slot = s /\ caller'[c].request = e /\ caller'[c].pc = "pushNotify"
  BY <1>0, <1>1 DEF CallerStates
<1> HIDE DEF s, e
<1>8. EventsInOrder'
  <2> SUFFICES ASSUME NEW t \in Slots
               PROVE  /\ \A i, j \in DOMAIN pending'[t] : i < j => pending'[t][i].n < pending'[t][j].n
                      /\ \A w \in Workers : worker'[w].pc = "step" /\ worker'[w].isEvent /\ worker'[w].slot = t =>
                           \A i \in DOMAIN pending'[t] : worker'[w].event.n < pending'[t][i].n
    BY DEF EventsInOrder
  <2>0. DOMAIN pending'[t] = 1 .. Len(pending'[t]) /\ DOMAIN pending[t] = 1 .. Len(pending[t])
    BY <1>0 DEF TypeInv, TypeOK
  <2>1. CASE t # s
    BY <1>1, <1>4, <2>0, <2>1 DEF OrderInv, EventsInOrder
  <2>2. CASE t = s
    <3>1. ASSUME NEW i \in 1 .. Len(pending'[s]), NEW j \in 1 .. Len(pending'[s]), i < j
          PROVE  pending'[s][i].n < pending'[s][j].n
      <4>1. i # Len(pending'[s]) /\ i \in 1 .. Len(pending[s]) /\ pending'[s][i] = pending[s][i]
        BY <1>3, <3>1
      <4>2. CASE j = Len(pending'[s])
        BY <1>0, <1>2, <1>3, <4>1, <4>2 DEF OlderThan
      <4>3. CASE j # Len(pending'[s])
        <5>1. j \in 1 .. Len(pending[s]) /\ pending'[s][j] = pending[s][j]
          BY <1>3, <4>3
        <5> QED BY <1>0, <2>0, <2>2, <3>1, <4>1, <5>1 DEF OrderInv, EventsInOrder
      <4> QED BY <4>2, <4>3
    <3>2. ASSUME NEW w \in Workers, worker'[w].pc = "step", worker'[w].isEvent, worker'[w].slot = s,
                 NEW i \in 1 .. Len(pending'[s])
          PROVE  worker'[w].event.n < pending'[s][i].n
      <4>1. CASE i = Len(pending'[s])
        BY <1>0, <1>1, <1>2, <1>3, <3>2, <4>1 DEF OlderThan, Handling
      <4>2. CASE i # Len(pending'[s])
        <5>1. i \in 1 .. Len(pending[s]) /\ pending'[s][i] = pending[s][i]
          BY <1>3, <4>2
        <5> QED BY <1>0, <1>1, <2>0, <2>2, <3>2, <5>1 DEF OrderInv, EventsInOrder
      <4> QED BY <4>1, <4>2
    <3> QED BY <2>0, <2>2, <3>1, <3>2
  <2> QED BY <2>1, <2>2
<1>9. NumbersUsed'
  <2>1. \A w \in Workers : Handling(w)' => worker'[w].event \in Events
    BY <1>1 DEF OrderInv, NumbersUsed, Handling
  <2>2. ASSUME NEW t \in Slots PROVE OlderThan(t, emits + 1)'
    <3>1. OlderThan(t, emits + 1)
      BY DEF OrderInv, NumbersUsed
    <3>2. \A w \in Workers : Handling(w)' /\ worker'[w].slot = t => worker'[w].event.n < emits + 1
      BY <1>1, <3>1 DEF OlderThan, Handling
    <3>3. \A i \in 1 .. Len(pending'[t]) : pending'[t][i].n < emits + 1
      <4>1. CASE t # s
        BY <1>4, <3>1, <4>1 DEF OlderThan
      <4>2. CASE t = s
        BY <1>0, <1>2, <1>3, <3>1, <4>2 DEF OlderThan
      <4> QED BY <4>1, <4>2
    <3> QED BY <1>1, <3>2, <3>3 DEF OlderThan
  <2> QED BY <2>1, <2>2 DEF NumbersUsed
<1>10. NewestUnderWay'
  <2>1. ASSUME NEW t \in Slots, t > s PROVE OlderThan(t, emits)'
    <3>1. t # s /\ OlderThan(t, emits)
      BY <1>0, <1>2, <2>1
    <3> QED BY <1>1, <1>4, <3>1 DEF OlderThan, Handling
  <2>2. \A d \in Emitters : d = c
    BY DEF SingleEmitter
  <2>3. caller'[c].request.n = emits'
    BY <1>1, <1>2, <1>7
  <2>4. \A t \in Slots : t > caller'[c].slot \/ (t = caller'[c].slot /\ caller'[c].pc # "pushNotify")
                           => OlderThan(t, emits)'
    BY <1>7, <2>1
  <2> QED BY <2>2, <2>3, <2>4 DEF NewestUnderWay
<1> QED BY <1>8, <1>9, <1>10 DEF OrderInv

\* A worker takes the oldest event of its slot.
LEMMA TakeKeepsOrder ==
  ASSUME OrderInv, TypeInv', NEW w \in Workers, LoopTake(w)
  PROVE  OrderInv'
<1> DEFINE s == worker[w].slot
           q == pending[s]
<1>0. /\ s \in Slots /\ q \in Seq(Events) /\ q # <<>> /\ emits \in Nat /\ Slots \subseteq Nat
      /\ pending \in [Slots -> Seq(Events)] /\ worker \in [Workers -> WorkerStates]
  BY DEF OrderInv, TypeInv, TypeOK, LoopTake, WorkerStates, Slots
<1>1. /\ pending' = [pending EXCEPT ![s] = Tail(q)]
      /\ worker'[w].event = Head(q) /\ worker'[w].slot = s
      /\ \A v \in Workers : v # w => worker'[v] = worker[v]
      /\ UNCHANGED <<caller, emits>>
  BY <1>0 DEF LoopTake, WorkerStates
<1>2. /\ Len(q) \in Nat \ {0} /\ Head(q) = q[1] /\ Head(q) \in Events /\ Len(Tail(q)) = Len(q) - 1
      /\ \A i \in 1 .. Len(q) - 1 : Tail(q)[i] = q[i + 1] /\ i + 1 \in 1 .. Len(q)
      /\ DOMAIN Tail(q) = 1 .. Len(q) - 1 /\ DOMAIN q = 1 .. Len(q)
  BY <1>0
<1>3. pending'[s] = Tail(q) /\ \A t \in Slots : t # s => pending'[t] = pending[t]
  BY <1>0, <1>1
<1>4. /\ \A i, j \in 1 .. Len(q) : i < j => q[i].n < q[j].n
      /\ \A v \in Workers : worker[v].pc = "step" /\ worker[v].isEvent /\ worker[v].slot = s =>
           \A i \in 1 .. Len(q) : worker[v].event.n < q[i].n
  BY <1>0, <1>2 DEF OrderInv, EventsInOrder
<1>5. \A n : \A t \in Slots : OlderThan(t, n) => OlderThan(t, n)'
  <2> SUFFICES ASSUME NEW t \in Slots, NEW n, OlderThan(t, n)
               PROVE  /\ \A i \in 1 .. Len(pending'[t]) : pending'[t][i].n < n
                      /\ \A v \in Workers : Handling(v)' /\ worker'[v].slot = t => worker'[v].event.n < n
    BY DEF OlderThan
  <2>1. \A i \in 1 .. Len(pending'[t]) : pending'[t][i].n < n
    <3>1. CASE t = s
      <4> SUFFICES ASSUME NEW i \in 1 .. Len(q) - 1 PROVE Tail(q)[i].n < n
        BY <1>2, <1>3, <3>1
      <4>1. Tail(q)[i] = q[i + 1] /\ i + 1 \in 1 .. Len(q)
        BY <1>2
      <4>2. q[i + 1].n < n
        BY <3>1, <4>1 DEF OlderThan
      <4> QED BY <4>1, <4>2
    <3>2. CASE t # s
      BY <1>3, <3>2 DEF OlderThan
    <3> QED BY <3>1, <3>2
  <2>2. \A v \in Workers : Handling(v)' /\ worker'[v].slot = t => worker'[v].event.n < n
    BY <1>1, <1>2 DEF OlderThan, Handling
  <2> QED BY <2>1, <2>2
<1>6. \A v \in Workers : Handling(v)' => worker'[v].event \in Events
  BY <1>1, <1>2 DEF OrderInv, NumbersUsed, Handling
<1>7. NumbersUsed'
  BY <1>1, <1>5, <1>6 DEF OrderInv, NumbersUsed
<1>8. NewestUnderWay'
  BY <1>1, <1>5 DEF OrderInv, NewestUnderWay, Emitting
<1> HIDE DEF q
<1>9. EventsInOrder'
  <2> SUFFICES ASSUME NEW t \in Slots
               PROVE  /\ \A i, j \in DOMAIN pending'[t] : i < j => pending'[t][i].n < pending'[t][j].n
                      /\ \A v \in Workers : worker'[v].pc = "step" /\ worker'[v].isEvent /\ worker'[v].slot = t =>
                           \A i \in DOMAIN pending'[t] : worker'[v].event.n < pending'[t][i].n
    BY DEF EventsInOrder
  <2>1. CASE t # s
    BY <1>1, <1>3, <2>1 DEF OrderInv, EventsInOrder
  <2>2. CASE t = s
    <3>1. \A i, j \in 1 .. Len(q) - 1 : i < j => Tail(q)[i].n < Tail(q)[j].n
      BY <1>2, <1>4
    <3>2. ASSUME NEW v \in Workers, worker'[v].pc = "step", worker'[v].isEvent, worker'[v].slot = s,
                 NEW i \in 1 .. Len(q) - 1
          PROVE  worker'[v].event.n < Tail(q)[i].n
      <4>1. CASE v = w
        BY <1>1, <1>2, <1>4, <4>1
      <4>2. CASE v # w
        BY <1>1, <1>2, <1>4, <3>2, <4>2
      <4> QED BY <4>1, <4>2
    <3> QED BY <1>2, <1>3, <2>2, <3>1, <3>2
  <2> QED BY <2>1, <2>2
<1> QED BY <1>7, <1>8, <1>9 DEF OrderInv

\* A caller that begins to emit an event gives it the next number.
LEMMA BeginKeepsOrder ==
  ASSUME SingleEmitter, OrderInv, TypeInv', NEW c \in Emitters, EmitBegin(c)
  PROVE  OrderInv'
<1>0. /\ c \in Callers /\ emits \in Nat /\ caller \in [Callers -> CallerStates] /\ emits' = emits + 1
      /\ UNCHANGED <<pending, worker>>
  BY DEF OrderInv, TypeInv, TypeOK, EmitBegin, Callers
<1>1. caller'[c].pc = "emit" /\ caller'[c].request.n = emits + 1
  BY <1>0 DEF EmitBegin
<1>2. \A s \in Slots : OlderThan(s, emits)'
  BY <1>0 DEF OrderInv, NumbersUsed, OlderThan, Handling
<1>3. \A f \in Events : f.n \in Nat
  BY DEF Events
<1>4. \A s \in Slots : \A i \in 1 .. Len(pending[s]) : pending[s][i] \in Events
  BY DEF OrderInv, TypeInv, TypeOK
<1>5. NumbersUsed'
  <2>1. \A w \in Workers : Handling(w)' => worker'[w].event \in Events
    BY <1>0 DEF OrderInv, NumbersUsed, Handling
  <2>2. ASSUME NEW s \in Slots PROVE OlderThan(s, emits + 1)'
    <3>1. OlderThan(s, emits + 1)
      BY DEF OrderInv, NumbersUsed
    <3>2. \A i \in 1 .. Len(pending[s]) : pending[s][i].n < emits + 2
      BY <1>0, <1>3, <1>4, <3>1 DEF OlderThan
    <3>3. \A w \in Workers : Handling(w) /\ worker[w].slot = s => worker[w].event.n < emits + 2
      BY <1>0, <1>3, <3>1 DEF OlderThan, OrderInv, NumbersUsed
    <3> QED BY <1>0, <3>2, <3>3 DEF OlderThan, Handling
  <2> QED BY <2>1, <2>2 DEF NumbersUsed
<1>6. EventsInOrder'
  BY <1>0 DEF OrderInv, EventsInOrder
<1>7. NewestUnderWay'
  BY <1>0, <1>1, <1>2 DEF NewestUnderWay, SingleEmitter
<1> QED BY <1>5, <1>6, <1>7 DEF OrderInv

\* A start empties the ring of the slot it arms.
LEMMA StartKeepsOrder ==
  ASSUME OrderInv, TypeInv', NEW c \in Starters, StartStep(c)
  PROVE  OrderInv'
<1>0. /\ c \in Callers /\ c \notin Emitters /\ caller \in [Callers -> CallerStates]
      /\ pending \in [Slots -> Seq(Events)] /\ worker \in [Workers -> WorkerStates]
      /\ caller[c].slot \in Slots /\ Emitters \subseteq Callers
  BY TaskRuntimeAssumption DEF OrderInv, TypeInv, TypeOK, CallerStates, Callers
<1>1. (\A d \in Emitters : caller'[d] = caller[d]) /\ UNCHANGED emits
  BY <1>0 DEF StartStep, StartPick, StartClaim, StartCreate, StartCreateFails, Goto
<1>2. CASE StartClaim(c)
  <2>1. UNCHANGED worker /\ \A s \in Slots : pending'[s] = pending[s] \/ pending'[s] = <<>>
    BY <1>0, <1>2 DEF StartClaim
  <2>2. \A n : \A s \in Slots : OlderThan(s, n) => OlderThan(s, n)'
    BY <2>1 DEF OlderThan, Handling
  <2>3. EventsInOrder'
    BY <2>1 DEF OrderInv, EventsInOrder
  <2>4. NumbersUsed'
    BY <1>1, <2>1, <2>2 DEF OrderInv, NumbersUsed, Handling
  <2>5. NewestUnderWay'
    BY <1>1, <2>2 DEF OrderInv, NewestUnderWay, Emitting
  <2> QED BY <2>3, <2>4, <2>5 DEF OrderInv
<1>3. CASE ~StartClaim(c)
  <2>1. UNCHANGED pending
    BY <1>3 DEF StartStep, StartPick, StartCreate, StartCreateFails
  <2>2. \A w \in Workers : Handling(w)' => worker'[w] = worker[w]
    BY <1>0, <1>3 DEF StartStep, StartPick, StartCreate, StartCreateFails, Handling, NewWorker
  <2>3. \A d \in Emitters : caller[d].slot \in Nat
    BY <1>0 DEF CallerStates, Slots
  <2> QED BY <1>1, <2>1, <2>2, <2>3, OrderFrame DEF Handling, Emitting
<1> QED BY <1>2, <1>3

\* A notification gives nobody an event.
LEMMA NotifyHandsOut ==
  ASSUME TypeOK, NEW c \in Callers, Notify(c)
  PROVE  \A w \in Workers : Handling(w)' => worker'[w] = worker[w]
<1>1. \/ worker' = worker
      \/ \E w \in Workers : worker[w].pc = "blocked" /\ WGoto(w, "wait")
  BY DEF Notify, NotifyNobody, NotifyGive, NotifySignal, WGoto
<1>2. CASE worker' = worker
  BY <1>2
<1>3. ASSUME NEW w \in Workers, WGoto(w, "wait")
      PROVE  \A v \in Workers : Handling(v)' => worker'[v] = worker[v]
  BY <1>3 DEF TypeOK, WGoto, Handling, WorkerStates
<1> QED BY <1>1, <1>2, <1>3

\* A stop takes no event, and a test of a slot or a notification queues none.
LEMMA OthersKeepOrder ==
  ASSUME OrderInv, TypeInv', NEW c \in Callers,
         \/ c \in Stoppers /\ StopStep(c)
         \/ c \in Emitters /\ (EmitSkip(c) \/ EmitMatch(c) \/ NotifyFound(c) \/ EmitNotify(c))
  PROVE  OrderInv'
<1>a. TypeOK /\ (StopStep(c) \/ EmitStep(c))
  BY DEF OrderInv, TypeInv, EmitStep
<1>b. /\ caller \in [Callers -> CallerStates] /\ caller[c] \in CallerStates
      /\ Emitters \subseteq Callers /\ Slots \subseteq Nat
  BY <1>a DEF TypeOK, Callers, Slots
<1>0. /\ TypeOK /\ caller \in [Callers -> CallerStates] /\ caller[c] \in CallerStates
      /\ caller[c].slot \in Slots /\ Emitters \subseteq Callers /\ Slots \subseteq Nat
      /\ \A d \in Callers : caller[d].slot \in Nat
      /\ \A d \in Callers : d # c => caller'[d] = caller[d]
  BY <1>a, <1>b, OthersTouch DEF CallerStates
<1>1. UNCHANGED <<pending, emits>> /\ (UNCHANGED worker \/ Notify(c))
  BY DEF StopStep, StopFind, StopRequest, NotifyFound, StopNotify, ShutdownBegin, ShutdownSkip,
         ShutdownRequest, ShutdownNotify, EmitSkip, EmitMatch, EmitNotify
<1>2. \A w \in Workers : Handling(w)' => worker'[w] = worker[w]
  BY <1>0, <1>1, NotifyHandsOut
<1>3. CASE c \in Stoppers
  <2>1. \A d \in Emitters : caller'[d] = caller[d]
    BY <1>0, <1>3, TaskRuntimeAssumption
  <2> QED BY <1>0, <1>1, <1>2, <2>1, OrderFrame DEF Handling, Emitting
<1>4. CASE EmitMatch(c) \/ NotifyFound(c)
  <2>1. /\ caller'[c].request = caller[c].request /\ caller'[c].slot = caller[c].slot
        /\ caller[c].pc = "pushNotify" => caller'[c].pc = "pushNotify"
        /\ Emitting(c)' => Emitting(c)
    BY <1>0, <1>4 DEF EmitMatch, NotifyFound, Goto, CallerStates, Emitting
  <2>2. \A d \in Emitters : Emitting(d)' =>
           /\ Emitting(d) /\ caller'[d].request = caller[d].request
           /\ \/ caller'[d].slot > caller[d].slot
              \/ caller'[d].slot = caller[d].slot /\ (caller[d].pc = "pushNotify" => caller'[d].pc = "pushNotify")
    BY <1>0, <2>1 DEF Emitting
  <2> QED BY <1>1, <1>2, <2>2, OrderFrame DEF Handling
<1>5. CASE EmitSkip(c) \/ EmitNotify(c)
  <2> DEFINE next == [caller[c] EXCEPT !.pc = "emit", !.slot = caller[c].slot + 1, !.target = NoTask]
  <2>1. caller[c].pc \in {"emit", "pushNotify"} /\ NextSlot(c, "emit")
    BY <1>5 DEF EmitSkip, EmitNotify
  <2>2. caller'[c] = IF next.slot \in Slots THEN next ELSE IdleCaller
    BY <1>0, <2>1 DEF NextSlot
  <2>3. next.request = caller[c].request /\ next.slot = caller[c].slot + 1 /\ IdleCaller.pc = "idle"
    BY <1>0 DEF CallerStates, IdleCaller
  <2> HIDE DEF next
  <2>4. Emitting(c)' => caller'[c].request = caller[c].request /\ caller'[c].slot > caller[c].slot
    BY <1>0, <2>2, <2>3 DEF Emitting
  <2>5. \A d \in Emitters : Emitting(d)' =>
           /\ Emitting(d) /\ caller'[d].request = caller[d].request
           /\ \/ caller'[d].slot > caller[d].slot
              \/ caller'[d].slot = caller[d].slot /\ (caller[d].pc = "pushNotify" => caller'[d].pc = "pushNotify")
    BY <1>0, <2>1, <2>4 DEF Emitting
  <2> QED BY <1>1, <1>2, <2>5, OrderFrame DEF Handling
<1> QED BY <1>3, <1>4, <1>5

\* A worker gets an event only from the queue of its slot.
LEMMA WorkersKeepOrder ==
  ASSUME OrderInv, TypeInv', NEW w \in Workers, WorkerStep(w)
  PROVE  OrderInv'
<1>0. /\ worker \in [Workers -> WorkerStates] /\ worker[w] \in WorkerStates /\ Emitters \subseteq Callers
      /\ \A d \in Callers : caller[d].slot \in Nat
  BY DEF OrderInv, TypeInv, TypeOK, CallerStates, Callers, Slots
<1>1. CASE LoopTake(w)
  BY <1>1, TakeKeepsOrder
<1>2. CASE ~LoopTake(w)
  <2>1. UNCHANGED <<pending, emits, caller>>
    BY <1>2 DEF WorkerStep, WorkerOpen, WorkerOpenFails, LoopStop, LoopPeriodic, LoopEmpty,
           WaitNotified, WaitOnCondition, StepRecord, Finish, Exit
  <2>2. \A v \in Workers : v # w => worker'[v] = worker[v]
    BY <1>0, <1>2 DEF WorkerStep, WorkerOpen, WorkerOpenFails, LoopStop, LoopPeriodic, LoopEmpty,
           WaitNotified, WaitOnCondition, StepRecord, Finish, Exit, WGoto
  <2>3. ~Handling(w)'
    <3>1. CASE WorkerOpen(w) \/ StepRecord(w)
      BY <1>0, <3>1 DEF WorkerOpen, StepRecord, WorkerStates, Handling
    <3>2. CASE LoopPeriodic(w)
      BY <1>0, <3>2 DEF LoopPeriodic, WGoto, WorkerStates, Handling
    <3>3. CASE \/ WorkerOpenFails(w) \/ LoopStop(w) \/ LoopEmpty(w) \/ WaitNotified(w) \/ WaitOnCondition(w)
               \/ Finish(w) \/ Exit(w)
      BY <1>0, <3>3 DEF WorkerOpenFails, LoopStop, LoopEmpty, WaitNotified, WaitOnCondition, Finish, Exit,
           WGoto, WorkerStates, Handling
    <3> QED BY <1>2, <3>1, <3>2, <3>3 DEF WorkerStep
  <2>4. \A v \in Workers : Handling(v)' => Handling(v) /\ worker'[v] = worker[v]
    BY <2>2, <2>3 DEF Handling
  <2> QED BY <1>0, <2>1, <2>4, OrderFrame DEF Emitting
<1> QED BY <1>1, <1>2

\* With one thread that emits events, and any number that start and stop tasks:
\* events are handled in the order in which they were emitted, and none twice, also
\* when a full ring replaces its newest or a start empties it.
THEOREM OrderOfEvents ==
  ASSUME SingleEmitter
  PROVE  Spec => []EventsInOrder
<1>1. Init => OrderInv
  <2> SUFFICES ASSUME Init PROVE OrderInv
    OBVIOUS
  <2>1. EventsInOrder /\ NumbersUsed
    BY DEF Init, EventsInOrder, NumbersUsed, OlderThan, Handling, NewWorker
  <2>2. NewestUnderWay
    BY DEF Init, NewestUnderWay, Emitting, IdleCaller, Callers
  <2> QED BY <2>1, <2>2, TypeInit DEF OrderInv
<1>2. OrderInv /\ [Next]_vars => OrderInv'
  <2> SUFFICES ASSUME OrderInv, [Next]_vars PROVE OrderInv'
    OBVIOUS
  <2>0. TypeInv'
    BY TypeStep DEF OrderInv
  <2>1. ASSUME NEW c \in Starters, StartStep(c) PROVE OrderInv'
    BY <2>0, <2>1, StartKeepsOrder
  <2>2. ASSUME NEW c \in Stoppers, StopStep(c) PROVE OrderInv'
    <3>1. c \in Callers
      BY DEF Callers
    <3> QED BY <2>0, <2>2, <3>1, OthersKeepOrder
  <2>3. ASSUME NEW c \in Emitters, EmitStep(c) PROVE OrderInv'
    BY <2>0, <2>3, BeginKeepsOrder, PushKeepsOrder, OthersKeepOrder DEF EmitStep, Callers
  <2>4. ASSUME NEW w \in Workers, WorkerStep(w) PROVE OrderInv'
    BY <2>0, <2>4, WorkersKeepOrder
  <2>5. CASE UNCHANGED vars
    <3>1. \A d \in Emitters : caller[d].slot \in Nat
      BY DEF OrderInv, TypeInv, TypeOK, CallerStates, Callers, Slots
    <3> QED BY <2>0, <2>5, <3>1, OrderFrame DEF vars, Handling, Emitting
  <2> QED BY <2>1, <2>2, <2>3, <2>4, <2>5 DEF Next
<1> QED BY <1>1, <1>2, PTL DEF Spec, OrderInv

-----------------------------------------------------------------------------
(* The table of slots implements the registry.                             *)

\* An active slot has the id of a task.
ActiveNamed == \A s \in Slots : status[s].active => status[s].id \in TaskIds

\* While no two starts have collided.
RegistryInv == OwnInv /\ ActiveNamed /\ Settled

LEMMA SettledSlots == RegistryInv => TypeInv /\ UniqueIds /\ \A s \in Slots : SlotInv(s)
BY DEF RegistryInv, Settled, OwnInv, HandleInv

\* How the slots show in the registry: the queue of a task is that of the one
\* active slot that has its id.
View ==
  /\ RunningIds \subseteq TaskIds
  /\ QueueOf = [id \in TaskIds |-> QueueOf[id]]
  /\ \A s \in ActiveSlots :
       /\ status[s].id \in RunningIds
       /\ QueueOf[status[s].id] = pending[s]
       /\ \A t \in ActiveSlots : status[t].id = status[s].id => t = s
  /\ \A id \in TaskIds \ RunningIds : QueueOf[id] = <<>>

\* Since ids are unique, it shows so.
LEMMA ViewOf == RegistryInv => View
<1> SUFFICES ASSUME RegistryInv PROVE View
  OBVIOUS
<1>1. ASSUME NEW s \in ActiveSlots
      PROVE  /\ status[s].id \in RunningIds /\ status[s].id \in TaskIds
             /\ \A t \in ActiveSlots : status[t].id = status[s].id => t = s
  BY SettledSlots, TaskRuntimeAssumption DEF RegistryInv, ActiveNamed, UniqueIds, ActiveSlots, RunningIds
<1>2. RunningIds \subseteq TaskIds
  BY <1>1 DEF RunningIds
<1>3. QueueOf = [id \in TaskIds |-> QueueOf[id]] /\ \A id \in TaskIds \ RunningIds : QueueOf[id] = <<>>
  BY DEF QueueOf
<1>4. ASSUME NEW s \in ActiveSlots
      PROVE  QueueOf[status[s].id] = pending[s]
  <2>1. (CHOOSE t \in ActiveSlots : status[t].id = status[s].id) = s
    BY <1>1
  <2> QED BY <1>1, <2>1 DEF QueueOf
<1> QED BY <1>1, <1>2, <1>3, <1>4 DEF View

\* The same of the next state.
LEMMA ViewNext == RegistryInv' => View'
BY ViewOf, PTL

\* Only a start gives a slot an id, that of its request.
LEMMA NamedStep == TypeInv /\ ActiveNamed /\ [Next]_vars => ActiveNamed'
<1> SUFFICES ASSUME TypeInv, ActiveNamed, [Next]_vars PROVE ActiveNamed'
  OBVIOUS
<1>0. status \in [Slots -> Statuses]
  BY DEF TypeInv, TypeOK
<1>1. ASSUME NEW c \in Starters, StartClaim(c) PROVE ActiveNamed'
  <2>1. caller[c].request.id \in TaskIds
    BY <1>1 DEF StartClaim, TypeInv, CallerInv, Callers, Requests
  <2> QED BY <1>0, <1>1, <2>1 DEF StartClaim, ActiveNamed, Blank
<1>2. ASSUME NEW c \in Starters, StartCreateFails(c) PROVE ActiveNamed'
  <2>1. caller[c].slot \in Slots
    BY DEF TypeInv, TypeOK, CallerStates, Callers
  <2>2. ~status'[caller[c].slot].active
    BY <1>0, <1>2, <2>1 DEF StartCreateFails, Blank, Statuses
  <2>3. \A t \in Slots : t # caller[c].slot => status'[t] = status[t]
    BY <1>0, <1>2, <2>1 DEF StartCreateFails
  <2> QED BY <2>2, <2>3 DEF ActiveNamed
<1>3. ASSUME NEW c \in Stoppers, StopRequest(c) \/ ShutdownRequest(c) PROVE ActiveNamed'
  BY <1>0, <1>3 DEF StopRequest, ShutdownRequest, ActiveNamed, Statuses
<1>4. ASSUME NEW w \in Workers, StepRecord(w) \/ Finish(w) PROVE ActiveNamed'
  <2>1. \A t \in Slots : status'[t].id = status[t].id /\ (status'[t].active => status[t].active)
    <3>1. CASE StepRecord(w)
      BY <1>0, <3>1 DEF StepRecord, Statuses
    <3>2. CASE Finish(w)
      BY <1>0, <3>2 DEF Finish, Statuses
    <3> QED BY <1>4, <3>1, <3>2
  <2> QED BY <2>1 DEF ActiveNamed
<1>5. CASE UNCHANGED status
  BY <1>5 DEF ActiveNamed
<1> QED
  BY <1>1, <1>2, <1>3, <1>4, <1>5
  DEF Next, vars, StartStep, StartPick, StartCreate, StopStep, StopFind, NotifyFound, StopNotify, ShutdownBegin, ShutdownSkip,
      ShutdownNotify, EmitStep, EmitBegin, EmitSkip, EmitMatch, EmitPush, EmitNotify, WorkerStep, WorkerOpen,
      WorkerOpenFails, LoopStop, LoopPeriodic, LoopTake, LoopEmpty, WaitNotified, WaitOnCondition, Exit

\* A step after which the active slots look the same.
LEMMA Stutters ==
  ASSUME View, View', TypeOK,
         \A s \in Slots : /\ status'[s].active = status[s].active
                          /\ status[s].active => /\ status'[s].id = status[s].id
                                                 /\ status'[s].stop = status[s].stop
                                                 /\ pending'[s] = pending[s]
  PROVE  UNCHANGED Registry!vars
<1>1. ActiveSlots' = ActiveSlots
  BY DEF ActiveSlots
<1>2. RunningIds' = RunningIds /\ StoppingIds' = StoppingIds
  BY <1>1 DEF ActiveSlots, RunningIds, StoppingIds
<1>3. ASSUME NEW id \in TaskIds PROVE QueueOf'[id] = QueueOf[id]
  <2>1. CASE id \in RunningIds
    <3>1. PICK s \in ActiveSlots : status[s].id = id
      BY <2>1 DEF RunningIds
    <3>2. s \in ActiveSlots' /\ status'[s].id = id /\ pending'[s] = pending[s]
      BY <1>1, <3>1 DEF ActiveSlots
    <3> QED BY <3>1, <3>2 DEF View
  <2>2. CASE id \notin RunningIds
    BY <1>2, <2>2 DEF View
  <2> QED BY <2>1, <2>2
<1>4. QueueOf' = QueueOf
  BY <1>3 DEF View
<1> QED BY <1>2, <1>4 DEF Registry!vars

\* A slot that ends.
LEMMA Ends ==
  ASSUME View, View', TypeOK, NEW s \in Slots, status[s].active, ~status'[s].active,
         \A t \in Slots : t # s => status'[t] = status[t], UNCHANGED pending
  PROVE  Registry!Next
<1> DEFINE id == status[s].id
<1>1. ActiveSlots' = ActiveSlots \ {s} /\ s \in ActiveSlots
  BY DEF ActiveSlots
<1>2. id \in RunningIds /\ id \in TaskIds
  BY <1>1 DEF View
<1>a. \A t \in ActiveSlots : status[t].id = id <=> t = s
  BY <1>1 DEF View
<1>b. \A t \in ActiveSlots' : t # s /\ t \in ActiveSlots /\ status'[t] = status[t]
  BY <1>1 DEF ActiveSlots
<1>c. \A t \in ActiveSlots : t # s => t \in ActiveSlots'
  BY <1>1
<1> HIDE DEF id
<1>3. RunningIds' = RunningIds \ {id} /\ StoppingIds' = StoppingIds \ {id}
  <2>1. RunningIds' = RunningIds \ {id}
    BY <1>a, <1>b, <1>c DEF RunningIds
  <2>2. StoppingIds' = StoppingIds \ {id}
    BY <1>a, <1>b, <1>c DEF StoppingIds
  <2> QED BY <2>1, <2>2
<1>4. ASSUME NEW i \in TaskIds PROVE QueueOf'[i] = [QueueOf EXCEPT ![id] = <<>>][i]
  <2>0. [QueueOf EXCEPT ![id] = <<>>][i] = IF i = id THEN <<>> ELSE QueueOf[i]
    BY <1>2 DEF View
  <2>1. CASE i \in RunningIds /\ i # id
    <3>1. PICK t \in ActiveSlots : status[t].id = i
      BY <2>1 DEF RunningIds
    <3>2. t # s
      BY <1>a, <2>1, <3>1
    <3>3. t \in ActiveSlots' /\ status'[t].id = i /\ pending'[t] = pending[t]
      BY <1>b, <1>c, <3>1, <3>2
    <3> QED BY <2>0, <2>1, <3>1, <3>3 DEF View
  <2>2. CASE i \notin RunningIds \/ i = id
    BY <1>3, <2>0, <2>2 DEF View
  <2> QED BY <2>1, <2>2
<1>5. QueueOf' = [QueueOf EXCEPT ![id] = <<>>]
  BY <1>4 DEF View
<1> QED BY <1>2, <1>3, <1>5 DEF Registry!Next, Registry!End

\* A stop request of an active slot.
LEMMA Stops ==
  ASSUME View, View', TypeOK, NEW s \in Slots, status[s].active,
         status' = [status EXCEPT ![s].stop = TRUE], UNCHANGED pending
  PROVE  Registry!Next
<1> DEFINE id == status[s].id
<1>0. \A t \in Slots : /\ status'[t].active = status[t].active /\ status'[t].id = status[t].id
                       /\ status'[t].stop <=> status[t].stop \/ t = s
  BY DEF TypeOK, Statuses
<1>1. ActiveSlots' = ActiveSlots /\ s \in ActiveSlots
  BY <1>0 DEF ActiveSlots
<1>2. id \in RunningIds /\ id \in TaskIds
  BY <1>1 DEF View
<1>3. RunningIds' = RunningIds /\ StoppingIds' = StoppingIds \cup {id}
  BY <1>0, <1>1 DEF View, ActiveSlots, RunningIds, StoppingIds
<1>4. ASSUME NEW i \in TaskIds PROVE QueueOf'[i] = QueueOf[i]
  <2>1. CASE i \in RunningIds
    <3>1. PICK t \in ActiveSlots : status[t].id = i
      BY <2>1 DEF RunningIds
    <3>2. t \in ActiveSlots' /\ status'[t].id = i /\ pending'[t] = pending[t]
      BY <1>0, <1>1, <3>1 DEF ActiveSlots
    <3> QED BY <3>1, <3>2 DEF View
  <2>2. CASE i \notin RunningIds
    BY <1>3, <2>2 DEF View
  <2> QED BY <2>1, <2>2
<1>5. QueueOf' = QueueOf
  BY <1>4 DEF View
<1> QED BY <1>2, <1>3, <1>5 DEF Registry!Next, Registry!RequestStop

\* The queue of an active slot changes.
LEMMA Requeued ==
  ASSUME View, View', TypeOK, NEW s \in Slots, status[s].active, UNCHANGED status,
         \A t \in Slots : t # s => pending'[t] = pending[t]
  PROVE  /\ status[s].id \in RunningIds /\ status[s].id \in TaskIds
         /\ UNCHANGED <<RunningIds, StoppingIds>>
         /\ QueueOf[status[s].id] = pending[s]
         /\ QueueOf' = [QueueOf EXCEPT ![status[s].id] = pending'[s]]
<1> DEFINE id == status[s].id
<1>1. ActiveSlots' = ActiveSlots /\ s \in ActiveSlots
  BY DEF ActiveSlots
<1>2. id \in RunningIds /\ id \in TaskIds /\ QueueOf[id] = pending[s]
  BY <1>1 DEF View
<1>3. RunningIds' = RunningIds /\ StoppingIds' = StoppingIds
  BY <1>1 DEF RunningIds, StoppingIds
<1>4. ASSUME NEW i \in TaskIds PROVE QueueOf'[i] = [QueueOf EXCEPT ![id] = pending'[s]][i]
  <2>0. [QueueOf EXCEPT ![id] = pending'[s]][i] = IF i = id THEN pending'[s] ELSE QueueOf[i]
    BY <1>2 DEF View
  <2>1. CASE i \in RunningIds
    <3>1. PICK t \in ActiveSlots : status[t].id = i
      BY <2>1 DEF RunningIds
    <3>2. t \in ActiveSlots' /\ QueueOf'[i] = pending'[t] /\ QueueOf[i] = pending[t]
      BY <1>1, <3>1 DEF View
    <3>3. t = s <=> i = id
      BY <1>1, <3>1 DEF View
    <3> QED BY <2>0, <3>1, <3>2, <3>3 DEF ActiveSlots
  <2>2. CASE i \notin RunningIds
    BY <1>2, <1>3, <2>0, <2>2 DEF View
  <2> QED BY <2>1, <2>2
<1>5. QueueOf' = [QueueOf EXCEPT ![id] = pending'[s]]
  BY <1>4 DEF View
<1> QED BY <1>2, <1>3, <1>5

\* While a slot is free the registry has room for a task.
LEMMA Room ==
  ASSUME View, NEW s \in Slots, ~status[s].active
  PROVE  Cardinality(RunningIds) < MaxSlots
<1>1. MaxSlots \in Nat \ {0}
  BY TaskRuntimeAssumption
<1>2. IsFiniteSet(Slots) /\ Cardinality(Slots) = MaxSlots
  BY <1>1, FS_Interval DEF Slots
<1>3. IsFiniteSet(Slots \ {s}) /\ Cardinality(Slots \ {s}) = MaxSlots - 1
  BY <1>2, FS_RemoveElement
<1>4. ActiveSlots \in SUBSET (Slots \ {s})
  BY DEF ActiveSlots
<1>5. IsFiniteSet(ActiveSlots) /\ Cardinality(ActiveSlots) <= MaxSlots - 1
  BY <1>3, <1>4, FS_Subset
<1> DEFINE f == [t \in ActiveSlots |-> status[t].id]
<1>6. f \in Surjection(ActiveSlots, RunningIds)
  BY DEF Surjection, RunningIds
<1>7. IsFiniteSet(RunningIds) /\ Cardinality(RunningIds) <= Cardinality(ActiveSlots)
  BY <1>5, <1>6, FS_Surjection
<1>8. Cardinality(RunningIds) \in Nat /\ Cardinality(ActiveSlots) \in Nat
  BY <1>5, <1>7, FS_CardinalityType
<1> QED BY <1>1, <1>5, <1>7, <1>8

\* The critical section that arms a slot is the start of a task: the slot that was
\* picked is still free, and no other has the id if none has it afterwards.
LEMMA Starts ==
  ASSUME RegistryInv, UniqueIds', View, View', NEW c \in Starters, StartClaim(c)
  PROVE  Registry!Next
<1> DEFINE s == caller[c].slot
           id == caller[c].request.id
<1>0. c \in Callers /\ s \in Slots /\ id \in TaskIds /\ TypeOK
  BY SettledSlots DEF TypeInv, TypeOK, CallerInv, CallerStates, Callers, StartClaim, Requests
<1>2. /\ \A t \in Slots : t # s => status'[t] = status[t] /\ pending'[t] = pending[t]
      /\ status'[s].active /\ status'[s].id = id /\ ~status'[s].stop /\ pending'[s] = <<>>
  BY <1>0 DEF TypeOK, StartClaim, Blank
<1>a. ~status[s].active
  BY <1>0, SettledSlots DEF SlotInv, StartingAt, Starting, StartClaim
<1>b. \A t \in Slots : t # s => status[t].id # id
  BY <1>0, <1>2, TaskRuntimeAssumption DEF UniqueIds
<1>1. ~status[s].active /\ \A t \in Slots : t # s => status[t].id # id
  BY <1>a, <1>b
<1> HIDE DEF s, id
<1>3. ActiveSlots' = ActiveSlots \cup {s} /\ s \notin ActiveSlots
  BY <1>0, <1>1, <1>2 DEF ActiveSlots
<1>4. id \notin RunningIds
  BY <1>1 DEF RunningIds, ActiveSlots
<1>5. RunningIds' = RunningIds \cup {id} /\ StoppingIds' = StoppingIds
  BY <1>1, <1>2, <1>3 DEF RunningIds, StoppingIds, ActiveSlots
<1>6. ASSUME NEW i \in TaskIds PROVE QueueOf'[i] = QueueOf[i]
  <2>1. CASE i = id
    BY <1>0, <1>2, <1>3, <1>4, <2>1 DEF View
  <2>2. CASE i \in RunningIds
    <3>1. PICK t \in ActiveSlots : status[t].id = i
      BY <2>2 DEF RunningIds
    <3>2. t \in ActiveSlots' /\ status'[t].id = i /\ pending'[t] = pending[t]
      BY <1>2, <1>3, <3>1 DEF ActiveSlots
    <3> QED BY <3>1, <3>2 DEF View
  <2>3. CASE i \notin RunningIds /\ i # id
    BY <1>5, <2>3 DEF View
  <2> QED BY <2>1, <2>2, <2>3
<1>7. QueueOf' = QueueOf
  BY <1>6 DEF View
<1>8. Cardinality(RunningIds) < MaxSlots
  BY <1>0, <1>1, Room
<1>9. Registry!Start(id)
  <2>1. Registry!Cardinality(RunningIds) = Cardinality(RunningIds)
    BY DEF Registry!Cardinality, Cardinality
  <2> QED BY <1>4, <1>5, <1>7, <1>8, <2>1 DEF Registry!Start
<1> QED BY <1>0, <1>9 DEF Registry!Next

\* Every step is one of the registry or changes nothing of it.  Stop requests
\* and payloads for a slot that has ended meanwhile are of the second kind.
LEMMA StepImplements ==
  ASSUME RegistryInv, RegistryInv', [Next]_vars
  PROVE  [Registry!Next]_(Registry!vars)
<1>0. /\ View /\ View' /\ TypeOK /\ status \in [Slots -> Statuses] /\ pending \in [Slots -> Seq(Events)]
      /\ \A c \in Callers : caller[c].slot \in Slots
      /\ \A w \in Workers : worker[w].slot \in Slots
  BY ViewOf, ViewNext, SettledSlots DEF TypeInv, TypeOK, CallerStates, WorkerStates
<1>a. UniqueIds'
  BY DEF RegistryInv, Settled
<1>1. ASSUME NEW c \in Starters, StartClaim(c) PROVE Registry!Next
  BY <1>0, <1>a, <1>1, Starts
<1>2. ASSUME NEW c \in Starters, StartCreateFails(c) PROVE Registry!Next
  <2>1. c \in Callers /\ status[caller[c].slot].active
    BY <1>0, <1>2, SettledSlots DEF SlotInv, StartingAt, Starting, StartCreateFails, Callers
  <2>2. ~status'[caller[c].slot].active /\ UNCHANGED pending
    BY <1>0, <1>2, <2>1 DEF StartCreateFails, Blank, Statuses
  <2>3. \A t \in Slots : t # caller[c].slot => status'[t] = status[t]
    BY <1>0, <1>2, <2>1 DEF StartCreateFails
  <2> QED BY <1>0, <2>1, <2>2, <2>3, Ends
<1>3. ASSUME NEW c \in Stoppers, StopRequest(c) \/ ShutdownRequest(c)
      PROVE  Registry!Next \/ UNCHANGED Registry!vars
  <2> DEFINE s == caller[c].slot
  <2>1. s \in Slots /\ status' = [status EXCEPT ![s].stop = TRUE] /\ UNCHANGED pending
    BY <1>0, <1>3 DEF StopRequest, ShutdownRequest, Callers
  <2> HIDE DEF s
  <2>2. CASE status[s].active
    BY <1>0, <2>1, <2>2, Stops
  <2>3. CASE ~status[s].active
    <3>1. \A t \in Slots : /\ status'[t].active = status[t].active
                           /\ status[t].active => status'[t] = status[t]
      BY <1>0, <2>1, <2>3 DEF Statuses
    <3> QED BY <1>0, <2>1, <3>1, Stutters
  <2> QED BY <2>2, <2>3
<1>4. ASSUME NEW c \in Emitters, EmitPush(c)
      PROVE  Registry!Next \/ UNCHANGED Registry!vars
  <2> DEFINE s == caller[c].slot
             e == caller[c].request
  <2>1. s \in Slots /\ e \in Events /\ UNCHANGED status
    BY <1>0, <1>4, SettledSlots DEF EmitPush, Callers, TypeInv, CallerInv
  <2>2. pending' = [pending EXCEPT ![s] = Queue!Pushed(@, e)]
    BY <1>4 DEF EmitPush
  <2> HIDE DEF s, e
  <2>3. pending'[s] = Queue!Pushed(pending[s], e) /\ \A t \in Slots : t # s => pending'[t] = pending[t]
    BY <1>0, <2>1, <2>2
  <2>4. CASE status[s].active
    <3> DEFINE id == status[s].id
    <3>1. /\ id \in RunningIds /\ id \in TaskIds /\ UNCHANGED <<RunningIds, StoppingIds>>
          /\ QueueOf[id] = pending[s] /\ QueueOf' = [QueueOf EXCEPT ![id] = pending'[s]]
      BY <1>0, <2>1, <2>3, <2>4, Requeued
    <3> HIDE DEF id
    <3>2. QueueOf' = [QueueOf EXCEPT ![id] = Queue!Pushed(QueueOf[id], e)]
      BY <2>3, <3>1
    <3>3. Registry!Accept(id, e)
      BY <3>1, <3>2 DEF Registry!Accept, Registry!Queue!Pushed, Queue!Pushed
    <3> QED BY <2>1, <3>1, <3>3 DEF Registry!Next
  <2>5. CASE ~status[s].active
    BY <1>0, <2>1, <2>3, <2>5, Stutters
  <2> QED BY <2>4, <2>5
<1>5. ASSUME NEW w \in Workers, LoopTake(w) PROVE Registry!Next
  <2> DEFINE s == worker[w].slot
             id == status[s].id
  <2>1. s \in Slots /\ status[s].active /\ UNCHANGED status
    BY <1>0, <1>5, SettledSlots DEF LoopTake, SlotInv, RunningOn, Running
  <2>2. pending[s] # <<>> /\ pending' = [pending EXCEPT ![s] = Tail(@)]
    BY <1>5 DEF LoopTake
  <2> HIDE DEF s
  <2>3. pending'[s] = Tail(pending[s]) /\ \A t \in Slots : t # s => pending'[t] = pending[t]
    BY <1>0, <2>1, <2>2
  <2>4. /\ id \in RunningIds /\ id \in TaskIds /\ UNCHANGED <<RunningIds, StoppingIds>>
        /\ QueueOf[id] = pending[s] /\ QueueOf' = [QueueOf EXCEPT ![id] = pending'[s]]
    BY <1>0, <2>1, <2>3, Requeued
  <2> HIDE DEF id
  <2>5. Registry!Take(id)
    BY <2>2, <2>3, <2>4 DEF Registry!Take
  <2> QED BY <2>4, <2>5 DEF Registry!Next
<1>6. ASSUME NEW w \in Workers, StepRecord(w) PROVE UNCHANGED Registry!vars
  <2>1. UNCHANGED pending /\ \A t \in Slots : /\ status'[t].active = status[t].active
                                              /\ status'[t].id = status[t].id
                                              /\ status'[t].stop = status[t].stop
    BY <1>0, <1>6 DEF StepRecord, Statuses
  <2> QED BY <1>0, <2>1, Stutters
<1>7. ASSUME NEW w \in Workers, Finish(w) PROVE Registry!Next
  <2>1. status[worker[w].slot].active
    BY <1>0, <1>7, SettledSlots DEF SlotInv, RunningOn, Running, Finish
  <2>2. ~status'[worker[w].slot].active /\ UNCHANGED pending
    BY <1>0, <1>7 DEF Finish, Statuses
  <2>3. \A t \in Slots : t # worker[w].slot => status'[t] = status[t]
    BY <1>0, <1>7 DEF Finish
  <2> QED BY <1>0, <2>1, <2>2, <2>3, Ends
<1>8. CASE UNCHANGED <<status, pending>>
  BY <1>0, <1>8, Stutters
<1> QED
  BY <1>1, <1>2, <1>3, <1>4, <1>5, <1>6, <1>7, <1>8
  DEF Next, vars, StartStep, StartPick, StartCreate, StopStep, StopFind, NotifyFound, StopNotify, ShutdownBegin, ShutdownSkip,
      ShutdownNotify, EmitStep, EmitBegin, EmitSkip, EmitMatch, EmitNotify, WorkerStep, WorkerOpen,
      WorkerOpenFails, LoopStop, LoopPeriodic, LoopEmpty, WaitNotified, WaitOnCondition, Exit

\* However many threads start tasks, stop them and emit events, the table of slots with
\* its unlocked searches implements the registry while no two starts have collided: a
\* task is started only while it does not run and there is room, without a stop request
\* or an event of an earlier run, and keeps both until it ends.
THEOREM RegistryImplemented == Spec => ImplementsRegistry
<1>1. Init => ActiveNamed /\ Registry!Init
  <2> SUFFICES ASSUME Init PROVE ActiveNamed /\ Registry!Init
    OBVIOUS
  <2>1. ActiveSlots = {} /\ ActiveNamed
    BY DEF Init, Blank, ActiveSlots, ActiveNamed
  <2>2. RunningIds = {} /\ StoppingIds = {}
    BY <2>1 DEF RunningIds, StoppingIds
  <2>3. QueueOf = [id \in TaskIds |-> <<>>]
    BY <2>2 DEF QueueOf
  <2> QED BY <2>1, <2>2, <2>3 DEF Registry!Init
<1>2. OwnInv /\ ActiveNamed /\ [Next]_vars => ActiveNamed'
  BY NamedStep DEF OwnInv, HandleInv
<1>3. OwnInv /\ ActiveNamed /\ OwnInv' /\ ActiveNamed' /\ [Next]_vars
        => [Settled /\ Settled' => Registry!Next \/ UNCHANGED Registry!vars]_vars
  BY StepImplements DEF RegistryInv
<1> QED BY <1>1, <1>2, <1>3, AlwaysOwned, PTL DEF Spec, ImplementsRegistry
=============================================================================
