---------------------------- MODULE TaskRegistry ----------------------------
(***************************************************************************)
(* What the task runtime promises to the threads that use it, without      *)
(* slots, workers or locks: a bounded set of running tasks, each with an   *)
(* id of its own, a queue of accepted events, and a stop request that is   *)
(* not withdrawn while the task runs.                                      *)
(***************************************************************************)
EXTENDS Naturals, Sequences, FiniteSets

CONSTANTS
  TaskIds,
  Events,
  Capacity,   \* how many tasks may run at once
  QueueMax    \* how many events a task can have pending

VARIABLES
  running,    \* the ids of the running tasks
  stopping,   \* those that were asked to stop
  queue       \* task id -> its pending events

vars == <<running, stopping, queue>>

Queue == INSTANCE PendingQueue WITH Payloads <- Events

Init ==
  /\ running = {}
  /\ stopping = {}
  /\ queue = [id \in TaskIds |-> <<>>]

\* A task starts with no stop request and no event of an earlier run.
Start(id) ==
  /\ id \notin running
  /\ Cardinality(running) < Capacity
  /\ running' = running \cup {id}
  /\ UNCHANGED <<stopping, queue>>

RequestStop(id) ==
  /\ id \in running
  /\ stopping' = stopping \cup {id}
  /\ UNCHANGED <<running, queue>>

Accept(id, e) ==
  /\ id \in running
  /\ queue' = [queue EXCEPT ![id] = Queue!Pushed(@, e)]
  /\ UNCHANGED <<running, stopping>>

Take(id) ==
  /\ id \in running
  /\ queue[id] # <<>>
  /\ queue' = [queue EXCEPT ![id] = Tail(@)]
  /\ UNCHANGED <<running, stopping>>

\* A task ends by itself, after a failure or on request; what it left in its
\* queue is lost.
End(id) ==
  /\ id \in running
  /\ running' = running \ {id}
  /\ stopping' = stopping \ {id}
  /\ queue' = [queue EXCEPT ![id] = <<>>]

Next ==
  \E id \in TaskIds :
    \/ Start(id) \/ RequestStop(id) \/ Take(id) \/ End(id)
    \/ \E e \in Events : Accept(id, e)

Spec == Init /\ [][Next]_vars
=============================================================================
