---------------------------- MODULE PendingQueue ----------------------------
(***************************************************************************)
(* What the queue of event payloads in a task slot promises to the threads *)
(* that emit events and to the worker that handles them: payloads come out *)
(* in the order in which they went in, and when the queue is full a new    *)
(* payload replaces the newest one.  The operators are those the task      *)
(* runtime uses; the specification is what the ring buffer of a slot       *)
(* (module PendingRing) is shown to implement.                             *)
(***************************************************************************)
EXTENDS Naturals, Sequences

CONSTANTS
  Payloads,  \* the payloads an event can carry
  QueueMax   \* the number of payloads a slot can hold (4 in the code)

VARIABLE queue

\* The queue after espclaw_task_emit_event has put p into it.
Pushed(q, p) ==
  IF Len(q) < QueueMax THEN Append(q, p) ELSE [q EXCEPT ![QueueMax] = p]

Init == queue = <<>>

Push(p) == queue' = Pushed(queue, p)

Pop == queue # <<>> /\ queue' = Tail(queue)

Clear == queue' = <<>>

Next == (\E p \in Payloads : Push(p)) \/ Pop \/ Clear

Spec == Init /\ [][Next]_queue
=============================================================================
