----------------------------- MODULE PendingRing ----------------------------
(***************************************************************************)
(* The ring buffer that holds the pending payloads of a task slot          *)
(* (pending_payloads, pending_head, pending_tail, pending_count in         *)
(* task_runtime.c).  Each action is one critical section of the slot's     *)
(* lock.  The ring is shown to implement PendingQueue.                     *)
(***************************************************************************)
EXTENDS Naturals, Sequences

CONSTANTS
  Payloads,
  QueueMax,
  Empty      \* the payload of a cell that was cleared

ASSUME RingAssumption == QueueMax \in Nat \ {0} /\ Empty \notin Payloads

VARIABLES
  buf,    \* pending_payloads
  head,   \* pending_head: the cell of the oldest payload
  tail,   \* pending_tail: the cell the next payload goes to
  count   \* pending_count

vars == <<buf, head, tail, count>>

Cells == 0 .. QueueMax - 1

Init ==
  /\ buf = [c \in Cells |-> Empty]
  /\ head = 0
  /\ tail = 0
  /\ count = 0

\* espclaw_task_emit_event, when there is room.
PushFree(p) ==
  /\ count < QueueMax
  /\ buf' = [buf EXCEPT ![tail] = p]
  /\ tail' = (tail + 1) % QueueMax
  /\ count' = count + 1
  /\ UNCHANGED head

\* Mutant of PushFull: the cell at tail, that of the oldest payload, is
\* overwritten.
PushFull_AtTail(p) ==
  /\ count >= QueueMax
  /\ buf' = [buf EXCEPT ![tail] = p]
  /\ UNCHANGED <<head, tail, count>>

\* espclaw_task_emit_event, when the ring is full: the newest payload, in the
\* cell before tail, is overwritten.
PushFull(p) ==
  /\ count >= QueueMax
  /\ buf' = [buf EXCEPT ![(tail + QueueMax - 1) % QueueMax] = p]
  /\ UNCHANGED <<head, tail, count>>

\* run_task_worker takes the oldest payload.
Pop ==
  /\ count > 0
  /\ buf' = [buf EXCEPT ![head] = Empty]
  /\ head' = (head + 1) % QueueMax
  /\ count' = count - 1
  /\ UNCHANGED tail

\* espclaw_task_start_with_schedule arms the slot for a new task.
Reset ==
  /\ buf' = [c \in Cells |-> Empty]
  /\ head' = 0
  /\ tail' = 0
  /\ count' = 0

Next == (\E p \in Payloads : PushFree(p) \/ PushFull(p)) \/ Pop \/ Reset

Spec == Init /\ [][Next]_vars
-----------------------------------------------------------------------------
\* The cell that holds the payload at position i of the queue, from 1.
CellOf(i) == (head + i - 1) % QueueMax

\* The payloads in the ring, oldest first.
Contents == [i \in 1 .. count |-> buf[CellOf(i)]]

\* The ring behaves as the queue its users rely on: what the worker of
\* run_task_worker takes is what espclaw_task_emit_event stored, in order, and
\* a full ring gives up its newest payload and no other.
Queue == INSTANCE PendingQueue WITH queue <- Contents

ImplementsQueue == Queue!Spec

TypeOK ==
  /\ buf \in [Cells -> Payloads \cup {Empty}]
  /\ head \in Cells
  /\ tail \in Cells
  /\ count \in 0 .. QueueMax

\* The redundant tail index agrees with head and count, and the cells that
\* hold a payload are exactly the count cells from head on: the two indices of
\* task_runtime.c never drift apart whatever the order of emits and takes.
RingConsistent ==
  /\ tail = (head + count) % QueueMax
  /\ {c \in Cells : buf[c] # Empty} = {CellOf(i) : i \in 1 .. count}
=============================================================================
