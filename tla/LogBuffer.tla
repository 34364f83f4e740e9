----------------------------- MODULE LogBuffer ------------------------------
(***************************************************************************)
(* The log kept in memory (log_buffer.c): a ring of bytes with a start, a  *)
(* size and a count of dropped bytes, written by every task that logs, and *)
(* the report that the admin server and the tool system.logs make of it in *)
(* three critical sections.  A byte is known by its number in the log.     *)
(***************************************************************************)
EXTENDS Integers, Sequences

CONSTANTS
  LogCapacity,   \* ESPCLAW_LOG_BUFFER_CAPACITY
  AppendMax,     \* the longest text appended at once
  TailMax,       \* the bytes of the buffer the report copies the tail into
  LogMax,        \* bound on the length of the log
  LogReaders,
  LogRequests    \* the numbers of bytes a reader asks for; 0 means all

ASSUME LogAssumption ==
  /\ LogCapacity \in Nat \ {0}
  /\ AppendMax \in Nat
  /\ TailMax \in Nat \ {0}
  /\ LogMax \in Nat
  /\ LogRequests \subseteq Nat

VARIABLES
  ring,      \* s_log_ring; 0 is a cleared byte
  start,     \* s_log_start
  size,      \* s_log_size
  dropped,   \* s_log_dropped_bytes
  total,     \* history: the bytes logged so far
  missed,    \* history: the bytes a text as long as the ring threw out uncounted
  reader     \* where a reader is, what it has read, and the log's length meanwhile

logVars == <<ring, start, size, dropped, total, missed, reader>>

LogCells == 0 .. LogCapacity - 1

Resting == [pc |-> "rest", want |-> 0, stored |-> 0, dropped |-> 0, text |-> <<>>, from |-> 0, upto |-> 0]

LogInit ==
  /\ ring = [c \in LogCells |-> 0]
  /\ start = 0
  /\ size = 0
  /\ dropped = 0
  /\ total = 0
  /\ missed = 0
  /\ reader = [r \in LogReaders |-> Resting]

\* Bytes numbered first + 1 .. first + n are stored behind the s bytes from cell
\* b on.
RingWith(b, s, first, n) ==
  [c \in LogCells |->
     LET i == (c - b - s) % LogCapacity IN IF i < n THEN first + i + 1 ELSE ring[c]]

\* Mutant of LogShort: one byte too few is dropped and the size is capped.
LogShort_Keeps(n) ==
  LET over == IF size + n > LogCapacity THEN size + n - LogCapacity - 1 ELSE 0
      b == (start + over) % LogCapacity IN
  /\ n < LogCapacity
  /\ ring' = RingWith(b, size - over, total, n)
  /\ start' = b
  /\ size' = IF size - over + n > LogCapacity THEN LogCapacity ELSE size - over + n
  /\ dropped' = dropped + over
  /\ UNCHANGED missed

\* A text shorter than the ring drops as many of the oldest bytes as it needs.
LogShort(n) ==
  LET over == IF size + n > LogCapacity THEN size + n - LogCapacity ELSE 0
      b == (start + over) % LogCapacity IN
  /\ n < LogCapacity
  /\ ring' = RingWith(b, size - over, total, n)
  /\ start' = b
  /\ size' = size - over + n
  /\ dropped' = dropped + over
  /\ UNCHANGED missed

\* A longer one fills the ring with its end. Only its own beginning is counted as
\* dropped, not what the ring held.
LogLong(n) ==
  /\ n >= LogCapacity
  /\ ring' = RingWith(0, 0, total + n - LogCapacity, LogCapacity)
  /\ start' = 0
  /\ size' = LogCapacity
  /\ dropped' = dropped + n - LogCapacity
  /\ missed' = missed + size

\* espclaw_log_buffer_append, and log_buffer_vprintf with a line it has cut.
LogAppend ==
  \E n \in 1 .. AppendMax :
    /\ total + n <= LogMax
    /\ LogShort(n) \/ LogLong(n)
    /\ total' = total + n
    /\ UNCHANGED reader

\* espclaw_log_buffer_render_json: the size, then the dropped bytes, then the tail.
ReadSize(r) ==
  /\ reader[r].pc = "rest"
  /\ \E want \in LogRequests :
       reader' = [reader EXCEPT ![r] = [Resting EXCEPT !.pc = "dropped", !.want = want,
                                                       !.stored = size, !.from = total]]
  /\ UNCHANGED <<ring, start, size, dropped, total, missed>>

ReadDropped(r) ==
  /\ reader[r].pc = "dropped"
  /\ reader' = [reader EXCEPT ![r].pc = "copy", ![r].dropped = dropped]
  /\ UNCHANGED <<ring, start, size, dropped, total, missed>>

\* Mutant of Copy: the index does not wrap but stays in the last cell.
Copy_NoWrap(first, n) ==
  [i \in 1 .. n |-> ring[IF first + i - 1 < LogCapacity THEN first + i - 1 ELSE LogCapacity - 1]]

\* espclaw_log_buffer_copy_tail copies from the beginning of the tail asked for as
\* much as its buffer holds beside the terminator.
Asked(want) == IF want > 0 /\ want < size THEN want ELSE size
Fits(n) == IF n < TailMax THEN n ELSE TailMax - 1
Copy(first, n) == [i \in 1 .. n |-> ring[(first + i - 1) % LogCapacity]]

CopyTail(r) ==
  LET asked == Asked(reader[r].want) IN
  /\ reader[r].pc = "copy"
  /\ reader' = [reader EXCEPT ![r].pc = "done", ![r].upto = total,
                              ![r].text = Copy((start + size - asked) % LogCapacity, Fits(asked))]
  /\ UNCHANGED <<ring, start, size, dropped, total, missed>>

Rendered(r) ==
  /\ reader[r].pc = "done"
  /\ reader' = [reader EXCEPT ![r] = Resting]
  /\ UNCHANGED <<ring, start, size, dropped, total, missed>>

LogNext ==
  \/ LogAppend
  \/ \E r \in LogReaders : ReadSize(r) \/ ReadDropped(r) \/ CopyTail(r) \/ Rendered(r)

LogSpec == LogInit /\ [][LogNext]_logVars
-----------------------------------------------------------------------------
\* The newest k bytes of a log of n bytes.
Newest(n, k) == [i \in 1 .. k |-> n - k + i]
AtMost(n, k) == IF n < k THEN n ELSE k

LogTypeOK ==
  /\ ring \in [LogCells -> Nat]
  /\ start \in LogCells
  /\ size \in 0 .. LogCapacity
  /\ dropped \in Nat
  /\ total \in Nat
  /\ missed \in Nat

\* The ring always holds the newest bytes of everything logged, in order and as
\* many as fit, and each other byte was counted as dropped once, except those
\* that a text as long as the ring threw out.
LogKeepsNewest ==
  /\ size = AtMost(total, LogCapacity)
  /\ Copy(start, size) = Newest(total, size)
  /\ size + dropped + missed = total

\* A report that asks for less than the buffer of the report holds shows the
\* newest bytes; one that asks for more shows the oldest of those asked for.
\* While no text is as long as the ring, its counts add up to a length the log had
\* while it was made, although others log between its critical sections.
LogReportTrue ==
  \A r \in LogReaders :
    /\ reader[r].pc = "done" =>
         LET kept == AtMost(reader[r].upto, LogCapacity)
             asked == IF reader[r].want = 0 THEN kept ELSE AtMost(reader[r].want, kept) IN
         reader[r].text = SubSeq(Newest(reader[r].upto, asked), 1, AtMost(asked, TailMax - 1))
    /\ reader[r].pc \in {"copy", "done"} /\ missed = 0 =>
         reader[r].stored + reader[r].dropped \in reader[r].from .. total
=============================================================================
